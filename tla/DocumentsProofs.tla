--------------------------- MODULE DocumentsProofs ---------------------------
(***************************************************************************)
(* Proofs about Documents: for every value a script can build, every       *)
(* document it can receive, and with no bound on either.                   *)
(***************************************************************************)
EXTENDS Documents, QueriesProofs, LeastNaturals, SequenceTheorems, FiniteSetTheorems

(* One call runs at a time, and what it works on is not there before.      *)
OneCall ==
  /\ iters # <<>> => from = 0 /\ value = NoValue /\ read # 0
  /\ from = 0 => out = <<>> /\ frames = <<>> /\ ~overflow
  /\ overflow => frames # <<>>
  /\ iters = <<>> /\ value = NoValue => read = 0
  /\ value.kind = "node" => read # 0 /\ value = Reference(made[0])

(* Each frame writes the document of the element its caller has written,   *)
(* for the node of that entry.                                             *)
FramesNest ==
  /\ Len(frames) <= StackSize
  /\ overflow => Len(frames) = StackSize
  /\ frames # <<>> => frames[1].node = from /\ frames[1].at = 0
  /\ \A k \in DOMAIN frames :
       /\ frames[k].next <= Len(heap[frames[k].node].entries) + 1
       /\ k > 1 => /\ frames[k].at # 0
                   /\ out[frames[k].at].in = frames[k - 1].at
                   /\ out[frames[k].at].type \in Nested
                   /\ frames[k].node = NodeOf(frames[k].at)
                   /\ ~IsCut(frames[k].at)
  /\ \A j, k \in DOMAIN frames : j < k => frames[j].at < frames[k].at

(* A list is applied once while its document is written, and only then.    *)
AppliedMeansOpen ==
  /\ \A k \in DOMAIN frames : k > 1 /\ IsList(heap[frames[k].node]) => applied[frames[k].node] = 1
  /\ \A j, k \in DOMAIN frames :
       1 < j /\ j < k /\ IsList(heap[frames[k].node]) => frames[j].node # frames[k].node
  /\ ~overflow =>
       \A n \in DOMAIN heap : applied[n] # 0 =>
         \E k \in DOMAIN frames : k > 1 /\ frames[k].node = n /\ IsList(heap[n])

EveryElementShows ==
  \A p \in DOMAIN out :
    /\ origins[p].entry \in DOMAIN heap[origins[p].node].entries
    /\ EntryOf(p).value.kind \in Encodable \cup {"node"}
    /\ ShowsItsEntry(p)
    /\ ~IsCut(out[p].in)
    /\ \A q \in origins[p].within : q < p /\ out[q].type \in Nested /\ ~IsCut(q)

EntriesInOrder ==
  /\ \A p, q \in DOMAIN out : p < q /\ out[p].in = out[q].in => origins[p].entry < origins[q].entry
  /\ \A k \in DOMAIN frames : \A p \in DOMAIN out :
       out[p].in = frames[k].at => origins[p].entry < frames[k].next

(* What a document has before it is written to its end.                    *)
NothingLeftOut ==
  from # 0 /\ ~overflow =>
    \A p \in {0} \cup {q \in DOMAIN out : out[q].type \in Nested} :
      \A e \in DOMAIN heap[NodeOf(p)].entries :
        /\ ~IsCut(p)
        /\ heap[NodeOf(p)].entries[e].value.kind \in Encodable \cup {"node"}
        /\ \A k \in DOMAIN frames : frames[k].at = p => e < frames[k].next
        => \E q \in DOMAIN out : out[q].in = p /\ origins[q].entry = e

(* The calls of the decoder: each visits the document of the element that  *)
(* its caller is at.                                                       *)
CallsNest(calls) ==
  /\ calls # <<>> => calls[1].at = 0
  /\ \A k \in DOMAIN calls :
       /\ calls[k].at \in 0 .. Len(Doc) /\ calls[k].pos \in 0 .. Len(Doc)
       /\ made[calls[k].at] = calls[k].node
       /\ k > 1 => /\ calls[k].at # 0
                   /\ calls[k].at = calls[k - 1].pos
                   /\ Doc[calls[k].at].in = calls[k - 1].at
                   /\ Doc[calls[k].at].type \in Nested
       /\ calls[k].pos # calls[k].at => calls[k].pos # 0 /\ Doc[calls[k].pos].in = calls[k].at
       /\ calls[k].at <= calls[k].pos
  /\ \A j, k \in DOMAIN calls : j < k => calls[j].at < calls[k].at

ItersNest == CallsNest(iters)

(* No element has the node of another, and none is made before its turn.   *)
MadeOnce ==
  read # 0 =>
    /\ made[0] # 0
    /\ \A p, q \in 0 .. Len(Doc) : made[p] # 0 /\ made[p] = made[q] => p = q
    /\ \A p \in 0 .. Len(Doc) :
         made[p] # 0 => heap[made[p]].class = IF p = 0 THEN "array" ELSE "stdClass"
    /\ \A p \in DOMAIN Doc : made[p] # 0 => made[Doc[p].in] # 0
    /\ \A k \in DOMAIN iters : \A p \in DOMAIN Doc :
         Doc[p].in = iters[k].at /\ p > iters[k].pos => made[p] = 0

(* A document is decoded of which nothing is lost.                         *)
DecodesCleanly == read # 0 /\ value # Fatal /\ IsClean(Doc)

(* The value an element has in PHP.                                        *)
ValueOf(p) == IF Doc[p].type \in Nested THEN Reference(made[p]) ELSE Leaf(Doc[p].type)

IsPlacedRight(p) ==
  /\ Doc[p].type \in Encodable \cup Nested
  /\ Doc[p].type \in Nested => made[p] # 0
  /\ made[Doc[p].in] # 0
  /\ placed[p] \in DOMAIN heap[made[Doc[p].in]].entries
  /\ heap[made[Doc[p].in]].entries[placed[p]] =
       [key |-> PhpKey(heap[made[Doc[p].in]].class, Doc[p].name), value |-> ValueOf(p)]

(* What is placed has the key and the value of its element, and what is    *)
(* made has nothing but what is placed, in its order.                      *)
PlacedRight ==
  DecodesCleanly =>
    /\ \A p \in DOMAIN Doc : placed[p] # 0 => IsPlacedRight(p)
    /\ \A q \in 0 .. Len(Doc) : made[q] # 0 =>
         \A e \in DOMAIN heap[made[q]].entries : \E p \in DOMAIN Doc : Doc[p].in = q /\ placed[p] = e
    /\ \A p, q \in DOMAIN Doc :
         p < q /\ Doc[p].in = Doc[q].in /\ placed[p] # 0 /\ placed[q] # 0 => placed[p] < placed[q]

(* What has been visited is placed, except what is not at its end yet.     *)
IsOpen(p) == \E k \in DOMAIN iters : iters[k].at = p

VisitedIsPlaced ==
  DecodesCleanly =>
    /\ \A k \in DOMAIN iters : \A p \in DOMAIN Doc :
         Doc[p].in = iters[k].at =>
           /\ placed[p] # 0 => p <= iters[k].pos /\ ~IsOpen(p)
           /\ p <= iters[k].pos /\ Doc[p].type # "unsupported" /\ ~IsOpen(p) => placed[p] # 0
    /\ \A q \in 0 .. Len(Doc) : made[q] # 0 /\ ~IsOpen(q) =>
         \A p \in DOMAIN Doc : Doc[p].in = q /\ Doc[p].type # "unsupported" => placed[p] # 0

EncoderOK == FramesNest /\ AppliedMeansOpen /\ EveryElementShows /\ EntriesInOrder /\ NothingLeftOut

DecoderOK == ItersNest /\ MadeOnce /\ PlacedRight /\ VisitedIsPlaced

IInv == TypeOK /\ OneCall /\ EncoderOK /\ DecoderOK

-----------------------------------------------------------------------------
(* Sequences.                                                              *)

LEMMA AppendFacts ==
  ASSUME NEW S, NEW s \in Seq(S), NEW e \in S
  PROVE  /\ Len(s) \in Nat /\ DOMAIN s = 1 .. Len(s)
         /\ Append(s, e) \in Seq(S) /\ Len(Append(s, e)) = Len(s) + 1
         /\ DOMAIN Append(s, e) = 1 .. Len(s) + 1
         /\ \A i \in DOMAIN s : Append(s, e)[i] = s[i]
         /\ Append(s, e)[Len(s) + 1] = e
<1>1. Append(s, e) \in Seq(S) /\ Len(Append(s, e)) = Len(s) + 1
  BY AppendProperties
<1>2. DOMAIN s = 1 .. Len(s) /\ Len(s) \in Nat /\ DOMAIN Append(s, e) = 1 .. Len(s) + 1
  BY <1>1, LenProperties
<1>. QED
  BY <1>1, <1>2, AppendProperties

LEMMA PopFacts ==
  ASSUME NEW S, NEW s \in Seq(S), s # <<>>
  PROVE  /\ Len(s) \in Nat \ {0} /\ DOMAIN s = 1 .. Len(s)
         /\ Pop(s) \in Seq(S) /\ Len(Pop(s)) = Len(s) - 1
         /\ DOMAIN Pop(s) = 1 .. Len(s) - 1
         /\ \A i \in 1 .. Len(s) - 1 : Pop(s)[i] = s[i]
<1>1. Len(s) \in Nat \ {0} /\ DOMAIN s = 1 .. Len(s)
  BY LenProperties, EmptySeq
<1>2. \A i \in 1 .. Len(s) - 1 : s[i] \in S
  BY <1>1, ElementOfSeq
<1>3. Pop(s) \in Seq(S) /\ Len(Pop(s)) = IF 1 <= Len(s) - 1 THEN Len(s) - 1 - 1 + 1 ELSE 0
  BY <1>1, <1>2, SubSeqProperties DEF Pop
<1>4. \A i \in 1 .. Len(s) - 1 - 1 + 1 : Pop(s)[i] = s[1 + i - 1]
  BY <1>1, <1>2, SubSeqProperties DEF Pop
<1>5. Len(Pop(s)) = Len(s) - 1
  <2>1. CASE Len(s) = 1
    BY <1>1, <1>3, <2>1
  <2>2. CASE Len(s) # 1
    <3>1. 1 <= Len(s) - 1
      BY <1>1, <2>2
    <3>. QED
      BY <1>1, <1>3, <3>1
  <2>. QED
    BY <2>1, <2>2
<1>6. DOMAIN Pop(s) = 1 .. Len(s) - 1
  BY <1>3, <1>5, LenProperties
<1>7. \A i \in 1 .. Len(s) - 1 : i \in 1 .. Len(s) - 1 - 1 + 1 /\ 1 + i - 1 = i
  BY <1>1
<1>8. \A i \in 1 .. Len(s) - 1 : Pop(s)[i] = s[i]
  BY <1>4, <1>7
<1>. QED
  BY <1>1, <1>3, <1>5, <1>6, <1>8

LEMMA ReplaceFacts ==
  ASSUME NEW S, NEW s \in Seq(S), NEW i \in DOMAIN s, NEW e \in S
  PROVE  /\ [s EXCEPT ![i] = e] \in Seq(S) /\ Len([s EXCEPT ![i] = e]) = Len(s)
         /\ DOMAIN [s EXCEPT ![i] = e] = DOMAIN s
         /\ \A j \in DOMAIN s : [s EXCEPT ![i] = e][j] = IF j = i THEN e ELSE s[j]
<1>1. DOMAIN s = 1 .. Len(s)
  BY LenProperties
<1>. QED
  BY <1>1, ExceptSeq

-----------------------------------------------------------------------------
(* The encoder: the effects of a step.                                     *)

(* The frame that runs.                                                    *)
LEMMA FrameFacts ==
  ASSUME TypeOK, frames # <<>>
  PROVE  /\ Len(frames) \in Nat \ {0} /\ DOMAIN frames = 1 .. Len(frames)
         /\ Len(frames) \in DOMAIN frames
         /\ Frame \in Frames /\ Frame = frames[Len(frames)]
         /\ \A k \in DOMAIN frames : frames[k] \in Frames
<1>1. frames \in Seq(Frames)
  BY DEF TypeOK
<1>2. Len(frames) \in Nat \ {0} /\ DOMAIN frames = 1 .. Len(frames)
  BY <1>1, LenProperties, EmptySeq
<1>3. \A k \in DOMAIN frames : frames[k] \in Frames
  BY <1>1, <1>2, ElementOfSeq
<1>. QED
  BY <1>2, <1>3 DEF Frame

(* The nodes of the heap and their entries.                                *)
LEMMA HeapFacts ==
  ASSUME TypeOK, NEW n \in DOMAIN heap
  PROVE  /\ heap[n] \in HeapNodes
         /\ heap[n].entries \in Seq([key : PhpKeys, value : Values])
         /\ DOMAIN heap[n].entries = 1 .. Len(heap[n].entries)
         /\ Len(heap[n].entries) \in Nat
         /\ \A e \in DOMAIN heap[n].entries :
              /\ heap[n].entries[e].key \in PhpKeys /\ heap[n].entries[e].value \in Values
<1>1. heap \in Seq(HeapNodes) /\ DOMAIN heap = 1 .. Len(heap)
  BY LenProperties DEF TypeOK
<1>2. heap[n] \in HeapNodes
  BY <1>1, ElementOfSeq
<1>3. heap[n].entries \in Seq([key : PhpKeys, value : Values])
  BY <1>2 DEF HeapNodes
<1>4. DOMAIN heap[n].entries = 1 .. Len(heap[n].entries) /\ Len(heap[n].entries) \in Nat
  BY <1>3, LenProperties
<1>5. \A e \in DOMAIN heap[n].entries : heap[n].entries[e] \in [key : PhpKeys, value : Values]
  BY <1>3, <1>4, ElementOfSeq
<1>. QED
  BY <1>2, <1>3, <1>4, <1>5

(* The entry that is next.                                                 *)
LEMMA EntryFacts ==
  ASSUME TypeOK, AtEntry
  PROVE  /\ frames # <<>> /\ ~overflow
         /\ Frame.node \in DOMAIN heap /\ Frame.next \in DOMAIN heap[Frame.node].entries
         /\ Frame.next \in Nat /\ Frame.at \in 0 .. Len(out)
         /\ Entry = heap[Frame.node].entries[Frame.next]
         /\ Entry.key \in PhpKeys
         /\ Entry.value \in Values
<1>1. frames # <<>> /\ ~overflow /\ Frame.next <= Len(heap[Frame.node].entries)
  BY DEF AtEntry, Encoding
<1>2. Frame.node \in DOMAIN heap /\ Frame.next \in Nat \ {0} /\ Frame.at \in 0 .. Len(out)
  BY <1>1, FrameFacts DEF Frames
<1>3. Frame.next \in DOMAIN heap[Frame.node].entries
  BY <1>1, <1>2, HeapFacts
<1>. QED
  BY <1>1, <1>2, <1>3, HeapFacts DEF Entry

(* A value is a reference or a leaf.                                       *)
LEMMA ValueFacts ==
  ASSUME NEW v \in Values
  PROVE  /\ v.kind = "node" => v.node \in DOMAIN heap /\ v = Reference(v.node)
         /\ v.kind # "node" => v.kind \in LeafKinds /\ v = Leaf(v.kind)
  BY DEF Values, Reference, Leaf, LeafKinds, Encodable

(* The name of an entry is a name of BSON.                                 *)
LEMMA BsonNameFacts ==
  ASSUME NEW key \in PhpKeys
  PROVE  BsonName(key) \in BsonNames
<1>1. CASE key \in [type : {"int", "digits"}, num : Int]
  <2>1. key.num \in Int /\ key.num % Wrap \in Int /\ key.type \in {"int", "digits"}
    BY <1>1, WrapAssumption
  <2>. QED
    BY <2>1 DEF BsonName, BsonNames, Num
<1>2. CASE key \in [type : {"name", "private"}, str : STRING]
  <2>1. key.str \in STRING /\ key.type \in {"name", "private"}
    BY <1>2
  <2>. QED
    BY <2>1 DEF BsonName, BsonNames, Str
<1>. QED
  BY <1>1, <1>2 DEF PhpKeys

(* The entry of an element, and whether a place is cut, in words of types. *)
LEMMA OriginFacts ==
  ASSUME TypeOK
  PROVE  /\ Len(out) \in Nat /\ DOMAIN out = 1 .. Len(out) /\ DOMAIN origins = DOMAIN out
         /\ \A p \in DOMAIN out : out[p] \in BsonElements /\ out[p].in \in 0 .. p - 1
         /\ \A p \in DOMAIN out : origins[p] \in Origins
<1>1. out \in Seq(BsonElements) /\ \A p \in DOMAIN out : out[p].in < p
  BY DEF TypeOK, IsBson
<1>2. Len(out) \in Nat /\ DOMAIN out = 1 .. Len(out)
  BY <1>1, LenProperties
<1>3. \A p \in DOMAIN out : out[p] \in BsonElements
  BY <1>1, <1>2, ElementOfSeq
<1>4. \A p \in DOMAIN out : out[p].in \in Nat
  BY <1>3 DEF BsonElements
<1>5. \A p \in DOMAIN out : out[p].in \in 0 .. p - 1
  BY <1>1, <1>2, <1>4
<1>6. origins \in Seq(Origins) /\ Len(origins) = Len(out)
  BY DEF TypeOK
<1>7. DOMAIN origins = DOMAIN out
  BY <1>2, <1>6, LenProperties
<1>8. \A p \in DOMAIN out : origins[p] \in Origins
  BY <1>2, <1>6, ElementOfSeq
<1>. QED
  BY <1>2, <1>3, <1>5, <1>7, <1>8

(* The place of a frame and its node.                                      *)
LEMMA FramePlaces ==
  ASSUME TypeOK, FramesNest, NEW k \in DOMAIN frames
  PROVE  /\ frames[k].at \in 0 .. Len(out) /\ frames[k].node \in DOMAIN heap /\ frames[k].next \in Nat \ {0}
         /\ frames[k].node = NodeOf(frames[k].at) /\ ~IsCut(frames[k].at)
         /\ frames[k].at # 0 <=> k > 1
         /\ frames[k].at # 0 => frames[k].at \in DOMAIN out /\ out[frames[k].at].type \in Nested
<1>1. frames # <<>>
  BY DEF TypeOK
<1>2. frames[k] \in Frames /\ DOMAIN frames = 1 .. Len(frames) /\ Len(frames) \in Nat
  BY <1>1, FrameFacts
<1>3. frames[k].at \in 0 .. Len(out) /\ frames[k].node \in DOMAIN heap /\ frames[k].next \in Nat \ {0}
  BY <1>2 DEF Frames
<1>4. DOMAIN out = 1 .. Len(out) /\ Len(out) \in Nat
  BY OriginFacts
<1>5. CASE k = 1
  <2>1. frames[k].at = 0 /\ frames[k].node = from
    BY <1>1, <1>5 DEF FramesNest
  <2>. QED
    BY <2>1, <1>3, <1>5 DEF NodeOf, IsCut
<1>6. CASE k # 1
  <2>1. k > 1
    BY <1>2, <1>6
  <2>. QED
    BY <2>1, <1>3, <1>4 DEF FramesNest
<1>. QED
  BY <1>5, <1>6

(* Writing an element leaves those before it as they are.                  *)
LEMMA WriteKeeps ==
  ASSUME TypeOK, FramesNest, AtEntry, heap' = heap, from' = from, NEW type \in ElementTypes, Write(type),
         NEW P, P = Len(out) + 1
  PROVE  /\ Len(out') = P
         /\ DOMAIN out' = 1 .. P /\ DOMAIN origins' = 1 .. P
         /\ \A p \in DOMAIN out : out'[p] = out[p] /\ origins'[p] = origins[p]
         /\ \A p \in DOMAIN out : EntryOf(p)' = EntryOf(p)
         /\ \A p \in 0 .. Len(out) : NodeOf(p)' = NodeOf(p)
         /\ \A p \in 0 .. Len(out) : IsCut(p)' <=> IsCut(p)
         /\ out'[P] = Element(BsonName(Entry.key), type, Frame.at)
         /\ origins'[P] = [node |-> Frame.node, entry |-> Frame.next,
                                      within |-> {frames[k].at : k \in DOMAIN frames} \ {0}]
         /\ EntryOf(P)' = Entry
         /\ IsBson(out)'
         /\ origins' \in Seq(Origins)' /\ Len(origins') = Len(out')
<1>. PICK in : in = {frames[k].at : k \in DOMAIN frames} \ {0}
  OBVIOUS
<1>. PICK e : e = Element(BsonName(Entry.key), type, Frame.at)
  OBVIOUS
<1>. PICK o : o = [node |-> Frame.node, entry |-> Frame.next, within |-> in]
  OBVIOUS
<1>1. out' = Append(out, e) /\ origins' = Append(origins, o)
  BY DEF Write
<1>2. /\ frames # <<>> /\ ~overflow /\ Frame.node \in DOMAIN heap /\ Frame.next \in Nat
      /\ Frame.next # 0 /\ Frame.at \in 0 .. Len(out)
      /\ Frame.next \in DOMAIN heap[Frame.node].entries
      /\ Entry = heap[Frame.node].entries[Frame.next] /\ Entry.key \in PhpKeys
  BY EntryFacts, FrameFacts DEF Frames
<1>3. /\ out \in Seq(BsonElements) /\ Len(out) \in Nat /\ DOMAIN out = 1 .. Len(out)
      /\ origins \in Seq(Origins) /\ Len(origins) = Len(out) /\ DOMAIN origins = DOMAIN out
  BY OriginFacts DEF TypeOK, IsBson
<1>4. e \in BsonElements
  <2>1. BsonName(Entry.key) \in BsonNames /\ Frame.at \in Nat
    BY <1>2, <1>3, BsonNameFacts
  <2>2. e = [name |-> BsonName(Entry.key), type |-> type, in |-> Frame.at]
    BY DEF Element
  <2>. QED
    BY <2>1, <2>2 DEF BsonElements
<1>5. in \subseteq DOMAIN out
  <2>1. \A k \in DOMAIN frames : frames[k].at # 0 => frames[k].at \in DOMAIN out
    BY FramePlaces
  <2>. QED
    BY <2>1
<1>6. o \in Origins
  BY <1>2, <1>5 DEF Origins
<1>7. /\ out' \in Seq(BsonElements) /\ Len(out') = P /\ DOMAIN out' = 1 .. P
      /\ (\A p \in DOMAIN out : out'[p] = out[p]) /\ out'[P] = e
  BY <1>1, <1>3, <1>4, AppendFacts
<1>8. /\ origins' \in Seq(Origins) /\ Len(origins') = P /\ DOMAIN origins' = 1 .. P
      /\ (\A p \in DOMAIN out : origins'[p] = origins[p]) /\ origins'[P] = o
  BY <1>1, <1>3, <1>6, AppendFacts
<1>9. \A p \in DOMAIN out : EntryOf(p)' = EntryOf(p)
  BY <1>8 DEF EntryOf
<1>10. EntryOf(P)' = Entry
  BY <1>2, <1>8 DEF EntryOf
<1>11. \A p \in 0 .. Len(out) : NodeOf(p)' = NodeOf(p)
  <2>1. \A p \in 0 .. Len(out) : p = 0 \/ p \in DOMAIN out
    BY <1>3
  <2>. QED
    BY <1>9, <2>1 DEF NodeOf
<1>12. ASSUME NEW p \in 0 .. Len(out) PROVE IsCut(p)' <=> IsCut(p)
  <2>1. CASE p = 0
    BY <2>1 DEF IsCut
  <2>2. CASE p # 0
    <3>1. p \in DOMAIN out
      BY <1>3, <2>2
    <3>2. out'[p] = out[p] /\ origins'[p] = origins[p] /\ NodeOf(p)' = NodeOf(p)
      BY <3>1, <1>7, <1>8, <1>11
    <3>3. origins[p].within \subseteq DOMAIN out
      BY <3>1, OriginFacts DEF Origins
    <3>4. \A q \in origins[p].within : NodeOf(q)' = NodeOf(q)
      BY <3>3, <1>3, <1>11
    <3>. QED
      BY <3>2, <3>4 DEF IsCut
  <2>. QED
    BY <2>1, <2>2
<1>13. IsBson(out)'
  <2>1. ASSUME NEW p \in DOMAIN out'
        PROVE  out'[p].in < p /\ (out'[p].in # 0 => out'[out'[p].in].type \in Nested)
    <3>1. CASE p = P
      <4>1. out'[p].in = Frame.at
        BY <3>1, <1>7 DEF Element
      <4>2. Frame.at < P
        BY <1>2, <1>3
      <4>3. Frame.at # 0 => out'[Frame.at].type \in Nested
        <5>1. Frame.at # 0 => Frame.at \in DOMAIN out /\ out[Frame.at].type \in Nested
          BY <1>2, FrameFacts, FramePlaces
        <5>. QED
          BY <5>1, <1>7
      <4>. QED
        BY <4>1, <4>2, <4>3, <3>1
    <3>2. CASE p # P
      <4>1. p \in DOMAIN out
        BY <3>2, <1>3, <1>7
      <4>2. out'[p] = out[p]
        BY <4>1, <1>7
      <4>3. out[p].in < p /\ (out[p].in # 0 => out[out[p].in].type \in Nested)
        BY <4>1 DEF TypeOK, IsBson
      <4>4. out[p].in # 0 => out[p].in \in DOMAIN out
        BY <4>1, <1>3, OriginFacts
      <4>. QED
        BY <4>2, <4>3, <4>4, <1>7
    <3>. QED
      BY <3>1, <3>2
  <2>. QED
    BY <2>1, <1>7 DEF IsBson
<1>14. origins' \in Seq(Origins)'
  <2>1. Origins \subseteq Origins'
    <3>1. DOMAIN out \subseteq DOMAIN out'
      BY <1>3, <1>7
    <3>. QED
      BY <3>1 DEF Origins
  <2>2. \A i \in 1 .. Len(origins') : origins'[i] \in Origins'
    BY <2>1, <1>8, ElementOfSeq
  <2>3. origins' \in Seq(Origins')
    BY <2>1, <1>8, SeqMonotonic
  <2>. QED
    BY <2>3
<1>15. origins'[P] = [node |-> Frame.node, entry |-> Frame.next,
                      within |-> {frames[k].at : k \in DOMAIN frames} \ {0}]
  BY <1>8
<1>16. out'[P] = Element(BsonName(Entry.key), type, Frame.at)
  BY <1>7
<1>17. Len(out') = P /\ Len(origins') = Len(out') /\ DOMAIN out' = 1 .. P /\ DOMAIN origins' = 1 .. P
  BY <1>7, <1>8
<1>18. \A p \in DOMAIN out : out'[p] = out[p] /\ origins'[p] = origins[p]
  BY <1>7, <1>8
<1>. QED
  BY <1>9, <1>10, <1>11, <1>12, <1>13, <1>14, <1>15, <1>16, <1>17, <1>18

(* The stack after an entry: its last call is one further.                 *)
LEMMA AdvancedFacts ==
  ASSUME TypeOK, frames # <<>>
  PROVE  /\ Advanced \in Seq(Frames) /\ Len(Advanced) = Len(frames) /\ DOMAIN Advanced = DOMAIN frames
         /\ \A k \in DOMAIN frames :
              /\ Advanced[k].node = frames[k].node /\ Advanced[k].at = frames[k].at
              /\ Advanced[k].next = IF k = Len(frames) THEN frames[k].next + 1 ELSE frames[k].next
<1>. PICK f : f = [node |-> Frame.node, next |-> Frame.next + 1, at |-> Frame.at]
  OBVIOUS
<1>1. /\ Len(frames) \in DOMAIN frames /\ Frame \in Frames /\ Frame = frames[Len(frames)]
      /\ \A k \in DOMAIN frames : frames[k] \in Frames
  BY FrameFacts
<1>2. f \in Frames /\ [Frame EXCEPT !.next = @ + 1] = f
  BY <1>1 DEF Frames
<1>3. Advanced = [frames EXCEPT ![Len(frames)] = f]
  BY <1>1, <1>2 DEF Advanced
<1>4. frames \in Seq(Frames)
  BY DEF TypeOK
<1>5. /\ Advanced \in Seq(Frames) /\ Len(Advanced) = Len(frames) /\ DOMAIN Advanced = DOMAIN frames
      /\ \A k \in DOMAIN frames : Advanced[k] = IF k = Len(frames) THEN f ELSE frames[k]
  BY <1>1, <1>2, <1>3, <1>4, ReplaceFacts
<1>6. ASSUME NEW k \in DOMAIN frames
      PROVE  /\ Advanced[k].node = frames[k].node /\ Advanced[k].at = frames[k].at
             /\ Advanced[k].next = IF k = Len(frames) THEN frames[k].next + 1 ELSE frames[k].next
  BY <1>1, <1>5
<1>. QED
  BY <1>5, <1>6

(* What a step of the encoder that writes or does not write keeps.         *)
Keeps ==
  /\ heap' = heap /\ from' = from
  /\ \A p \in DOMAIN out : p \in DOMAIN out' /\ out'[p] = out[p] /\ origins'[p] = origins[p]
  /\ \A p \in 0 .. Len(out) : NodeOf(p)' = NodeOf(p) /\ (IsCut(p)' <=> IsCut(p))

LEMMA StepKeeps ==
  ASSUME TypeOK, FramesNest, heap' = heap, from' = from,
         \/ UNCHANGED <<out, origins>>
         \/ AtEntry /\ \E type \in ElementTypes : Write(type)
  PROVE  Keeps
<1>1. CASE UNCHANGED <<out, origins>>
  <2>1. \A p : NodeOf(p)' = NodeOf(p)
    BY <1>1 DEF NodeOf, EntryOf
  <2>2. \A p : IsCut(p)' <=> IsCut(p)
    BY <1>1, <2>1 DEF IsCut
  <2>. QED
    BY <1>1, <2>1, <2>2 DEF Keeps
<1>2. CASE AtEntry /\ \E type \in ElementTypes : Write(type)
  <2>1. PICK type \in ElementTypes : Write(type)
    BY <1>2
  <2>. PICK P : P = Len(out) + 1
    OBVIOUS
  <2>2. /\ DOMAIN out' = 1 .. P
        /\ \A p \in DOMAIN out : out'[p] = out[p] /\ origins'[p] = origins[p]
        /\ \A p \in 0 .. Len(out) : NodeOf(p)' = NodeOf(p)
        /\ \A p \in 0 .. Len(out) : IsCut(p)' <=> IsCut(p)
    BY <1>2, <2>1, WriteKeeps
  <2>3. \A p \in DOMAIN out : p \in 1 .. P
    BY OriginFacts
  <2>. QED
    BY <2>2, <2>3 DEF Keeps
<1>. QED
  BY <1>1, <1>2

(* The type an element gets.                                               *)
TypeOf(v) == IF v.kind # "node" THEN v.kind ELSE IF IsList(heap[v.node]) THEN "array" ELSE "document"

LEMMA TypeFacts ==
  ASSUME NEW v, v.kind \in Encodable \cup {"node"}
  PROVE  /\ TypeOf(v) \in ElementTypes
         /\ TypeOf(v) \in Nested <=> v.kind = "node"
         /\ TypeOf(v) = "array" <=> v.kind = "node" /\ IsList(heap[v.node])
  BY DEF TypeOf, ElementTypes, Nested, Encodable

(* What is written shows its entry.                                        *)
LEMMA WriteShows ==
  ASSUME TypeOK, FramesNest, EveryElementShows, AtEntry, heap' = heap, from' = from,
         Entry.value.kind \in Encodable \cup {"node"}, Write(TypeOf(Entry.value))
  PROVE  EveryElementShows'
<1>. PICK P : P = Len(out) + 1
  OBVIOUS
<1>. PICK type : type = TypeOf(Entry.value)
  OBVIOUS
<1>1. type \in ElementTypes /\ Write(type)
  BY TypeFacts
<1>2. /\ DOMAIN out' = 1 .. P
      /\ \A p \in DOMAIN out : out'[p] = out[p] /\ origins'[p] = origins[p]
      /\ \A p \in DOMAIN out : EntryOf(p)' = EntryOf(p)
      /\ \A p \in 0 .. Len(out) : NodeOf(p)' = NodeOf(p)
      /\ \A p \in 0 .. Len(out) : IsCut(p)' <=> IsCut(p)
      /\ out'[P] = Element(BsonName(Entry.key), type, Frame.at)
      /\ origins'[P] = [node |-> Frame.node, entry |-> Frame.next,
                        within |-> {frames[k].at : k \in DOMAIN frames} \ {0}]
      /\ EntryOf(P)' = Entry
  BY <1>1, WriteKeeps
<1>3. /\ frames # <<>> /\ Frame.node \in DOMAIN heap
      /\ Frame.next \in DOMAIN heap[Frame.node].entries
      /\ Len(frames) \in DOMAIN frames /\ Frame = frames[Len(frames)]
  BY EntryFacts, FrameFacts
<1>4. Frame.at \in 0 .. Len(out) /\ Frame.node = NodeOf(Frame.at) /\ ~IsCut(Frame.at)
  BY <1>3, FramePlaces
<1>5. Len(out) \in Nat /\ DOMAIN out = 1 .. Len(out)
  BY OriginFacts
<1>6. ASSUME NEW p \in DOMAIN out', p # P
      PROVE  /\ origins'[p].entry \in DOMAIN heap'[origins'[p].node].entries
             /\ EntryOf(p)'.value.kind \in Encodable \cup {"node"}
             /\ ShowsItsEntry(p)'
             /\ ~IsCut(out[p].in)'
             /\ \A q \in origins'[p].within : q < p /\ out'[q].type \in Nested /\ ~IsCut(q)'
  <2>1. p \in DOMAIN out
    BY <1>2, <1>5, <1>6
  <2>2. /\ origins[p].entry \in DOMAIN heap[origins[p].node].entries
        /\ EntryOf(p).value.kind \in Encodable \cup {"node"}
        /\ ShowsItsEntry(p)
        /\ ~IsCut(out[p].in)
        /\ \A q \in origins[p].within : q < p /\ out[q].type \in Nested /\ ~IsCut(q)
    BY <2>1 DEF EveryElementShows
  <2>3. out'[p] = out[p] /\ origins'[p] = origins[p] /\ EntryOf(p)' = EntryOf(p)
    BY <2>1, <1>2
  <2>4. out[p].in \in 0 .. Len(out)
    BY <2>1, <1>5, OriginFacts
  <2>. PICK in : in = out[p].in
    OBVIOUS
  <2>5. NodeOf(in)' = NodeOf(in) /\ (IsCut(in)' <=> IsCut(in)) /\ out'[p].in = in
    BY <2>3, <2>4, <1>2
  <2>6. ~IsCut(out[p].in)'
    BY <2>2, <2>5
  <2>10. NodeOf(out[p].in)' = NodeOf(in)
    BY <2>5
  <2>7. ShowsItsEntry(p)'
    BY <2>2, <2>3, <2>10 DEF ShowsItsEntry
  <2>8. origins[p].within \subseteq DOMAIN out
    BY <2>1, OriginFacts DEF Origins
  <2>9. \A q \in origins'[p].within : q < p /\ out'[q].type \in Nested /\ ~IsCut(q)'
    BY <2>2, <2>3, <2>8, <1>2, <1>5
  <2>. QED
    BY <2>2, <2>3, <2>6, <2>7, <2>9
<1>7. ASSUME NEW p \in DOMAIN out', p = P
      PROVE  /\ origins'[p].entry \in DOMAIN heap'[origins'[p].node].entries
             /\ EntryOf(p)'.value.kind \in Encodable \cup {"node"}
             /\ ShowsItsEntry(p)'
             /\ ~IsCut(out[p].in)'
             /\ \A q \in origins'[p].within : q < p /\ out'[q].type \in Nested /\ ~IsCut(q)'
  <2>1. out'[p].in = Frame.at /\ out'[p].name = BsonName(Entry.key) /\ out'[p].type = type
    BY <1>2, <1>7 DEF Element
  <2>2. origins'[p].node = Frame.node /\ origins'[p].entry = Frame.next /\ EntryOf(p)' = Entry
    BY <1>2, <1>7
  <2>. PICK in : in = Frame.at
    OBVIOUS
  <2>6. NodeOf(in)' = Frame.node /\ ~IsCut(in)' /\ out'[p].in = in
    BY <2>1, <1>2, <1>4
  <2>3. NodeOf(out[p].in)' = Frame.node /\ ~IsCut(out[p].in)'
    BY <2>6
  <2>4. ShowsItsEntry(p)'
    BY <2>1, <2>2, <2>3 DEF ShowsItsEntry, TypeOf
  <2>5. ASSUME NEW q \in origins'[p].within PROVE q < p /\ out'[q].type \in Nested /\ ~IsCut(q)'
    <3>1. PICK k \in DOMAIN frames : q = frames[k].at /\ q # 0
      BY <1>2, <1>7
    <3>2. q \in DOMAIN out /\ out[q].type \in Nested /\ ~IsCut(q) /\ q \in 0 .. Len(out)
      BY <3>1, FramePlaces
    <3>. QED
      BY <3>2, <1>2, <1>5, <1>7
  <2>. QED
    BY <2>2, <2>3, <2>4, <2>5, <1>3
<1>. QED
  BY <1>6, <1>7 DEF EveryElementShows

(* The calls stay, and the last is one entry further.                      *)
CallersMove ==
  \A k \in DOMAIN frames :
    /\ k \in DOMAIN frames'
    /\ frames'[k].node = frames[k].node /\ frames'[k].at = frames[k].at
    /\ frames'[k].next = IF k = Len(frames) THEN frames[k].next + 1 ELSE frames[k].next

LEMMA AdvanceMoves ==
  ASSUME TypeOK, frames # <<>>, frames' = Advanced
  PROVE  /\ CallersMove /\ DOMAIN frames' = DOMAIN frames /\ Len(frames') = Len(frames)
         /\ frames' \in Seq(Frames)
  BY AdvancedFacts DEF CallersMove

LEMMA PushMoves ==
  ASSUME TypeOK, frames # <<>>, NEW n \in DOMAIN heap, NEW P, P \in 0 .. Len(out'), Len(out) <= Len(out'),
         heap' = heap, Len(out') \in Nat,
         frames' = Append(Advanced, [node |-> n, next |-> 1, at |-> P])
  PROVE  /\ CallersMove /\ DOMAIN frames' = 1 .. Len(frames) + 1 /\ Len(frames') = Len(frames) + 1
         /\ frames'[Len(frames) + 1] = [node |-> n, next |-> 1, at |-> P]
         /\ frames' \in Seq(Frames')
<1>. PICK f : f = [node |-> n, next |-> 1, at |-> P]
  OBVIOUS
<1>1. /\ Advanced \in Seq(Frames) /\ Len(Advanced) = Len(frames) /\ DOMAIN Advanced = DOMAIN frames
      /\ \A k \in DOMAIN frames :
           /\ Advanced[k].node = frames[k].node /\ Advanced[k].at = frames[k].at
           /\ Advanced[k].next = IF k = Len(frames) THEN frames[k].next + 1 ELSE frames[k].next
  BY AdvancedFacts
<1>2. Len(frames) \in Nat /\ DOMAIN frames = 1 .. Len(frames) /\ Len(out) \in Nat
  BY FrameFacts, OriginFacts
<1>3. Frames \subseteq Frames'
  <2>1. 0 .. Len(out) \subseteq 0 .. Len(out')
    BY <1>2
  <2>. QED
    BY <2>1 DEF Frames
<1>4. f \in Frames'
  BY DEF Frames
<1>5. Advanced \in Seq(Frames')
  <2>1. \A k \in 1 .. Len(Advanced) : Advanced[k] \in Frames'
    BY <1>1, <1>2, <1>3, ElementOfSeq
  <2>. QED
    BY <2>1, <1>1, <1>3, SeqMonotonic
<1>6. frames' = Append(Advanced, f)
  OBVIOUS
<1>7. /\ Append(Advanced, f) \in Seq(Frames') /\ Len(Append(Advanced, f)) = Len(frames) + 1
      /\ DOMAIN Append(Advanced, f) = 1 .. Len(frames) + 1
      /\ \A k \in DOMAIN frames : Append(Advanced, f)[k] = Advanced[k]
      /\ Append(Advanced, f)[Len(frames) + 1] = f
  BY <1>1, <1>4, <1>5, AppendFacts
<1>8. \A k \in DOMAIN frames : k \in 1 .. Len(frames) + 1
  BY <1>2
<1>9. CallersMove
  BY <1>1, <1>6, <1>7, <1>8 DEF CallersMove
<1>. QED
  BY <1>6, <1>7, <1>9

LEMMA StayShows ==
  ASSUME EveryElementShows, UNCHANGED <<heap, from, out, origins>>
  PROVE  EveryElementShows'
<1>1. \A p : EntryOf(p)' = EntryOf(p)
  BY DEF EntryOf
<1>2. \A p : NodeOf(p)' = NodeOf(p)
  BY <1>1 DEF NodeOf
<1>3. \A p : IsCut(p)' <=> IsCut(p)
  BY <1>2 DEF IsCut
<1>4. ASSUME NEW p \in DOMAIN out
      PROVE  ShowsItsEntry(p)' /\ ~IsCut(out[p].in)'
  <2>. PICK in : in = out[p].in
    OBVIOUS
  <2>1. ShowsItsEntry(p) /\ ~IsCut(in)
    BY DEF EveryElementShows
  <2>2. NodeOf(out[p].in)' = NodeOf(in) /\ NodeOf(in) = NodeOf(out[p].in)
    BY <1>2
  <2>3. ~IsCut(out[p].in)'
    BY <2>1, <1>3
  <2>4. ShowsItsEntry(p)'
    BY <2>1, <2>2, <1>1 DEF ShowsItsEntry
  <2>. QED
    BY <2>3, <2>4
<1>. QED
  BY <1>1, <1>3, <1>4 DEF EveryElementShows

(* The order of the entries.                                               *)
LEMMA WriteOrders ==
  ASSUME TypeOK, FramesNest, EntriesInOrder, AtEntry, heap' = heap, from' = from,
         NEW type \in ElementTypes, Write(type), CallersMove,
         \A k \in DOMAIN frames' : k \in DOMAIN frames \/ frames'[k].at = Len(out) + 1
  PROVE  EntriesInOrder'
<1>. PICK P : P = Len(out) + 1
  OBVIOUS
<1>1. /\ DOMAIN out' = 1 .. P
      /\ \A p \in DOMAIN out : out'[p] = out[p] /\ origins'[p] = origins[p]
      /\ out'[P] = Element(BsonName(Entry.key), type, Frame.at)
      /\ origins'[P] = [node |-> Frame.node, entry |-> Frame.next,
                        within |-> {frames[k].at : k \in DOMAIN frames} \ {0}]
      /\ IsBson(out)'
  BY WriteKeeps
<1>2. out'[P].in = Frame.at /\ origins'[P].entry = Frame.next
  BY <1>1 DEF Element
<1>3. /\ Len(out) \in Nat /\ DOMAIN out = 1 .. Len(out)
      /\ \A p \in DOMAIN out : origins[p].entry \in Nat
  BY OriginFacts DEF Origins
<1>4. /\ frames # <<>> /\ Len(frames) \in DOMAIN frames /\ Frame = frames[Len(frames)]
      /\ \A k \in DOMAIN frames : frames[k].next \in Nat
      /\ \A k \in DOMAIN frames : frames[k].at \in Nat
      /\ DOMAIN frames = 1 .. Len(frames) /\ Len(frames) \in Nat
  BY EntryFacts, FrameFacts, FramePlaces
<1>5. \A p \in DOMAIN out : out[p].in = Frame.at => origins[p].entry < Frame.next
  BY <1>4 DEF EntriesInOrder
<1>6. ASSUME NEW p \in DOMAIN out', NEW q \in DOMAIN out', p < q, out'[p].in = out'[q].in
      PROVE  origins'[p].entry < origins'[q].entry
  <2>1. p \in DOMAIN out
    BY <1>1, <1>3, <1>6
  <2>2. CASE q = P
    BY <2>1, <2>2, <1>1, <1>2, <1>5, <1>6
  <2>3. CASE q # P
    <3>1. q \in DOMAIN out
      BY <2>3, <1>1, <1>3
    <3>. QED
      BY <3>1, <2>1, <1>1, <1>6 DEF EntriesInOrder
  <2>. QED
    BY <2>2, <2>3
<1>7. ASSUME NEW k \in DOMAIN frames', NEW p \in DOMAIN out', out'[p].in = frames'[k].at
      PROVE  origins'[p].entry < frames'[k].next
  <2>1. CASE frames'[k].at = P
    <3>1. out'[p].in < p
      BY <1>1 DEF IsBson
    <3>. QED
      BY <3>1, <2>1, <1>1, <1>3, <1>7
  <2>2. CASE frames'[k].at # P
    <3>1. k \in DOMAIN frames
      BY <2>2
    <3>2. /\ frames'[k].at = frames[k].at
          /\ frames'[k].next = IF k = Len(frames) THEN frames[k].next + 1 ELSE frames[k].next
      BY <3>1 DEF CallersMove
    <3>3. CASE p = P
      <4>1. frames[k].at = frames[Len(frames)].at
        BY <3>2, <3>3, <1>2, <1>4, <1>7
      <4>2. k = Len(frames)
        <5>1. CASE k < Len(frames)
          <6>1. frames[k].at < frames[Len(frames)].at
            BY <3>1, <5>1, <1>4 DEF FramesNest
          <6>. QED
            BY <6>1, <4>1, <3>1, <1>4
        <5>. QED
          BY <5>1, <3>1, <1>4
      <4>. QED
        BY <4>2, <3>2, <3>3, <1>2, <1>4
    <3>4. CASE p # P
      <4>1. p \in DOMAIN out
        BY <3>4, <1>1, <1>3
      <4>2. origins[p].entry < frames[k].next
        BY <4>1, <3>1, <3>2, <1>1, <1>7 DEF EntriesInOrder
      <4>3. origins[p].entry \in Nat /\ frames[k].next \in Nat
        BY <4>1, <3>1, <1>3, <1>4
      <4>4. origins'[p].entry = origins[p].entry
        BY <4>1, <1>1
      <4>. QED
        BY <4>2, <4>3, <4>4, <3>2
    <3>. QED
      BY <3>3, <3>4
  <2>. QED
    BY <2>1, <2>2
<1>. QED
  BY <1>6, <1>7 DEF EntriesInOrder

LEMMA StayOrders ==
  ASSUME TypeOK, FramesNest, EntriesInOrder, UNCHANGED <<out, origins>>,
         \A k \in DOMAIN frames' :
           /\ k \in DOMAIN frames /\ frames'[k].at = frames[k].at
           /\ frames'[k].next = frames[k].next \/ frames'[k].next = frames[k].next + 1
  PROVE  EntriesInOrder'
<1>1. ASSUME NEW k \in DOMAIN frames', NEW p \in DOMAIN out', out'[p].in = frames'[k].at
      PROVE  origins'[p].entry < frames'[k].next
  <2>1. p \in DOMAIN out /\ k \in DOMAIN frames /\ out[p].in = frames[k].at
    BY <1>1
  <2>2. origins[p].entry < frames[k].next
    BY <2>1 DEF EntriesInOrder
  <2>3. origins[p].entry \in Nat /\ frames[k].next \in Nat
    BY <2>1, OriginFacts, FramePlaces DEF Origins
  <2>. QED
    BY <2>2, <2>3
<1>. QED
  BY <1>1 DEF EntriesInOrder

(* Nothing is left out: the next entry is written, or cannot be.           *)
LEMMA WriteLeavesNothingOut ==
  ASSUME TypeOK, FramesNest, NothingLeftOut, from # 0, AtEntry, heap' = heap, from' = from,
         NEW type \in ElementTypes, Write(type), CallersMove, NEW P, P = Len(out) + 1,
         type \in Nested => Entry.value.kind = "node",
         type \in Nested =>
           IsCut(P)' \/ \E k \in DOMAIN frames' : frames'[k].at = P /\ frames'[k].next = 1
  PROVE  NothingLeftOut'
<1>1. /\ DOMAIN out' = 1 .. P
      /\ \A p \in DOMAIN out : out'[p] = out[p] /\ origins'[p] = origins[p]
      /\ \A p \in 0 .. Len(out) : NodeOf(p)' = NodeOf(p)
      /\ \A p \in 0 .. Len(out) : IsCut(p)' <=> IsCut(p)
      /\ out'[P] = Element(BsonName(Entry.key), type, Frame.at)
      /\ origins'[P] = [node |-> Frame.node, entry |-> Frame.next,
                        within |-> {frames[k].at : k \in DOMAIN frames} \ {0}]
      /\ EntryOf(P)' = Entry
  BY WriteKeeps
<1>2. out'[P].in = Frame.at /\ out'[P].type = type /\ origins'[P].entry = Frame.next
  BY <1>1 DEF Element
<1>3. Len(out) \in Nat /\ DOMAIN out = 1 .. Len(out)
  BY OriginFacts
<1>4. /\ frames # <<>> /\ ~overflow /\ Len(frames) \in DOMAIN frames /\ Frame = frames[Len(frames)]
      /\ \A k \in DOMAIN frames : frames[k].next \in Nat
  BY EntryFacts, FrameFacts, FramePlaces
<1>5. ASSUME NEW p \in {0} \cup {q \in DOMAIN out' : out'[q].type \in Nested},
             NEW e \in DOMAIN heap'[NodeOf(p)'].entries,
             ~IsCut(p)', heap'[NodeOf(p)'].entries[e].value.kind \in Encodable \cup {"node"},
             \A k \in DOMAIN frames' : frames'[k].at = p => e < frames'[k].next
      PROVE  \E q \in DOMAIN out' : out'[q].in = p /\ origins'[q].entry = e
  <2>1. CASE p = P
    <3>1. type \in Nested
      BY <2>1, <1>2, <1>3
    <3>2. PICK k \in DOMAIN frames' : frames'[k].at = P /\ frames'[k].next = 1
      BY <3>1, <2>1, <1>5
    <3>3. e < 1
      BY <3>2, <2>1, <1>5
    <3>4. NodeOf(P)' = Entry.value.node
      BY <1>1, <1>3 DEF NodeOf
    <3>5. Entry.value.node \in DOMAIN heap
      BY <3>1, EntryFacts, ValueFacts
    <3>6. e \in 1 .. Len(heap[Entry.value.node].entries)
      BY <3>4, <3>5, <2>1, <1>5, HeapFacts
    <3>. QED
      BY <3>3, <3>6
  <2>2. CASE p # P
    <3>1. p \in 0 .. Len(out) /\ p \in {0} \cup {q \in DOMAIN out : out[q].type \in Nested}
      BY <2>2, <1>1, <1>3
    <3>2. NodeOf(p)' = NodeOf(p) /\ ~IsCut(p)
      BY <3>1, <1>1, <1>5
    <3>3. e \in DOMAIN heap[NodeOf(p)].entries /\ heap[NodeOf(p)].entries[e].value.kind \in Encodable \cup {"node"}
      BY <3>2, <1>5
    <3>4. CASE \A k \in DOMAIN frames : frames[k].at = p => e < frames[k].next
      <4>1. PICK q \in DOMAIN out : out[q].in = p /\ origins[q].entry = e
        BY <3>1, <3>2, <3>3, <3>4, <1>4 DEF NothingLeftOut
      <4>2. q \in DOMAIN out'
        BY <4>1, <1>1, <1>3
      <4>. QED
        BY <4>1, <4>2, <1>1
    <3>5. CASE ~ \A k \in DOMAIN frames : frames[k].at = p => e < frames[k].next
      <4>1. PICK k \in DOMAIN frames : frames[k].at = p /\ ~(e < frames[k].next)
        BY <3>5
      <4>2. k \in DOMAIN frames' /\ e < frames'[k].next
            /\ frames'[k].next = IF k = Len(frames) THEN frames[k].next + 1 ELSE frames[k].next
        BY <4>1, <1>5 DEF CallersMove
      <4>3. k = Len(frames)
        BY <4>1, <4>2
      <4>4. p = Frame.at /\ e < Frame.next + 1 /\ ~(e < Frame.next) /\ Frame.next \in Nat
        BY <4>1, <4>2, <4>3, <1>4
      <4>5. NodeOf(p) = Frame.node /\ Frame.node \in DOMAIN heap
        BY <4>4, <1>4, FramePlaces
      <4>6. e \in Nat
        BY <4>5, <3>3, HeapFacts
      <4>7. e = Frame.next
        BY <4>4, <4>6
      <4>8. P \in DOMAIN out'
        BY <1>1, <1>3
      <4>. QED
        BY <4>4, <4>7, <4>8, <1>2
    <3>. QED
      BY <3>4, <3>5
  <2>. QED
    BY <2>1, <2>2
<1>. QED
  BY <1>5 DEF NothingLeftOut

LEMMA StayLeavesNothingOut ==
  ASSUME TypeOK, FramesNest, NothingLeftOut, from # 0, frames # <<>>, ~overflow,
         UNCHANGED <<heap, from, out, origins>>,
         \/ AtEntry /\ Entry.value.kind \notin Encodable \cup {"node"} /\ CallersMove
         \/ ~AtEntry /\ \A k \in DOMAIN frames : k # Len(frames) => k \in DOMAIN frames' /\ frames'[k] = frames[k]
  PROVE  NothingLeftOut'
<1>1. /\ \A p : NodeOf(p)' = NodeOf(p)
      /\ \A p : IsCut(p)' <=> IsCut(p)
  <2>1. \A p : NodeOf(p)' = NodeOf(p)
    BY DEF NodeOf, EntryOf
  <2>. QED
    BY <2>1 DEF IsCut
<1>2. /\ Len(frames) \in DOMAIN frames /\ Frame = frames[Len(frames)]
      /\ \A k \in DOMAIN frames : frames[k].next \in Nat
  BY FrameFacts, FramePlaces
<1>3. ASSUME NEW p \in {0} \cup {q \in DOMAIN out : out[q].type \in Nested},
             NEW e \in DOMAIN heap[NodeOf(p)].entries,
             ~IsCut(p), heap[NodeOf(p)].entries[e].value.kind \in Encodable \cup {"node"},
             \A k \in DOMAIN frames' : frames'[k].at = p => e < frames'[k].next
      PROVE  \E q \in DOMAIN out : out[q].in = p /\ origins[q].entry = e
  <2>1. ASSUME NEW k \in DOMAIN frames, frames[k].at = p PROVE e < frames[k].next
    <3>1. CASE k # Len(frames)
      <4>1. k \in DOMAIN frames' /\ frames'[k].at = p /\ frames'[k].next = frames[k].next
        BY <3>1, <2>1 DEF CallersMove
      <4>. QED
        BY <4>1, <1>3
    <3>2. CASE k = Len(frames)
      <4>1. NodeOf(p) = Frame.node /\ Frame.node \in DOMAIN heap /\ Frame.next \in Nat
        BY <3>2, <2>1, <1>2, FramePlaces
      <4>2. e \in 1 .. Len(heap[Frame.node].entries) /\ Len(heap[Frame.node].entries) \in Nat
        BY <4>1, <1>3, HeapFacts
      <4>3. CASE AtEntry
        <5>1. Entry = heap[Frame.node].entries[Frame.next]
          BY DEF Entry
        <5>2. e # Frame.next
          BY <5>1, <4>1, <4>3, <1>3
        <5>3. k \in DOMAIN frames' /\ frames'[k].at = p /\ frames'[k].next = Frame.next + 1
          BY <4>3, <3>2, <2>1, <1>2 DEF CallersMove
        <5>4. e < Frame.next + 1
          BY <5>3, <1>3
        <5>. QED
          BY <5>2, <5>4, <4>1, <4>2, <3>2, <1>2
      <4>4. CASE ~AtEntry
        <5>1. ~(Frame.next <= Len(heap[Frame.node].entries))
          BY <4>4 DEF AtEntry, Encoding
        <5>. QED
          BY <5>1, <4>1, <4>2, <3>2, <1>2
      <4>. QED
        BY <4>3, <4>4
    <3>. QED
      BY <3>1, <3>2
  <2>. QED
    BY <2>1, <1>3 DEF NothingLeftOut
<1>. QED
  BY <1>1, <1>3 DEF NothingLeftOut

(* The frames go on nesting: the callers stay, and a new call writes the   *)
(* document of the element its caller has just written.                    *)
LEMMA StepNests ==
  ASSUME TypeOK, FramesNest, Keeps, frames # <<>>, NEW P, P = Len(out) + 1,
         Len(frames') \in Nat, DOMAIN frames' = 1 .. Len(frames'), Len(frames') <= StackSize,
         overflow' => Len(frames') = StackSize,
         \A k \in DOMAIN frames' :
           \/ /\ k \in DOMAIN frames
              /\ frames'[k].node = frames[k].node /\ frames'[k].at = frames[k].at
              /\ frames'[k].next <= Len(heap[frames[k].node].entries) + 1
           \/ /\ k = Len(frames) + 1 /\ P \in DOMAIN out'
              /\ frames'[k].at = P /\ frames'[k].next = 1 /\ frames'[k].node = NodeOf(P)'
              /\ frames'[k].node \in DOMAIN heap
              /\ out'[P].in = Frame.at /\ out'[P].type \in Nested /\ ~IsCut(P)'
  PROVE  FramesNest'
<1>1. /\ Len(frames) \in Nat \ {0} /\ DOMAIN frames = 1 .. Len(frames)
      /\ Len(out) \in Nat /\ DOMAIN out = 1 .. Len(out) /\ Frame = frames[Len(frames)]
  BY FrameFacts, OriginFacts
<1>2. heap' = heap /\ from' = from /\ StackSize' = StackSize
  BY DEF Keeps, StackSize
<1>3. \A k \in DOMAIN frames' : k = Len(frames) + 1 \/ k \in DOMAIN frames
  OBVIOUS
<1>4. \A k \in DOMAIN frames' : k \in DOMAIN frames =>
        /\ frames'[k].node = frames[k].node /\ frames'[k].at = frames[k].at
        /\ frames'[k].next <= Len(heap[frames[k].node].entries) + 1
  BY <1>1
<1>5. \A k \in DOMAIN frames' : k \notin DOMAIN frames =>
        /\ k = Len(frames) + 1 /\ P \in DOMAIN out'
        /\ frames'[k].at = P /\ frames'[k].next = 1 /\ frames'[k].node = NodeOf(P)'
        /\ frames'[k].node \in DOMAIN heap
        /\ out'[P].in = Frame.at /\ out'[P].type \in Nested /\ ~IsCut(P)'
  BY <1>1
<1>6. \A k \in DOMAIN frames : frames[k].at \in 0 .. Len(out)
  BY FramePlaces
<1>7. frames' # <<>> => frames'[1].node = from' /\ frames'[1].at = 0
  <2>1. 1 \in DOMAIN frames /\ frames[1].node = from /\ frames[1].at = 0
    BY <1>1 DEF FramesNest
  <2>2. frames' # <<>> => 1 \in DOMAIN frames'
    BY DEF Keeps
  <2>. QED
    BY <2>1, <2>2, <1>2, <1>4
<1>8. ASSUME NEW k \in DOMAIN frames'
      PROVE  /\ frames'[k].next <= Len(heap'[frames'[k].node].entries) + 1
             /\ k > 1 => /\ frames'[k].at # 0
                         /\ out'[frames'[k].at].in = frames'[k - 1].at
                         /\ out'[frames'[k].at].type \in Nested
                         /\ frames'[k].node = NodeOf(frames[k].at)'
                         /\ ~IsCut(frames[k].at)'
  <2>1. CASE k \in DOMAIN frames
    <3>. PICK p : p = frames[k].at
      OBVIOUS
    <3>1. /\ frames'[k].node = frames[k].node /\ frames'[k].at = p
          /\ frames'[k].next <= Len(heap[frames[k].node].entries) + 1
      BY <2>1, <1>4
    <3>2. ASSUME k > 1
          PROVE  /\ frames'[k].at # 0
                 /\ out'[frames'[k].at].in = frames'[k - 1].at
                 /\ out'[frames'[k].at].type \in Nested
                 /\ frames'[k].node = NodeOf(frames[k].at)'
                 /\ ~IsCut(frames[k].at)'
      <4>1. /\ p # 0 /\ out[p].in = frames[k - 1].at /\ out[p].type \in Nested
            /\ frames[k].node = NodeOf(p) /\ ~IsCut(p)
        BY <2>1, <3>2 DEF FramesNest
      <4>2. p \in DOMAIN out /\ p \in 0 .. Len(out)
        BY <2>1, <4>1, FramePlaces
      <4>3. out'[p] = out[p] /\ NodeOf(p)' = NodeOf(p) /\ (IsCut(p)' <=> IsCut(p))
        BY <4>2 DEF Keeps
      <4>4. k - 1 \in DOMAIN frames' /\ k - 1 \in DOMAIN frames
        BY <2>1, <3>2, <1>1
      <4>5. frames'[k - 1].at = frames[k - 1].at
        BY <4>4, <1>4
      <4>6. frames'[k].node = NodeOf(frames[k].at)' /\ ~IsCut(frames[k].at)'
        BY <3>1, <4>1, <4>3
      <4>. QED
        BY <3>1, <4>1, <4>3, <4>5, <4>6
    <3>. QED
      BY <3>1, <3>2, <1>2
  <2>2. CASE k \notin DOMAIN frames
    <3>1. /\ k = Len(frames) + 1 /\ P \in DOMAIN out'
          /\ frames'[k].at = P /\ frames'[k].next = 1 /\ frames'[k].node = NodeOf(P)'
          /\ frames'[k].node \in DOMAIN heap
          /\ out'[P].in = Frame.at /\ out'[P].type \in Nested /\ ~IsCut(P)'
      BY <2>2, <1>5
    <3>2. k - 1 = Len(frames) /\ k - 1 \in DOMAIN frames' /\ k - 1 \in DOMAIN frames
      BY <3>1, <1>1
    <3>3. frames'[k - 1].at = Frame.at
      BY <3>2, <1>1, <1>4
    <3>4. frames'[k].node = NodeOf(frames[k].at)' /\ ~IsCut(frames[k].at)'
      BY <3>1
    <3>5. Len(heap[frames'[k].node].entries) \in Nat
      BY <3>1, HeapFacts
    <3>6. P # 0
      BY <1>1
    <3>. QED
      BY <3>1, <3>3, <3>4, <3>5, <3>6, <1>2
  <2>. QED
    BY <2>1, <2>2
<1>9. ASSUME NEW j \in DOMAIN frames', NEW k \in DOMAIN frames', j < k
      PROVE  frames'[j].at < frames'[k].at
  <2>1. j \in DOMAIN frames
    BY <1>1, <1>3, <1>9
  <2>2. frames'[j].at = frames[j].at /\ frames[j].at \in 0 .. Len(out)
    BY <2>1, <1>4, <1>6
  <2>3. CASE k \in DOMAIN frames
    BY <2>1, <2>2, <2>3, <1>4, <1>9 DEF FramesNest
  <2>4. CASE k \notin DOMAIN frames
    BY <2>2, <2>4, <1>1, <1>5
  <2>. QED
    BY <2>3, <2>4
<1>. QED
  BY <1>2, <1>7, <1>8, <1>9 DEF FramesNest

(* A list that is entered is applied once, one that is left is not.        *)
LEMMA PushApplies ==
  ASSUME TypeOK, FramesNest, AppliedMeansOpen, frames # <<>>, ~overflow, heap' = heap, NEW n \in DOMAIN heap,
         applied' = (IF IsList(heap[n]) THEN [applied EXCEPT ![n] = 1] ELSE applied),
         applied[n] = 0, DOMAIN applied = DOMAIN heap,
         \A k \in DOMAIN frames : k \in DOMAIN frames' /\ frames'[k].node = frames[k].node,
         \/ overflow' /\ DOMAIN frames' = DOMAIN frames
         \/ DOMAIN frames' = 1 .. Len(frames) + 1 /\ frames'[Len(frames) + 1].node = n
  PROVE  AppliedMeansOpen'
<1>1. Len(frames) \in Nat \ {0} /\ DOMAIN frames = 1 .. Len(frames)
  BY FrameFacts
<1>2. \A k \in DOMAIN frames : k > 1 /\ IsList(heap[frames[k].node]) => frames[k].node # n
  BY DEF AppliedMeansOpen
<1>3. \A m \in DOMAIN heap : m # n => applied'[m] = applied[m]
  OBVIOUS
<1>4. \A k \in DOMAIN frames : frames[k].node \in DOMAIN heap
  BY FramePlaces
<1>5. \A k \in DOMAIN frames' : k \in DOMAIN frames \/ (k = Len(frames) + 1 /\ frames'[k].node = n)
  BY <1>1
<1>6. ASSUME NEW k \in DOMAIN frames', k > 1, IsList(heap[frames'[k].node])
      PROVE  applied'[frames'[k].node] = 1
  <2>1. CASE k \in DOMAIN frames
    <3>1. applied[frames[k].node] = 1 /\ frames[k].node # n
      BY <2>1, <1>2, <1>6 DEF AppliedMeansOpen
    <3>. QED
      BY <3>1, <2>1, <1>3, <1>4
  <2>2. CASE k \notin DOMAIN frames
    BY <2>2, <1>5, <1>6
  <2>. QED
    BY <2>1, <2>2
<1>7. ASSUME NEW j \in DOMAIN frames', NEW k \in DOMAIN frames', 1 < j, j < k, IsList(heap[frames'[k].node])
      PROVE  frames'[j].node # frames'[k].node
  <2>1. j \in DOMAIN frames
    BY <1>1, <1>5, <1>7
  <2>2. CASE k \in DOMAIN frames
    BY <2>1, <2>2, <1>7 DEF AppliedMeansOpen
  <2>3. CASE k \notin DOMAIN frames
    BY <2>1, <2>3, <1>2, <1>5, <1>7
  <2>. QED
    BY <2>2, <2>3
<1>8. ASSUME ~overflow', NEW m \in DOMAIN heap, applied'[m] # 0
      PROVE  \E k \in DOMAIN frames' : k > 1 /\ frames'[k].node = m /\ IsList(heap[m])
  <2>1. CASE m = n
    <3>1. IsList(heap[n])
      BY <2>1, <1>8
    <3>2. Len(frames) + 1 \in DOMAIN frames' /\ Len(frames) + 1 > 1 /\ frames'[Len(frames) + 1].node = n
      BY <1>1, <1>8
    <3>. QED
      BY <2>1, <3>1, <3>2
  <2>2. CASE m # n
    <3>1. PICK k \in DOMAIN frames : k > 1 /\ frames[k].node = m /\ IsList(heap[m])
      BY <2>2, <1>3, <1>8 DEF AppliedMeansOpen
    <3>. QED
      BY <3>1
  <2>. QED
    BY <2>1, <2>2
<1>. QED
  BY <1>6, <1>7, <1>8 DEF AppliedMeansOpen

LEMMA ReturnApplies ==
  ASSUME TypeOK, FramesNest, AppliedMeansOpen, EveryElementShows, Return, heap' = heap
  PROVE  AppliedMeansOpen'
<1>1. frames # <<>> /\ ~overflow /\ ~overflow'
  BY DEF Return, Encoding
<1>2. /\ Len(frames) \in Nat \ {0} /\ DOMAIN frames = 1 .. Len(frames) /\ Len(frames) \in DOMAIN frames
      /\ Frame = frames[Len(frames)]
  BY <1>1, FrameFacts
<1>3. /\ DOMAIN frames' = 1 .. Len(frames) - 1
      /\ \A k \in 1 .. Len(frames) - 1 : frames'[k] = frames[k]
  <2>1. frames \in Seq(Frames) /\ frames' = Pop(frames)
    BY DEF Return, TypeOK
  <2>. QED
    BY <2>1, <1>1, PopFacts
<1>4. \A k \in DOMAIN frames' : k \in DOMAIN frames /\ k < Len(frames) /\ frames'[k] = frames[k]
  BY <1>2, <1>3
<1>5. \A k \in DOMAIN frames : k # Len(frames) => k \in DOMAIN frames' /\ frames'[k] = frames[k]
  BY <1>2, <1>3
<1>6. DOMAIN applied = DOMAIN heap
  BY LenProperties DEF TypeOK
<1>7. \A k \in DOMAIN frames : frames[k].node \in DOMAIN heap
  BY FramePlaces
<1>8. Frame.at # 0 /\ out[Frame.at].type = "array" <=> Len(frames) > 1 /\ IsList(heap[Frame.node])
  <2>1. Frame.at # 0 <=> Len(frames) > 1
    BY <1>2, FramePlaces
  <2>2. ASSUME Frame.at # 0 PROVE out[Frame.at].type = "array" <=> IsList(heap[Frame.node])
    <3>1. Frame.at \in DOMAIN out /\ out[Frame.at].type \in Nested /\ Frame.node = NodeOf(Frame.at)
      BY <1>2, <2>2, FramePlaces
    <3>2. /\ EntryOf(Frame.at).value.kind \in Encodable \cup {"node"}
          /\ out[Frame.at].type = TypeOf(EntryOf(Frame.at).value)
      BY <3>1 DEF EveryElementShows, ShowsItsEntry, TypeOf
    <3>3. NodeOf(Frame.at) = EntryOf(Frame.at).value.node
      BY <2>2 DEF NodeOf
    <3>. QED
      BY <3>1, <3>2, <3>3, TypeFacts
  <2>. QED
    BY <2>1, <2>2
<1>9. CASE Frame.at # 0 /\ out[Frame.at].type = "array"
  <2>1. Len(frames) > 1 /\ IsList(heap[Frame.node]) /\ applied' = [applied EXCEPT ![Frame.node] = @ - 1]
    BY <1>8, <1>9 DEF Return
  <2>2. applied[Frame.node] = 1 /\ Frame.node \in DOMAIN heap
    BY <2>1, <1>2, <1>7 DEF AppliedMeansOpen
  <2>3. applied'[Frame.node] = 0 /\ \A m \in DOMAIN heap : m # Frame.node => applied'[m] = applied[m]
    BY <2>1, <2>2, <1>6
  <2>4. \A k \in DOMAIN frames' : k > 1 => frames[k].node # Frame.node
    BY <2>1, <1>2, <1>4 DEF AppliedMeansOpen
  <2>5. \A k \in DOMAIN frames' : k > 1 /\ IsList(heap'[frames'[k].node]) => applied'[frames'[k].node] = 1
    BY <2>3, <2>4, <1>4, <1>7 DEF AppliedMeansOpen
  <2>6. \A j, k \in DOMAIN frames' :
          1 < j /\ j < k /\ IsList(heap'[frames'[k].node]) => frames'[j].node # frames'[k].node
    BY <1>4 DEF AppliedMeansOpen
  <2>7. ASSUME NEW m \in DOMAIN heap', applied'[m] # 0
        PROVE  \E k \in DOMAIN frames' : k > 1 /\ frames'[k].node = m /\ IsList(heap'[m])
    <3>1. m # Frame.node /\ applied[m] # 0
      BY <2>3, <2>7
    <3>2. PICK k \in DOMAIN frames : k > 1 /\ frames[k].node = m /\ IsList(heap[m])
      BY <3>1, <2>7, <1>1 DEF AppliedMeansOpen
    <3>. QED
      BY <3>1, <3>2, <1>2, <1>5
  <2>. QED
    BY <2>5, <2>6, <2>7 DEF AppliedMeansOpen
<1>10. CASE ~(Frame.at # 0 /\ out[Frame.at].type = "array")
  <2>1. applied' = applied /\ ~(Len(frames) > 1 /\ IsList(heap[Frame.node]))
    BY <1>8, <1>10 DEF Return
  <2>2. \A k \in DOMAIN frames' : k > 1 /\ IsList(heap'[frames'[k].node]) => applied'[frames'[k].node] = 1
    BY <2>1, <1>4 DEF AppliedMeansOpen
  <2>3. \A j, k \in DOMAIN frames' :
          1 < j /\ j < k /\ IsList(heap'[frames'[k].node]) => frames'[j].node # frames'[k].node
    BY <1>4 DEF AppliedMeansOpen
  <2>4. ASSUME NEW m \in DOMAIN heap', applied'[m] # 0
        PROVE  \E k \in DOMAIN frames' : k > 1 /\ frames'[k].node = m /\ IsList(heap'[m])
    <3>1. PICK k \in DOMAIN frames : k > 1 /\ frames[k].node = m /\ IsList(heap[m])
      BY <2>1, <2>4, <1>1 DEF AppliedMeansOpen
    <3>2. k # Len(frames)
      BY <3>1, <2>1, <1>2
    <3>. QED
      BY <3>1, <3>2, <1>5
  <2>. QED
    BY <2>2, <2>3, <2>4 DEF AppliedMeansOpen
<1>. QED
  BY <1>9, <1>10

(* The steps of the encoder.                                               *)

EncoderTyped ==
  /\ applied \in Seq(Nat) /\ Len(applied) = Len(heap)
  /\ from \in 0 .. Len(heap)
  /\ frames \in Seq(Frames)
  /\ IsBson(out)
  /\ origins \in Seq(Origins) /\ Len(origins) = Len(out)
  /\ overflow \in BOOLEAN

EncodingGoesOn ==
  /\ EncoderOK' /\ EncoderTyped'
  /\ from # 0 /\ from' = from
  /\ overflow' => frames' # <<>>

LEMMA StackFacts ==
  ASSUME TypeOK
  PROVE  StackSize \in Nat \ {0} /\ Len(heap) \in Nat /\ DOMAIN heap = 1 .. Len(heap)
<1>1. Len(heap) \in Nat /\ DOMAIN heap = 1 .. Len(heap)
  BY LenProperties DEF TypeOK
<1>. PICK m : m = Len(heap) + 1
  OBVIOUS
<1>2. m \in Nat /\ m >= 1
  BY <1>1
<1>3. m * m \in Nat /\ m * m >= 1
  BY <1>2
<1>. QED
  BY <1>1, <1>3 DEF StackSize

LEMMA FramesStayTyped ==
  ASSUME TypeOK, heap' = heap, Len(out') \in Nat, Len(out') >= Len(out), frames' \in Seq(Frames)
  PROVE  frames' \in Seq(Frames')
<1>1. Frames \subseteq Frames'
  <2>1. 0 .. Len(out) \subseteq 0 .. Len(out')
    BY OriginFacts
  <2>. QED
    BY <2>1 DEF Frames
<1>2. \A k \in 1 .. Len(frames') : frames'[k] \in Frames'
  BY <1>1, ElementOfSeq
<1>. QED
  BY <1>1, <1>2, SeqMonotonic

LEMMA AdvanceNests ==
  ASSUME TypeOK, FramesNest, Keeps, AtEntry, frames' = Advanced,
         overflow' => Len(frames) = StackSize
  PROVE  FramesNest'
<1>. PICK P : P = Len(out) + 1
  OBVIOUS
<1>1. frames # <<>> /\ Frame.next \in DOMAIN heap[Frame.node].entries /\ Frame.node \in DOMAIN heap
  BY EntryFacts
<1>2. /\ CallersMove /\ DOMAIN frames' = DOMAIN frames /\ Len(frames') = Len(frames)
      /\ Len(frames) \in Nat /\ DOMAIN frames = 1 .. Len(frames) /\ Frame = frames[Len(frames)]
  BY <1>1, AdvanceMoves, FrameFacts
<1>3. ASSUME NEW k \in DOMAIN frames'
      PROVE  /\ k \in DOMAIN frames
             /\ frames'[k].node = frames[k].node /\ frames'[k].at = frames[k].at
             /\ frames'[k].next <= Len(heap[frames[k].node].entries) + 1
  <2>1. /\ k \in DOMAIN frames /\ frames'[k].node = frames[k].node /\ frames'[k].at = frames[k].at
        /\ frames'[k].next = IF k = Len(frames) THEN frames[k].next + 1 ELSE frames[k].next
    BY <1>2 DEF CallersMove
  <2>2. frames[k].next <= Len(heap[frames[k].node].entries) + 1
    BY <2>1 DEF FramesNest
  <2>3. Frame.next <= Len(heap[Frame.node].entries) /\ Len(heap[Frame.node].entries) \in Nat /\ Frame.next \in Nat
    BY <1>1, HeapFacts
  <2>4. k = Len(frames) => frames'[k].next <= Len(heap[frames[k].node].entries) + 1
    BY <2>1, <2>3, <1>2
  <2>. QED
    BY <2>1, <2>2, <2>4
<1>4. Len(frames') <= StackSize /\ (overflow' => Len(frames') = StackSize)
  BY <1>2 DEF FramesNest
<1>5. Len(frames') \in Nat /\ DOMAIN frames' = 1 .. Len(frames')
  BY <1>2
<1>. HIDE DEF Keeps
<1>. QED
  BY <1>1, <1>3, <1>4, <1>5, StepNests

(* Applied as before, for the same calls.                                  *)
LEMMA AdvanceApplies ==
  ASSUME TypeOK, AppliedMeansOpen, heap' = heap, applied' = applied, ~overflow,
         DOMAIN frames' = DOMAIN frames, \A k \in DOMAIN frames : frames'[k].node = frames[k].node
  PROVE  AppliedMeansOpen'
  BY DEF AppliedMeansOpen

LEMMA AppendLeafStep ==
  ASSUME TypeOK, OneCall, EncoderOK, AppendLeaf, heap' = heap
  PROVE  EncodingGoesOn
<1>. PICK P : P = Len(out) + 1
  OBVIOUS
<1>. PICK type : type = Entry.value.kind
  OBVIOUS
<1>1. /\ AtEntry /\ type \in Encodable /\ type = TypeOf(Entry.value) /\ Write(type) /\ frames' = Advanced
      /\ applied' = applied /\ from' = from /\ overflow' = overflow /\ type \in ElementTypes /\ type \notin Nested
  BY DEF AppendLeaf, TypeOf, Encodable, ElementTypes, Nested
<1>2. frames # <<>> /\ ~overflow /\ from # 0 /\ FramesNest
  BY <1>1 DEF AtEntry, Encoding, OneCall, EncoderOK
<1>3. CallersMove /\ DOMAIN frames' = DOMAIN frames /\ Len(frames') = Len(frames) /\ frames' \in Seq(Frames)
  BY <1>1, <1>2, AdvanceMoves
<1>4. Keeps
  BY <1>1, <1>2, StepKeeps
<1>5. FramesNest'
  BY <1>1, <1>2, <1>4, AdvanceNests
<1>6. AppliedMeansOpen'
  BY <1>1, <1>2, <1>3, AdvanceApplies DEF EncoderOK, CallersMove
<1>7. EveryElementShows'
  BY <1>1, <1>2, WriteShows DEF EncoderOK
<1>8. EntriesInOrder'
  BY <1>1, <1>2, <1>3, WriteOrders DEF EncoderOK
<1>9. NothingLeftOut'
  BY <1>1, <1>2, <1>3, WriteLeavesNothingOut DEF EncoderOK
<1>10. /\ Len(out') = P /\ IsBson(out)' /\ origins' \in Seq(Origins)' /\ Len(origins') = Len(out')
  BY <1>1, <1>2, WriteKeeps, ZenonT(40)
<1>11. frames' \in Seq(Frames')
  BY <1>3, <1>10, OriginFacts, FramesStayTyped
<1>12. EncoderTyped'
  BY <1>1, <1>10, <1>11 DEF EncoderTyped, TypeOK
<1>. QED
  BY <1>1, <1>2, <1>5, <1>6, <1>7, <1>8, <1>9, <1>12 DEF EncoderOK, EncodingGoesOn

LEMMA SkipLeafStep ==
  ASSUME TypeOK, OneCall, EncoderOK, SkipLeaf, heap' = heap
  PROVE  EncodingGoesOn
<1>1. /\ AtEntry /\ Entry.value.kind \notin Encodable \cup {"node"} /\ frames' = Advanced
      /\ UNCHANGED <<applied, from, out, origins, overflow>>
  BY DEF SkipLeaf, LeafKinds, Encodable
<1>2. frames # <<>> /\ ~overflow /\ from # 0 /\ FramesNest
  BY <1>1 DEF AtEntry, Encoding, OneCall, EncoderOK
<1>3. CallersMove /\ DOMAIN frames' = DOMAIN frames /\ Len(frames') = Len(frames) /\ frames' \in Seq(Frames)
  BY <1>1, <1>2, AdvanceMoves
<1>4. Keeps
  BY <1>1, <1>2, StepKeeps
<1>5. FramesNest'
  BY <1>1, <1>2, <1>4, AdvanceNests
<1>6. AppliedMeansOpen'
  BY <1>1, <1>2, <1>3, AdvanceApplies DEF EncoderOK, CallersMove
<1>7. EveryElementShows'
  BY <1>1, StayShows DEF EncoderOK
<1>8. EntriesInOrder'
  <2>1. \A k \in DOMAIN frames' :
          /\ k \in DOMAIN frames /\ frames'[k].at = frames[k].at
          /\ frames'[k].next = frames[k].next \/ frames'[k].next = frames[k].next + 1
    BY <1>3 DEF CallersMove
  <2>. QED
    BY <2>1, <1>1, <1>2, StayOrders DEF EncoderOK
<1>9. NothingLeftOut'
  BY <1>1, <1>2, <1>3, StayLeavesNothingOut DEF EncoderOK
<1>11. frames' \in Seq(Frames')
  BY <1>1, <1>3, OriginFacts, FramesStayTyped
<1>12. EncoderTyped'
  BY <1>1, <1>11 DEF EncoderTyped, TypeOK, IsBson, Origins
<1>. QED
  BY <1>1, <1>2, <1>5, <1>6, <1>7, <1>8, <1>9, <1>12 DEF EncoderOK, EncodingGoesOn

LEMMA ReturnStep ==
  ASSUME TypeOK, OneCall, EncoderOK, Return, heap' = heap
  PROVE  EncodingGoesOn
<1>1. /\ frames # <<>> /\ ~overflow /\ ~AtEntry /\ from # 0 /\ FramesNest
      /\ frames' = Pop(frames) /\ UNCHANGED <<from, out, origins, overflow>>
  BY DEF Return, Encoding, OneCall, EncoderOK
<1>2. /\ Len(frames) \in Nat \ {0} /\ DOMAIN frames = 1 .. Len(frames)
      /\ frames' \in Seq(Frames) /\ Len(frames') = Len(frames) - 1
      /\ DOMAIN frames' = 1 .. Len(frames) - 1
      /\ \A k \in 1 .. Len(frames) - 1 : frames'[k] = frames[k]
  <2>1. frames \in Seq(Frames)
    BY DEF TypeOK
  <2>. QED
    BY <2>1, <1>1, PopFacts
<1>3. /\ \A k \in DOMAIN frames' : k \in DOMAIN frames /\ frames'[k] = frames[k]
      /\ \A k \in DOMAIN frames : k # Len(frames) => k \in DOMAIN frames' /\ frames'[k] = frames[k]
  BY <1>2
<1>4. Keeps
  BY <1>1, StepKeeps
<1>5. FramesNest'
  <2>1. Len(frames') \in Nat /\ DOMAIN frames' = 1 .. Len(frames')
    BY <1>2
  <2>2. Len(frames') <= StackSize /\ (overflow' => Len(frames') = StackSize)
    BY <1>1, <1>2, StackFacts DEF FramesNest
  <2>3. \A k \in DOMAIN frames' :
          /\ k \in DOMAIN frames
          /\ frames'[k].node = frames[k].node /\ frames'[k].at = frames[k].at
          /\ frames'[k].next <= Len(heap[frames[k].node].entries) + 1
    BY <1>1, <1>3 DEF FramesNest
  <2>. HIDE DEF Keeps
  <2>. QED
    BY <2>1, <2>2, <2>3, <1>1, <1>4, StepNests
<1>6. AppliedMeansOpen'
  BY <1>1, ReturnApplies DEF EncoderOK
<1>7. EveryElementShows'
  BY <1>1, StayShows DEF EncoderOK
<1>8. EntriesInOrder'
  BY <1>1, <1>3, StayOrders DEF EncoderOK
<1>9. NothingLeftOut'
  BY <1>1, <1>3, StayLeavesNothingOut DEF EncoderOK
<1>11. frames' \in Seq(Frames')
  BY <1>1, <1>2, OriginFacts, FramesStayTyped
<1>12. applied' \in Seq(Nat) /\ Len(applied') = Len(heap)
  <2>1. CASE Frame.at # 0 /\ out[Frame.at].type = "array"
    <3>1. applied' = [applied EXCEPT ![Frame.node] = @ - 1]
      BY <2>1 DEF Return
    <3>2. Frame.node \in DOMAIN heap /\ Len(frames) \in DOMAIN frames /\ Frame = frames[Len(frames)]
      BY <1>1, FrameFacts DEF Frames
    <3>3. applied \in Seq(Nat) /\ DOMAIN applied = DOMAIN heap /\ Len(applied) = Len(heap)
      BY LenProperties DEF TypeOK
    <3>4. Frame.at \in DOMAIN out /\ Frame.node = NodeOf(Frame.at) /\ Len(frames) > 1
      BY <2>1, <3>2, <1>1, FramePlaces
    <3>5. IsList(heap[Frame.node])
      <4>1. /\ EntryOf(Frame.at).value.kind \in Encodable \cup {"node"}
            /\ out[Frame.at].type = TypeOf(EntryOf(Frame.at).value)
        BY <3>4 DEF EncoderOK, EveryElementShows, ShowsItsEntry, TypeOf
      <4>. QED
        BY <4>1, <3>4, <2>1, TypeFacts DEF NodeOf
    <3>6. applied[Frame.node] = 1
      BY <3>2, <3>4, <3>5 DEF EncoderOK, AppliedMeansOpen
    <3>7. applied' = [applied EXCEPT ![Frame.node] = 0]
      BY <3>1, <3>6
    <3>. QED
      BY <3>2, <3>3, <3>7, ReplaceFacts
  <2>2. CASE ~(Frame.at # 0 /\ out[Frame.at].type = "array")
    BY <2>2 DEF Return, TypeOK
  <2>. QED
    BY <2>1, <2>2
<1>13. EncoderTyped'
  BY <1>1, <1>11, <1>12 DEF EncoderTyped, TypeOK, IsBson, Origins
<1>. QED
  BY <1>1, <1>5, <1>6, <1>7, <1>8, <1>9, <1>13 DEF EncoderOK, EncodingGoesOn

(* What writing an array or a document comes to: a list in itself is cut,  *)
(* other nodes are entered, if the stack holds another call.               *)
LEMMA NestedFacts ==
  ASSUME TypeOK, OneCall, EncoderOK, ListToBson \/ ObjectToBson, heap' = heap, NEW n, n = Entry.value.node
  PROVE  /\ AtEntry /\ Entry.value.kind = "node" /\ n \in DOMAIN heap
         /\ Write(TypeOf(Entry.value)) /\ from' = from
         /\ \/ /\ applied[n] # 0 /\ IsList(heap[n])
               /\ frames' = Advanced /\ applied' = applied /\ overflow' = overflow
            \/ /\ applied[n] = 0
               /\ applied' = (IF IsList(heap[n]) THEN [applied EXCEPT ![n] = 1] ELSE applied)
               /\ \/ Len(frames) = StackSize /\ frames' = Advanced /\ overflow' = TRUE
                  \/ /\ Len(frames) < StackSize /\ overflow' = FALSE
                     /\ frames' = Append(Advanced, [node |-> n, next |-> 1, at |-> Len(out) + 1])
<1>. PICK counts : counts = IF IsList(heap[n]) THEN [applied EXCEPT ![n] = @ + 1] ELSE applied
  OBVIOUS
<1>1. /\ AtEntry /\ Entry.value.kind = "node" /\ Write(TypeOf(Entry.value)) /\ from' = from
      /\ ZvalToBson(Advanced, n, Len(out) + 1, counts)
  BY DEF ListToBson, ObjectToBson, TypeOf
<1>2. n \in DOMAIN heap
  BY <1>1, EntryFacts, ValueFacts
<1>3. frames # <<>> /\ ~overflow
  BY <1>1 DEF AtEntry, Encoding
<1>4. Len(Advanced) = Len(frames) /\ Len(frames) \in Nat /\ StackSize \in Nat /\ Len(frames) <= StackSize
  BY <1>3, AdvancedFacts, FrameFacts, StackFacts DEF EncoderOK, FramesNest
<1>5. DOMAIN applied = DOMAIN heap /\ applied[n] \in Nat
  <2>1. applied \in Seq(Nat) /\ Len(applied) = Len(heap) /\ DOMAIN heap = 1 .. Len(heap)
    BY StackFacts DEF TypeOK
  <2>. QED
    BY <2>1, <1>2, LenProperties, ElementOfSeq
<1>6. applied[n] # 0 => IsList(heap[n])
  BY <1>2, <1>3 DEF EncoderOK, AppliedMeansOpen
<1>7. CASE applied[n] # 0
  <2>1. counts[n] > 1
    BY <1>2, <1>5, <1>6, <1>7
  <2>. QED
    BY <2>1, <1>1, <1>2, <1>6, <1>7 DEF ZvalToBson
<1>8. CASE applied[n] = 0
  <2>1. ~(counts[n] > 1) /\ counts = IF IsList(heap[n]) THEN [applied EXCEPT ![n] = 1] ELSE applied
    BY <1>2, <1>5, <1>8
  <2>2. applied' = counts /\ overflow' = (Len(frames) = StackSize)
        /\ frames' = IF Len(frames) = StackSize THEN Advanced
                     ELSE Append(Advanced, [node |-> n, next |-> 1, at |-> Len(out) + 1])
    BY <2>1, <1>1, <1>4 DEF ZvalToBson
  <2>3. Len(frames) = StackSize \/ Len(frames) < StackSize
    BY <1>4
  <2>4. applied' = IF IsList(heap[n]) THEN [applied EXCEPT ![n] = 1] ELSE applied
    BY <2>1, <2>2
  <2>5. CASE Len(frames) = StackSize
    BY <2>2, <2>4, <2>5, <1>1, <1>2, <1>8
  <2>6. CASE Len(frames) < StackSize
    BY <2>2, <2>4, <2>6, <1>1, <1>2, <1>4, <1>8
  <2>. QED
    BY <2>3, <2>5, <2>6
<1>. QED
  BY <1>7, <1>8

LEMMA NestedStep ==
  ASSUME TypeOK, OneCall, EncoderOK, ListToBson \/ ObjectToBson, heap' = heap
  PROVE  EncodingGoesOn
<1>. PICK n : n = Entry.value.node
  OBVIOUS
<1>. PICK P : P = Len(out) + 1
  OBVIOUS
<1>. PICK type : type = TypeOf(Entry.value)
  OBVIOUS
<1>1. /\ AtEntry /\ Entry.value.kind = "node" /\ n \in DOMAIN heap /\ Write(type) /\ from' = from
      /\ \/ /\ applied[n] # 0 /\ IsList(heap[n])
            /\ frames' = Advanced /\ applied' = applied /\ overflow' = overflow
         \/ /\ applied[n] = 0
            /\ applied' = (IF IsList(heap[n]) THEN [applied EXCEPT ![n] = 1] ELSE applied)
            /\ \/ Len(frames) = StackSize /\ frames' = Advanced /\ overflow' = TRUE
               \/ /\ Len(frames) < StackSize /\ overflow' = FALSE
                  /\ frames' = Append(Advanced, [node |-> n, next |-> 1, at |-> P])
  BY NestedFacts
<1>2. frames # <<>> /\ ~overflow /\ from # 0 /\ FramesNest
  BY <1>1 DEF AtEntry, Encoding, OneCall, EncoderOK
<1>3. type \in ElementTypes /\ type \in Nested /\ (type = "array" <=> IsList(heap[n]))
  BY <1>1, TypeFacts
<1>4. Keeps
  BY <1>1, <1>2, <1>3, StepKeeps
<1>5. /\ Len(out') = P /\ DOMAIN out' = 1 .. P
      /\ \A p \in 0 .. Len(out) : NodeOf(p)' = NodeOf(p)
      /\ out'[P] = Element(BsonName(Entry.key), type, Frame.at)
      /\ origins'[P] = [node |-> Frame.node, entry |-> Frame.next,
                        within |-> {frames[k].at : k \in DOMAIN frames} \ {0}]
      /\ EntryOf(P)' = Entry
      /\ IsBson(out)' /\ origins' \in Seq(Origins)' /\ Len(origins') = Len(out')
  BY <1>1, <1>2, <1>3, WriteKeeps
<1>6. /\ out'[P].in = Frame.at /\ out'[P].type = type /\ NodeOf(P)' = n /\ P \in DOMAIN out'
      /\ P \in Nat /\ P # 0
  BY <1>5, OriginFacts DEF Element, NodeOf
<1>7. EveryElementShows'
  BY <1>1, <1>2, WriteShows DEF EncoderOK
<1>8. DOMAIN applied = DOMAIN heap /\ applied \in Seq(Nat) /\ Len(applied) = Len(heap)
  BY LenProperties DEF TypeOK
<1>9. applied[n] = 0 => applied' \in Seq(Nat) /\ Len(applied') = Len(heap)
  <2>1. [applied EXCEPT ![n] = 1] \in Seq(Nat) /\ Len([applied EXCEPT ![n] = 1]) = Len(applied)
    BY <1>1, <1>8, ReplaceFacts
  <2>. QED
    BY <2>1, <1>1, <1>8
<1>10. CASE /\ frames' = Advanced
            /\ \/ applied[n] # 0 /\ IsList(heap[n]) /\ applied' = applied /\ overflow' = FALSE
               \/ /\ applied[n] = 0
                  /\ applied' = (IF IsList(heap[n]) THEN [applied EXCEPT ![n] = 1] ELSE applied)
                  /\ Len(frames) = StackSize /\ overflow' = TRUE
  <2>1. CallersMove /\ DOMAIN frames' = DOMAIN frames /\ Len(frames') = Len(frames) /\ frames' \in Seq(Frames)
    BY <1>2, <1>10, AdvanceMoves
  <2>4. FramesNest'
    <3>1. overflow' => Len(frames) = StackSize
      BY <1>10
    <3>. QED
      BY <3>1, <1>1, <1>2, <1>4, <1>10, AdvanceNests
  <2>5. AppliedMeansOpen'
    <3>1. CASE applied[n] # 0
      BY <3>1, <2>1, <1>1, <1>2, <1>10, AdvanceApplies DEF EncoderOK, CallersMove
    <3>2. CASE applied[n] = 0
      BY <3>2, <2>1, <1>1, <1>2, <1>8, <1>10, PushApplies DEF EncoderOK, CallersMove
    <3>. QED
      BY <3>1, <3>2
  <2>6. EntriesInOrder'
    BY <2>1, <1>1, <1>2, <1>3, WriteOrders DEF EncoderOK
  <2>7. NothingLeftOut'
    <3>1. CASE overflow'
      BY <3>1 DEF NothingLeftOut
    <3>2. CASE ~overflow'
      <4>1. applied[n] # 0 /\ IsList(heap[n])
        BY <3>2, <1>10
      <4>2. PICK k \in DOMAIN frames : k > 1 /\ frames[k].node = n
        BY <4>1, <1>1, <1>2 DEF EncoderOK, AppliedMeansOpen
      <4>. PICK q : q = frames[k].at
        OBVIOUS
      <4>3. q # 0 /\ q \in 0 .. Len(out) /\ NodeOf(q) = n
        BY <4>2, <1>2, FramePlaces
      <4>4. q \in origins'[P].within /\ NodeOf(q)' = n
        BY <4>3, <1>5
      <4>5. IsCut(P)'
        BY <4>1, <4>4, <1>3, <1>6 DEF IsCut
      <4>. QED
        BY <4>5, <2>1, <1>1, <1>2, <1>3, WriteLeavesNothingOut DEF EncoderOK
    <3>. QED
      BY <3>1, <3>2
  <2>8. frames' \in Seq(Frames')
    BY <2>1, <1>5, <1>6, OriginFacts, FramesStayTyped
  <2>9. applied' \in Seq(Nat) /\ Len(applied') = Len(heap) /\ overflow' \in BOOLEAN
    <3>1. CASE applied[n] # 0
      BY <3>1, <1>8, <1>10
    <3>2. CASE applied[n] = 0
      BY <3>2, <1>9, <1>10
    <3>. QED
      BY <3>1, <3>2
  <2>10. EncoderTyped'
    BY <2>8, <2>9, <1>1, <1>5 DEF EncoderTyped, TypeOK
  <2>11. overflow' => frames' # <<>>
    BY <2>1, <1>2, FrameFacts
  <2>. QED
    BY <2>4, <2>5, <2>6, <2>7, <2>10, <2>11, <1>1, <1>2, <1>7 DEF EncoderOK, EncodingGoesOn
<1>11. CASE /\ applied[n] = 0
            /\ applied' = (IF IsList(heap[n]) THEN [applied EXCEPT ![n] = 1] ELSE applied)
            /\ Len(frames) < StackSize /\ overflow' = FALSE
            /\ frames' = Append(Advanced, [node |-> n, next |-> 1, at |-> P])
  <2>1. /\ CallersMove /\ DOMAIN frames' = 1 .. Len(frames) + 1 /\ Len(frames') = Len(frames) + 1
        /\ frames'[Len(frames) + 1] = [node |-> n, next |-> 1, at |-> P]
        /\ frames' \in Seq(Frames')
    <3>1. P \in 0 .. Len(out') /\ Len(out) <= Len(out') /\ Len(out') \in Nat
      BY <1>5, <1>6, OriginFacts
    <3>. QED
      BY <3>1, <1>1, <1>2, <1>11, PushMoves
  <2>2. Len(frames) \in Nat /\ DOMAIN frames = 1 .. Len(frames) /\ Frame = frames[Len(frames)]
    BY <1>2, FrameFacts
  <2>3. \A k \in DOMAIN frames' : k \in DOMAIN frames \/ k = Len(frames) + 1
    BY <2>1, <2>2
  <2>4. ~IsCut(P)'
    <3>1. SUFFICES ASSUME type = "array", NEW q \in origins'[P].within, NodeOf(q)' = n PROVE FALSE
      BY <1>6 DEF IsCut
    <3>2. PICK k \in DOMAIN frames : q = frames[k].at /\ q # 0
      BY <3>1, <1>5
    <3>3. k > 1 /\ frames[k].node = NodeOf(q) /\ q \in 0 .. Len(out)
      BY <3>2, <1>2, FramePlaces
    <3>4. frames[k].node = n
      BY <3>1, <3>3, <1>5
    <3>5. applied[n] = 1
      BY <3>1, <3>3, <3>4, <1>3 DEF EncoderOK, AppliedMeansOpen
    <3>. QED
      BY <3>5, <1>11
  <2>5. FramesNest'
    <3>1. ASSUME NEW k \in DOMAIN frames', k \in DOMAIN frames
          PROVE  /\ k \in DOMAIN frames
                 /\ frames'[k].node = frames[k].node /\ frames'[k].at = frames[k].at
                 /\ frames'[k].next <= Len(heap[frames[k].node].entries) + 1
      <4>1. /\ frames'[k].node = frames[k].node /\ frames'[k].at = frames[k].at
            /\ frames'[k].next = IF k = Len(frames) THEN frames[k].next + 1 ELSE frames[k].next
        BY <2>1, <3>1 DEF CallersMove
      <4>2. frames[k].next <= Len(heap[frames[k].node].entries) + 1
        BY <3>1, <1>2 DEF FramesNest
      <4>3. /\ Frame.next <= Len(heap[Frame.node].entries) /\ Frame.next \in Nat
            /\ Len(heap[Frame.node].entries) \in Nat
        <5>1. Frame.node \in DOMAIN heap /\ Frame.next \in DOMAIN heap[Frame.node].entries
          BY <1>1, EntryFacts
        <5>. QED
          BY <5>1, HeapFacts
      <4>4. k = Len(frames) => frames'[k].next <= Len(heap[frames[k].node].entries) + 1
        BY <4>1, <4>3, <2>2
      <4>. QED
        BY <3>1, <4>1, <4>2, <4>4
    <3>2. ASSUME NEW k \in DOMAIN frames', k \notin DOMAIN frames
          PROVE  /\ k = Len(frames) + 1 /\ P \in DOMAIN out'
                 /\ frames'[k].at = P /\ frames'[k].next = 1 /\ frames'[k].node = NodeOf(P)'
                 /\ frames'[k].node \in DOMAIN heap
                 /\ out'[P].in = Frame.at /\ out'[P].type \in Nested /\ ~IsCut(P)'
      BY <2>1, <2>3, <2>4, <3>2, <1>1, <1>3, <1>6
    <3>3. Len(frames') \in Nat /\ DOMAIN frames' = 1 .. Len(frames') /\ Len(frames') <= StackSize
      BY <2>1, <2>2, <1>11, StackFacts
    <3>4. \A k \in DOMAIN frames' :
           \/ /\ k \in DOMAIN frames
              /\ frames'[k].node = frames[k].node /\ frames'[k].at = frames[k].at
              /\ frames'[k].next <= Len(heap[frames[k].node].entries) + 1
           \/ /\ k = Len(frames) + 1 /\ P \in DOMAIN out'
              /\ frames'[k].at = P /\ frames'[k].next = 1 /\ frames'[k].node = NodeOf(P)'
              /\ frames'[k].node \in DOMAIN heap
              /\ out'[P].in = Frame.at /\ out'[P].type \in Nested /\ ~IsCut(P)'
      BY <3>1, <3>2
    <3>. HIDE DEF Keeps
    <3>. QED
      BY <3>3, <3>4, <1>2, <1>4, <1>11, StepNests
  <2>6. AppliedMeansOpen'
    <3>1. \A k \in DOMAIN frames : k \in DOMAIN frames' /\ frames'[k].node = frames[k].node
      BY <2>1 DEF CallersMove
    <3>2. frames'[Len(frames) + 1].node = n
      BY <2>1
    <3>. QED
      BY <3>1, <3>2, <2>1, <1>1, <1>2, <1>8, <1>11, PushApplies DEF EncoderOK
  <2>7. EntriesInOrder'
    <3>1. \A k \in DOMAIN frames' : k \in DOMAIN frames \/ frames'[k].at = Len(out) + 1
      BY <2>1, <2>3
    <3>. QED
      BY <3>1, <2>1, <1>1, <1>2, <1>3, WriteOrders DEF EncoderOK
  <2>8. NothingLeftOut'
    <3>1. \E k \in DOMAIN frames' : frames'[k].at = P /\ frames'[k].next = 1
      <4>1. Len(frames) + 1 \in DOMAIN frames'
        BY <2>1, <2>2
      <4>. QED
        BY <4>1, <2>1
    <3>. QED
      BY <3>1, <2>1, <1>1, <1>2, <1>3, WriteLeavesNothingOut DEF EncoderOK
  <2>9. EncoderTyped'
    BY <2>1, <1>1, <1>5, <1>9, <1>11 DEF EncoderTyped, TypeOK
  <2>. QED
    BY <2>5, <2>6, <2>7, <2>8, <2>9, <1>1, <1>2, <1>7, <1>11 DEF EncoderOK, EncodingGoesOn
<1>12. overflow' \in BOOLEAN /\ overflow = FALSE
  BY <1>1, <1>2 DEF TypeOK
<1>. QED
  BY <1>1, <1>10, <1>11, <1>12

(* Nothing is encoded.                                                     *)
NoEncoding ==
  /\ from = 0 /\ frames = <<>> /\ out = <<>> /\ ~overflow
  /\ \A n \in DOMAIN heap : applied[n] = 0
  /\ Len(heap) \in Nat

LEMMA NothingEncoded == NoEncoding => EncoderOK
<1>. SUFFICES ASSUME NoEncoding
             PROVE  EncoderOK
  OBVIOUS
<1>0. /\ from = 0 /\ frames = <<>> /\ out = <<>> /\ ~overflow
      /\ \A n \in DOMAIN heap : applied[n] = 0
      /\ Len(heap) \in Nat
  BY DEF NoEncoding
<1>1. frames = <<>> => DOMAIN frames = {}
  OBVIOUS
<1>2. out = <<>> => DOMAIN out = {}
  OBVIOUS
<1>3. Len(frames) = 0 /\ StackSize >= 0
  <2>. PICK m : m = Len(heap) + 1
    OBVIOUS
  <2>1. m \in Nat
    BY <1>0
  <2>2. m * m \in Nat
    BY <2>1
  <2>. QED
    BY <1>0, <2>2 DEF StackSize
<1>. QED
  BY <1>0, <1>1, <1>2, <1>3
     DEF EncoderOK, FramesNest, AppliedMeansOpen, EveryElementShows, EntriesInOrder, NothingLeftOut

LEMMA StartStep ==
  ASSUME TypeOK, EncoderOK, frames = <<>>, ~overflow, NEW n \in DOMAIN heap, StartEncoding(n), heap' = heap
  PROVE  /\ EncoderOK' /\ EncoderTyped' /\ ~overflow' /\ from' = n /\ n # 0
<1>1. Len(heap) \in Nat /\ DOMAIN heap = 1 .. Len(heap) /\ StackSize \in Nat \ {0}
  BY StackFacts
<1>2. \A m \in DOMAIN heap : applied[m] = 0
  BY DEF EncoderOK, AppliedMeansOpen
<1>3. /\ from' = n /\ out' = <<>> /\ origins' = <<>> /\ applied' = applied /\ ~overflow' /\ overflow' \in BOOLEAN
      /\ frames' = Append(<<>>, [node |-> n, next |-> 1, at |-> 0])
  <2>1. ~(applied[n] > 1) /\ Len(<<>>) # StackSize
    BY <1>1, <1>2
  <2>. QED
    BY <2>1 DEF StartEncoding, ZvalToBson
<1>4. frames' = <<[node |-> n, next |-> 1, at |-> 0]>>
  BY <1>3
<1>5. Len(frames') = 1 /\ DOMAIN frames' = {1} /\ frames'[1] = [node |-> n, next |-> 1, at |-> 0]
  BY <1>4
<1>6. DOMAIN out' = {} /\ Len(out') = 0
  BY <1>3
<1>7. FramesNest'
  <2>1. StackSize' = StackSize
    BY DEF StackSize
  <2>2. Len(heap[n].entries) \in Nat
    BY HeapFacts
  <2>. QED
    BY <2>1, <2>2, <1>1, <1>3, <1>5 DEF FramesNest
<1>8. AppliedMeansOpen'
  BY <1>2, <1>3, <1>5 DEF AppliedMeansOpen
<1>9. EveryElementShows' /\ EntriesInOrder'
  BY <1>6 DEF EveryElementShows, EntriesInOrder
<1>10. NothingLeftOut'
  <2>1. NodeOf(0)' = n
    BY <1>3 DEF NodeOf
  <2>2. \A e \in DOMAIN heap[n].entries : ~(e < 1)
    BY HeapFacts
  <2>3. \A p \in {0} \cup {q \in DOMAIN out' : out'[q].type \in Nested} : p = 0
    BY <1>6
  <2>4. 1 \in DOMAIN frames' /\ frames'[1].at = 0 /\ frames'[1].next = 1
    BY <1>5
  <2>. QED
    BY <2>1, <2>2, <2>3, <2>4 DEF NothingLeftOut
<1>11. EncoderTyped'
  <2>1. [node |-> n, next |-> 1, at |-> 0] \in Frames'
    BY <1>6 DEF Frames
  <2>2. frames' \in Seq(Frames')
    BY <2>1, <1>4
  <2>3. IsBson(out)'
    BY <1>3, <1>6 DEF IsBson
  <2>4. origins' \in Seq(Origins') /\ Len(origins') = Len(out')
    BY <1>3, <1>6
  <2>. QED
    BY <2>2, <2>3, <2>4, <1>1, <1>3 DEF EncoderTyped, TypeOK
<1>. QED
  BY <1>1, <1>3, <1>7, <1>8, <1>9, <1>10, <1>11 DEF EncoderOK

(* What the invariants of the encoder say of a document.                   *)

(* The numbers of a list are those of its entries.                         *)
LEMMA UncutFacts ==
  ASSUME NEW num \in Nat, num < Wrap
  PROVE  num % Wrap = num
  BY WrapAssumption

(* An element is of an entry of the node whose document it is in.          *)
LEMMA ElementFacts ==
  ASSUME TypeOK, EncoderOK, NEW p \in DOMAIN out
  PROVE  /\ out[p].in \in 0 .. p - 1 /\ origins[p].node = NodeOf(out[p].in)
         /\ NodeOf(out[p].in) \in DOMAIN heap
         /\ origins[p].entry \in DOMAIN heap[NodeOf(out[p].in)].entries
         /\ EntryOf(p) = heap[NodeOf(out[p].in)].entries[origins[p].entry]
         /\ EntryOf(p).key \in PhpKeys /\ EntryOf(p).value \in Values
         /\ out[p].name = BsonName(EntryOf(p).key)
         /\ out[p].type = TypeOf(EntryOf(p).value)
         /\ EntryOf(p).value.kind \in Encodable \cup {"node"}
         /\ out[p].in # 0 => out[p].in \in DOMAIN out /\ out[out[p].in].type \in Nested
         /\ ~IsCut(out[p].in)
         /\ origins[p].within \subseteq {q \in DOMAIN out : out[q].type \in Nested /\ ~IsCut(q)}
<1>1. /\ origins[p].entry \in DOMAIN heap[origins[p].node].entries
      /\ EntryOf(p).value.kind \in Encodable \cup {"node"}
      /\ ShowsItsEntry(p)
      /\ ~IsCut(out[p].in)
      /\ \A q \in origins[p].within : q < p /\ out[q].type \in Nested /\ ~IsCut(q)
  BY DEF EncoderOK, EveryElementShows
<1>2. origins[p] \in Origins /\ out[p].in \in 0 .. p - 1 /\ DOMAIN out = 1 .. Len(out) /\ Len(out) \in Nat
  BY OriginFacts
<1>3. origins[p].node \in DOMAIN heap /\ origins[p].within \subseteq DOMAIN out
  BY <1>2 DEF Origins
<1>4. /\ origins[p].node = NodeOf(out[p].in) /\ out[p].name = BsonName(EntryOf(p).key)
      /\ out[p].type = TypeOf(EntryOf(p).value)
  BY <1>1 DEF ShowsItsEntry, TypeOf
<1>5. EntryOf(p) = heap[origins[p].node].entries[origins[p].entry]
  BY DEF EntryOf
<1>6. EntryOf(p).key \in PhpKeys /\ EntryOf(p).value \in Values
  BY <1>1, <1>3, <1>5, HeapFacts
<1>7. out[p].in # 0 => out[p].in \in DOMAIN out /\ out[out[p].in].type \in Nested
  <2>1. out[p].in # 0 => out[p].in \in DOMAIN out
    BY <1>2
  <2>. QED
    BY <2>1 DEF TypeOK, IsBson
<1>. QED
  BY <1>1, <1>2, <1>3, <1>4, <1>5, <1>6, <1>7

(* A nested document is of a node that the node it is in refers to.        *)
LEMMA NestedElement ==
  ASSUME TypeOK, EncoderOK, NEW p \in DOMAIN out, out[p].type \in Nested
  PROVE  /\ NodeOf(p) \in DOMAIN heap /\ EntryOf(p).value = Reference(NodeOf(p))
         /\ out[p].type = "array" <=> IsList(heap[NodeOf(p)])
         /\ RefersTo(NodeOf(out[p].in), NodeOf(p))
<1>1. p # 0
  BY OriginFacts
<1>2. NodeOf(p) = EntryOf(p).value.node
  BY <1>1 DEF NodeOf
<1>3. /\ EntryOf(p).value.kind = "node" /\ EntryOf(p).value \in Values
      /\ out[p].type = "array" <=> IsList(heap[NodeOf(p)])
  BY <1>2, ElementFacts, TypeFacts
<1>4. NodeOf(p) \in DOMAIN heap /\ EntryOf(p).value = Reference(NodeOf(p))
  BY <1>2, <1>3, ValueFacts
<1>. QED
  BY <1>3, <1>4, ElementFacts DEF RefersTo

LEMMA ArraysFollow ==
  ASSUME TypeOK, EncoderOK
  PROVE  ArraysAscend
<1>1. ASSUME NEW p \in DOMAIN out, out[p].in # 0, out[out[p].in].type = "array"
      PROVE  /\ out[p].name.isnum
             /\ Len(heap[NodeOf(out[p].in)].entries) <= Wrap => out[p].name.num = origins[p].entry - 1
             /\ origins[p].entry \in Nat
  <2>. PICK n : n = NodeOf(out[p].in)
    OBVIOUS
  <2>. PICK e : e = origins[p].entry
    OBVIOUS
  <2>1. /\ n \in DOMAIN heap /\ e \in DOMAIN heap[n].entries /\ EntryOf(p) = heap[n].entries[e]
        /\ out[p].name = BsonName(EntryOf(p).key)
        /\ out[p].in \in DOMAIN out
    BY <1>1, ElementFacts
  <2>2. IsList(heap[n])
    BY <1>1, <2>1, NestedElement DEF Nested
  <2>3. EntryOf(p).key = IntKey(e - 1)
    BY <2>1, <2>2 DEF IsList
  <2>4. e \in 1 .. Len(heap[n].entries) /\ Len(heap[n].entries) \in Nat
    BY <2>1, HeapFacts
  <2>5. out[p].name.isnum /\ out[p].name.num = (e - 1) % Wrap
    BY <2>1, <2>3 DEF BsonName, IntKey, Num
  <2>6. Len(heap[n].entries) <= Wrap => e - 1 < Wrap /\ e - 1 \in Nat
    BY <2>4, WrapAssumption
  <2>7. Len(heap[n].entries) <= Wrap => (e - 1) % Wrap = e - 1
    BY <2>6, UncutFacts
  <2>. QED
    BY <2>4, <2>5, <2>7
<1>2. ASSUME NEW p \in DOMAIN out, NEW q \in DOMAIN out, p < q, out[p].in = out[q].in,
             out[p].in # 0, out[out[p].in].type = "array", Len(heap[NodeOf(out[p].in)].entries) <= Wrap
      PROVE  out[p].name.num < out[q].name.num
  <2>1. origins[p].entry < origins[q].entry
    BY <1>2 DEF EncoderOK, EntriesInOrder
  <2>2. out[p].name.num = origins[p].entry - 1 /\ origins[p].entry \in Nat
    BY <1>1, <1>2
  <2>3. out[q].name.num = origins[q].entry - 1 /\ origins[q].entry \in Nat
    BY <1>1, <1>2
  <2>. QED
    BY <2>1, <2>2, <2>3
<1>. QED
  BY <1>1, <1>2 DEF ArraysAscend, Siblings

LEMMA PathsFollow ==
  ASSUME TypeOK, OneCall, EncoderOK
  PROVE  LeavesKeepTheirPaths
<1>. SUFFICES ASSUME from # 0, frames = <<>> PROVE LeavesKeepTheirPaths
  BY DEF LeavesKeepTheirPaths, IsEncoded
<1>1. DOMAIN frames = {} /\ ~overflow
  BY DEF OneCall
<1>2. \A p \in DOMAIN out : ShowsItsEntry(p)
  BY DEF EncoderOK, EveryElementShows
<1>3. \A p, q \in DOMAIN out : Siblings(out, p, q) => origins[p].entry < origins[q].entry
  BY DEF EncoderOK, EntriesInOrder, Siblings
<1>4. ASSUME NEW p \in {0} \cup {q \in DOMAIN out : out[q].type \in Nested}
      PROVE  LeavesNothingOut(p)
  <2>1. CASE IsCut(p)
    <3>1. {q \in DOMAIN out : out[q].in = p} = {}
      BY <2>1, ElementFacts
    <3>. QED
      BY <2>1, <3>1 DEF LeavesNothingOut
  <2>2. CASE ~IsCut(p)
    <3>1. \A e \in DOMAIN heap[NodeOf(p)].entries :
            heap[NodeOf(p)].entries[e].value.kind \in Encodable \cup {"node"} =>
              \E q \in DOMAIN out : out[q].in = p /\ origins[q].entry = e
      BY <2>2, <1>1 DEF EncoderOK, NothingLeftOut
    <3>. QED
      BY <2>2, <3>1 DEF LeavesNothingOut
  <2>. QED
    BY <2>1, <2>2
<1>. QED
  BY <1>2, <1>3, <1>4 DEF LeavesKeepTheirPaths

LEMMA NamesFollow ==
  ASSUME TypeOK, EncoderOK
  PROVE  NamesClashOnlyWhenCut
<1>. SUFFICES ASSUME NEW p \in DOMAIN out, NEW q \in DOMAIN out, p < q, out[p].in = out[q].in,
                     out[p].name = out[q].name, ~IsChanged(EntryOf(p).key), ~IsChanged(EntryOf(q).key)
              PROVE  FALSE
  BY DEF NamesClashOnlyWhenCut, Siblings
<1>. PICK n : n = NodeOf(out[p].in)
  OBVIOUS
<1>1. origins[p].entry < origins[q].entry
  BY DEF EncoderOK, EntriesInOrder
<1>2. /\ n \in DOMAIN heap
      /\ origins[p].entry \in DOMAIN heap[n].entries /\ origins[q].entry \in DOMAIN heap[n].entries
      /\ EntryOf(p) = heap[n].entries[origins[p].entry] /\ EntryOf(q) = heap[n].entries[origins[q].entry]
      /\ EntryOf(p).key \in PhpKeys /\ EntryOf(q).key \in PhpKeys
      /\ out[p].name = BsonName(EntryOf(p).key) /\ out[q].name = BsonName(EntryOf(q).key)
  BY ElementFacts
<1>3. ASSUME NEW key \in PhpKeys, ~IsChanged(key)
      PROVE  \/ key.type = "int" /\ BsonName(key) = Num(key.num) /\ key = IntKey(key.num)
             \/ key.type = "name" /\ BsonName(key) = Str(key.str) /\ key = NameKey(key.str)
  <2>1. CASE key \in [type : {"int", "digits"}, num : Int]
    <3>1. key.type = "int" /\ key.num \in Nat /\ key.num < Wrap /\ key = IntKey(key.num)
      BY <2>1, <1>3, WrapAssumption DEF IsChanged, IntKey
    <3>2. key.num % Wrap = key.num
      BY <3>1, UncutFacts
    <3>. QED
      BY <3>1, <3>2 DEF BsonName
  <2>2. CASE key \in [type : {"name", "private"}, str : STRING]
    BY <2>2, <1>3 DEF IsChanged, NameKey, BsonName
  <2>. QED
    BY <2>1, <2>2, <1>3 DEF PhpKeys
<1>4. EntryOf(p).key = EntryOf(q).key
  <2>1. PICK k : k = EntryOf(p).key
    OBVIOUS
  <2>2. PICK l : l = EntryOf(q).key
    OBVIOUS
  <2>3. BsonName(k) = BsonName(l)
    BY <2>1, <2>2, <1>2
  <2>4. /\ \/ k.type = "int" /\ BsonName(k) = Num(k.num) /\ k = IntKey(k.num)
           \/ k.type = "name" /\ BsonName(k) = Str(k.str) /\ k = NameKey(k.str)
        /\ \/ l.type = "int" /\ BsonName(l) = Num(l.num) /\ l = IntKey(l.num)
           \/ l.type = "name" /\ BsonName(l) = Str(l.str) /\ l = NameKey(l.str)
    BY <2>1, <2>2, <1>2, <1>3
  <2>. QED
    BY <2>1, <2>2, <2>3, <2>4 DEF Num, Str
<1>5. origins[p].entry = origins[q].entry
  <2>1. KeysDiffer(heap[n])
    BY <1>2 DEF TypeOK
  <2>. QED
    BY <2>1, <1>2, <1>4 DEF KeysDiffer
<1>6. origins[p].entry \in Nat
  BY OriginFacts DEF Origins
<1>. QED
  BY <1>1, <1>5, <1>6

(* An overflow means a cycle without a list, and only that does.           *)

LEMMA ReachableFacts ==
  ASSUME NEW a \in DOMAIN heap
  PROVE  /\ a \in Reachable(a)
         /\ \A m \in Reachable(a) : \A n \in DOMAIN heap : RefersTo(m, n) => n \in Reachable(a)
         /\ \A S \in SUBSET DOMAIN heap :
              a \in S /\ (\A m \in S, n \in DOMAIN heap : RefersTo(m, n) => n \in S) => Reachable(a) \subseteq S
         /\ Reachable(a) \subseteq DOMAIN heap
  BY DEF Reachable

(* A set of numbers up to a bound has a greatest one.                      *)
LEMMA GreatestNatural ==
  ASSUME NEW n \in Nat, NEW T, T \subseteq 0 .. n, T # {}
  PROVE  \E m \in T : \A k \in T : k <= m
<1>1. {n - k : k \in T} \subseteq Nat /\ {n - k : k \in T} # {}
  <2>1. \A k \in T : n - k \in Nat
    OBVIOUS
  <2>2. PICK k \in T : TRUE
    OBVIOUS
  <2>3. n - k \in {n - i : i \in T}
    BY <2>2
  <2>. QED
    BY <2>1, <2>3
<1>2. PICK l \in {n - k : k \in T} : \A j \in {n - k : k \in T} : l <= j
  BY <1>1, LeastNatural
<1>3. PICK m \in T : l = n - m
  BY <1>2
<1>4. \A k \in T : n - m <= n - k
  BY <1>2, <1>3
<1>5. \A k \in T : k <= m
  BY <1>4
<1>. QED
  BY <1>5

(* Each call is for a node the caller's refers to.                         *)
LEMMA CallRefers ==
  ASSUME TypeOK, EncoderOK, NEW k \in DOMAIN frames, k > 1
  PROVE  k - 1 \in DOMAIN frames /\ RefersTo(frames[k - 1].node, frames[k].node)
<1>1. FramesNest /\ frames # <<>>
  BY DEF EncoderOK, TypeOK
<1>2. DOMAIN frames = 1 .. Len(frames) /\ Len(frames) \in Nat
  BY <1>1, FrameFacts
<1>3. k - 1 \in DOMAIN frames
  BY <1>2
<1>4. /\ frames[k].at \in DOMAIN out /\ out[frames[k].at].type \in Nested
      /\ frames[k].node = NodeOf(frames[k].at) /\ out[frames[k].at].in = frames[k - 1].at
  BY <1>1, FramePlaces DEF FramesNest
<1>5. frames[k - 1].node = NodeOf(frames[k - 1].at)
  BY <1>1, <1>3, FramePlaces
<1>. QED
  BY <1>3, <1>4, <1>5, NestedElement

LEMMA CallsReachable ==
  ASSUME TypeOK, EncoderOK, NEW k \in DOMAIN frames
  PROVE  from \in DOMAIN heap /\ frames[k].node \in Reachable(from)
<1>1. FramesNest /\ frames # <<>>
  BY DEF EncoderOK, TypeOK
<1>2. DOMAIN frames = 1 .. Len(frames) /\ Len(frames) \in Nat \ {0}
  BY <1>1, FrameFacts
<1>3. frames[1].node = from /\ 1 \in DOMAIN frames
  BY <1>1, <1>2 DEF FramesNest
<1>4. from \in DOMAIN heap
  BY <1>1, <1>3, FramePlaces
<1> DEFINE T == {i \in DOMAIN frames : frames[i].node \notin Reachable(from)}
<1>5. T \subseteq Nat /\ T \subseteq DOMAIN frames
  BY <1>2
<1>6. ASSUME T # {} PROVE FALSE
  <2>1. PICK m \in T : \A i \in T : m <= i
    <3> HIDE DEF T
    <3>. QED
      BY <1>5, <1>6, LeastNatural
  <2>2. m \in DOMAIN frames /\ frames[m].node \notin Reachable(from)
    BY <2>1
  <2>3. m > 1
    BY <2>2, <1>2, <1>3, <1>4, ReachableFacts
  <2>4. m - 1 \in DOMAIN frames /\ RefersTo(frames[m - 1].node, frames[m].node)
    BY <2>2, <2>3, CallRefers
  <2>5. m - 1 \notin T
    <3>1. ~(m <= m - 1)
      BY <1>2, <2>2
    <3>. QED
      BY <2>1, <3>1
  <2>6. frames[m - 1].node \in Reachable(from)
    BY <2>4, <2>5
  <2>7. frames[m].node \in DOMAIN heap
    BY <2>2, <1>1, FramePlaces
  <2>. QED
    BY <2>2, <2>4, <2>6, <2>7, <1>4, ReachableFacts
<1>. QED
  BY <1>4, <1>6

(* The last list on the stack up to a call; the first call is not counted. *)
ListsUpTo(k) == {i \in DOMAIN frames : 1 < i /\ i <= k /\ IsList(heap[frames[i].node])}

LastList(k) ==
  IF ListsUpTo(k) = {} THEN 0 ELSE CHOOSE i \in ListsUpTo(k) : \A j \in ListsUpTo(k) : j <= i

LEMMA LastListFacts ==
  ASSUME TypeOK, EncoderOK, NEW k \in DOMAIN frames
  PROVE  \/ LastList(k) = 0 /\ ListsUpTo(k) = {}
         \/ LastList(k) \in ListsUpTo(k) /\ \A i \in ListsUpTo(k) : i <= LastList(k)
<1>1. CASE ListsUpTo(k) = {}
  BY <1>1 DEF LastList
<1>2. CASE ListsUpTo(k) # {}
  <2>1. frames # <<>>
    BY DEF TypeOK
  <2>2. DOMAIN frames = 1 .. Len(frames) /\ Len(frames) \in Nat
    BY <2>1, FrameFacts
  <2>3. ListsUpTo(k) \subseteq 0 .. Len(frames)
    BY <2>2 DEF ListsUpTo
  <2>4. \E m \in ListsUpTo(k) : \A i \in ListsUpTo(k) : i <= m
    BY <2>2, <2>3, <1>2, GreatestNatural
  <2>. QED
    BY <2>4, <1>2 DEF LastList
<1>. QED
  BY <1>1, <1>2

(* More numbers than values: two have the same one.                        *)
LEMMA TwoAlike ==
  ASSUME NEW n \in Nat, NEW S, IsFiniteSet(S), Cardinality(S) < n, NEW f \in [1 .. n -> S]
  PROVE  \E j, k \in 1 .. n : j < k /\ f[j] = f[k]
<1>1. 1 \in Int /\ n \in Int
  OBVIOUS
<1>2. IsFiniteSet(1 .. n) /\ Cardinality(1 .. n) = IF 1 > n THEN 0 ELSE n - 1 + 1
  BY <1>1, FS_Interval, Zenon
<1>3. Cardinality(1 .. n) = n
  BY <1>2
<1>4. \A T : IsFiniteSet(T) /\ Cardinality(S) < Cardinality(T) =>
        \A g \in [T -> S] : \E x, y \in T : x # y /\ g[x] = g[y]
  BY FS_PigeonHole
<1>5. Cardinality(S) < Cardinality(1 .. n)
  BY <1>3
<1>6. \E x, y \in 1 .. n : x # y /\ f[x] = f[y]
  BY <1>2, <1>4, <1>5, Zenon
<1>7. PICK x \in 1 .. n, y \in 1 .. n : x # y /\ f[x] = f[y]
  BY <1>6
<1>8. x < y \/ y < x
  BY <1>7
<1>. QED
  BY <1>7, <1>8

LEMMA TwoPairsAlike ==
  ASSUME NEW N \in Nat, NEW L \in Nat, (N + 1) * N < L, NEW f \in [1 .. L -> (0 .. N) \X (1 .. N)]
  PROVE  \E j, k \in 1 .. L : j < k /\ f[j] = f[k]
<1>1. IsFiniteSet((0 .. N) \X (1 .. N)) /\ Cardinality((0 .. N) \X (1 .. N)) = (N + 1) * N
  <2>1. \A a \in {0, 1} : /\ IsFiniteSet(a .. N)
                          /\ Cardinality(a .. N) = IF a > N THEN 0 ELSE N - a + 1
    <3>1. N \in Int /\ \A a \in {0, 1} : a \in Int
      OBVIOUS
    <3>. QED
      BY <3>1, FS_Interval, Zenon
  <2>2. Cardinality(0 .. N) = N + 1 /\ Cardinality(1 .. N) = N
    BY <2>1
  <2>3. /\ IsFiniteSet((0 .. N) \X (1 .. N))
        /\ Cardinality((0 .. N) \X (1 .. N)) = Cardinality(0 .. N) * Cardinality(1 .. N)
    BY <2>1, FS_Product
  <2>. QED
    BY <2>2, <2>3
<1>2. Cardinality((0 .. N) \X (1 .. N)) < L
  BY <1>1
<1>. QED
  BY <1>1, <1>2, TwoAlike, Zenon

LEMMA OverflowMeansEndless ==
  ASSUME TypeOK, EncoderOK, overflow
  PROVE  Endless(from)
<1>. PICK N : N = Len(heap)
  OBVIOUS
<1>. PICK L : L = Len(frames)
  OBVIOUS
<1>1. N \in Nat /\ DOMAIN heap = 1 .. N /\ L = (N + 1) * (N + 1) /\ L \in Nat \ {0}
  BY StackFacts DEF EncoderOK, FramesNest, StackSize
<1>2. DOMAIN frames = 1 .. L
  BY LenProperties DEF TypeOK
<1>3. \A k \in 1 .. L : frames[k].node \in 1 .. N
  BY <1>1, <1>2, FramePlaces DEF EncoderOK
<1>. PICK g : g = [k \in 1 .. L |-> <<IF LastList(k) = 0 THEN 0 ELSE frames[LastList(k)].node, frames[k].node>>]
  OBVIOUS
<1>4. \A k \in 1 .. L : LastList(k) # 0 => LastList(k) \in 1 .. L
  BY <1>2, LastListFacts DEF ListsUpTo
<1>5. g \in [1 .. L -> (0 .. N) \X (1 .. N)]
  BY <1>1, <1>3, <1>4
<1>8. (N + 1) * N < L
  <2>1. (N + 1) * (N + 1) = (N + 1) * N + (N + 1)
    BY <1>1
  <2>2. (N + 1) * N \in Nat
    BY <1>1
  <2>. QED
    BY <2>1, <2>2, <1>1
<1>9. PICK j \in 1 .. L, k \in 1 .. L : j < k /\ g[j] = g[k]
  <2>1. \A f \in [1 .. L -> (0 .. N) \X (1 .. N)] : \E j, k \in 1 .. L : j < k /\ f[j] = f[k]
    BY <1>1, <1>8, TwoPairsAlike, Zenon
  <2>. QED
    BY <1>5, <2>1
<1>10. /\ frames[j].node = frames[k].node
       /\ (IF LastList(j) = 0 THEN 0 ELSE frames[LastList(j)].node)
            = (IF LastList(k) = 0 THEN 0 ELSE frames[LastList(k)].node)
  BY <1>9
<1>11. LastList(j) = LastList(k)
  <2>1. LastList(j) = 0 <=> LastList(k) = 0
    BY <1>3, <1>4, <1>9, <1>10
  <2>2. CASE LastList(j) # 0
    <3>. PICK a : a = LastList(j)
      OBVIOUS
    <3>. PICK b : b = LastList(k)
      OBVIOUS
    <3>1. frames[a].node = frames[b].node
      BY <2>1, <2>2, <1>10
    <3>2. a \in ListsUpTo(j) /\ b \in ListsUpTo(k)
      BY <2>1, <2>2, <1>2, <1>9, LastListFacts
    <3>3. /\ a \in DOMAIN frames /\ 1 < a /\ IsList(heap[frames[a].node])
          /\ b \in DOMAIN frames /\ 1 < b /\ IsList(heap[frames[b].node])
      BY <3>2 DEF ListsUpTo
    <3>4. ~(a < b) /\ ~(b < a)
      BY <3>1, <3>3 DEF EncoderOK, AppliedMeansOpen
    <3>. QED
      BY <3>3, <3>4, <1>2
  <2>. QED
    BY <2>1, <2>2
<1>12. \A i \in j + 1 .. k : ~IsList(heap[frames[i].node])
  <2>1. SUFFICES ASSUME NEW i \in j + 1 .. k, IsList(heap[frames[i].node]) PROVE FALSE
    OBVIOUS
  <2>2. i \in ListsUpTo(k)
    BY <2>1, <1>2, <1>9 DEF ListsUpTo
  <2>3. i <= LastList(k) /\ LastList(k) # 0
    <3>1. LastList(k) \in ListsUpTo(k) /\ i <= LastList(k)
      BY <2>2, <1>2, LastListFacts
    <3>. QED
      BY <3>1, <1>2 DEF ListsUpTo
  <2>4. LastList(j) \in ListsUpTo(j)
    BY <2>3, <1>2, <1>9, <1>11, LastListFacts
  <2>5. LastList(j) <= j /\ LastList(j) \in 1 .. L
    BY <2>4, <1>2 DEF ListsUpTo
  <2>. QED
    BY <2>1, <2>3, <2>5, <1>11
<1>. PICK C : C = {frames[i].node : i \in j + 1 .. k}
  OBVIOUS
<1>13. \A i \in j + 1 .. k : i \in DOMAIN frames /\ i > 1
  BY <1>2, <1>9
<1>14. C \in SUBSET {m \in Reachable(from) : ~IsList(heap[m])}
  BY <1>12, <1>13, CallsReachable
<1>15. C # {}
  <2>1. k \in j + 1 .. k
    BY <1>9
  <2>. QED
    BY <2>1
<1>16. ASSUME NEW a \in C PROVE \E b \in C : RefersTo(a, b)
  <2>1. PICK i \in j + 1 .. k : a = frames[i].node
    BY <1>16
  <2>2. CASE i = k
    <3>1. j + 1 \in j + 1 .. k /\ j + 1 \in DOMAIN frames /\ j + 1 > 1 /\ (j + 1) - 1 = j
      BY <1>9, <1>13
    <3>2. RefersTo(frames[j].node, frames[j + 1].node)
      BY <3>1, CallRefers
    <3>. QED
      BY <2>1, <2>2, <3>1, <3>2, <1>10
  <2>3. CASE i # k
    <3>1. i + 1 \in j + 1 .. k /\ (i + 1) - 1 = i
      BY <2>1, <2>3
    <3>2. RefersTo(frames[i].node, frames[i + 1].node)
      BY <3>1, <1>13, CallRefers
    <3>. QED
      BY <2>1, <3>1, <3>2
  <2>. QED
    BY <2>2, <2>3
<1>. QED
  BY <1>14, <1>15, <1>16 DEF Endless

LEMMA EncodedMeansNotEndless ==
  ASSUME TypeOK, OneCall, EncoderOK, from # 0, frames = <<>>
  PROVE  ~Endless(from)
<1>1. DOMAIN frames = {} /\ ~overflow
  BY DEF OneCall
<1>2. from \in DOMAIN heap /\ DOMAIN heap = 1 .. Len(heap) /\ Len(heap) \in Nat
  BY StackFacts DEF TypeOK
<1>3. Len(out) \in Nat /\ DOMAIN out = 1 .. Len(out)
  BY OriginFacts
<1>. PICK Docs : Docs = {0} \cup {q \in DOMAIN out : out[q].type \in Nested}
  OBVIOUS
<1>4. Docs \subseteq 0 .. Len(out)
  BY <1>3
<1>5. \A p \in Docs : NodeOf(p) \in DOMAIN heap
  BY <1>2, NestedElement DEF NodeOf
<1>6. ASSUME NEW p \in Docs, ~IsCut(p), NEW b \in DOMAIN heap, RefersTo(NodeOf(p), b)
      PROVE  \E q \in Docs : q > p /\ NodeOf(q) = b
  <2>1. PICK e \in DOMAIN heap[NodeOf(p)].entries : heap[NodeOf(p)].entries[e].value = Reference(b)
    BY <1>6 DEF RefersTo
  <2>2. Reference(b).kind = "node" /\ Reference(b).node = b
    BY DEF Reference
  <2>3. PICK q \in DOMAIN out : out[q].in = p /\ origins[q].entry = e
    BY <2>1, <2>2, <1>1, <1>6, <1>2 DEF EncoderOK, NothingLeftOut
  <2>4. EntryOf(q).value = Reference(b) /\ out[q].type = TypeOf(EntryOf(q).value) /\ p < q
    BY <2>1, <2>3, <1>3, ElementFacts
  <2>5. out[q].type \in Nested
    BY <2>2, <2>4, TypeFacts
  <2>6. NodeOf(q) = b
    BY <2>2, <2>4, <1>3 DEF NodeOf
  <2>. QED
    BY <2>4, <2>5, <2>6
<1>7. ASSUME NEW p \in Docs PROVE \E q \in Docs : NodeOf(q) = NodeOf(p) /\ ~IsCut(q)
  <2>1. CASE IsCut(p)
    <3>1. PICK q \in origins[p].within : NodeOf(q) = NodeOf(p)
      BY <2>1 DEF IsCut
    <3>2. p \in DOMAIN out
      BY <2>1 DEF IsCut
    <3>3. q \in DOMAIN out /\ out[q].type \in Nested /\ ~IsCut(q)
      BY <3>1, <3>2, ElementFacts
    <3>. QED
      BY <3>1, <3>3
  <2>. QED
    BY <2>1
<1>. PICK S : S = {NodeOf(p) : p \in Docs}
  OBVIOUS
<1>8. from \in S /\ S \in SUBSET DOMAIN heap
  BY <1>5 DEF NodeOf
<1>9. ASSUME NEW a \in S, NEW b \in DOMAIN heap, RefersTo(a, b) PROVE b \in S
  <2>1. PICK p \in Docs : NodeOf(p) = a /\ ~IsCut(p)
    BY <1>7
  <2>2. PICK q \in Docs : q > p /\ NodeOf(q) = b
    BY <2>1, <1>6, <1>9
  <2>. QED
    BY <2>2
<1>10. Reachable(from) \subseteq S
  BY <1>2, <1>8, <1>9, ReachableFacts
<1>11. SUFFICES ASSUME NEW C \in SUBSET {m \in Reachable(from) : ~IsList(heap[m])}, C # {},
                       \A a \in C : \E b \in C : RefersTo(a, b)
                PROVE  FALSE
  BY DEF Endless
<1>. PICK T : T = {p \in Docs : NodeOf(p) \in C}
  OBVIOUS
<1>12. T # {} /\ T \subseteq 0 .. Len(out)
  <2>1. PICK c \in C : TRUE
    BY <1>11
  <2>2. c \in S
    BY <2>1, <1>10, <1>11
  <2>3. T # {}
    BY <2>1, <2>2
  <2>. QED
    BY <2>3, <1>4
<1>13. PICK p \in T : \A q \in T : q <= p
  BY <1>3, <1>12, GreatestNatural
<1>14. p \in Docs /\ NodeOf(p) \in C /\ ~IsList(heap[NodeOf(p)])
  BY <1>13, <1>11
<1>15. ~IsCut(p)
  BY <1>14, NestedElement DEF IsCut
<1>16. PICK b \in C : RefersTo(NodeOf(p), b)
  BY <1>14, <1>11
<1>17. b \in DOMAIN heap
  BY <1>2, <1>11, ReachableFacts
<1>18. PICK q \in Docs : q > p /\ NodeOf(q) = b
  BY <1>14, <1>15, <1>16, <1>17, <1>6
<1>19. q \in T
  BY <1>16, <1>18
<1>. QED
  BY <1>3, <1>4, <1>13, <1>18, <1>19

LEMMA EndlessFollows ==
  ASSUME TypeOK, OneCall, EncoderOK
  PROVE  EncodesUnlessEndless
  BY OverflowMeansEndless, EncodedMeansNotEndless DEF EncodesUnlessEndless, IsEncoded

(* The decoder: the document, the calls, and what they make.               *)

LEMMA DocFacts ==
  ASSUME TypeOK, read # 0
  PROVE  /\ read \in DOMAIN bytes.docs /\ IsBson(Doc) /\ Doc \in Seq(BsonElements)
         /\ Len(Doc) \in Nat /\ DOMAIN Doc = 1 .. Len(Doc)
         /\ \A p \in DOMAIN Doc :
              /\ Doc[p].in \in 0 .. p - 1 /\ Doc[p].in \in 0 .. Len(Doc)
              /\ Doc[p].in # 0 => Doc[p].in \in DOMAIN Doc /\ Doc[Doc[p].in].type \in Nested
              /\ Doc[p].name \in BsonNames /\ Doc[p].type \in ElementTypes
<1>1. bytes.docs \in Seq(Seq(BsonElements)) /\ read \in 0 .. Len(bytes.docs)
  BY DEF TypeOK
<1>2. read \in DOMAIN bytes.docs
  BY <1>1, LenProperties
<1>3. IsBson(Doc) /\ Doc \in Seq(BsonElements)
  BY <1>2 DEF TypeOK, Doc, IsBson
<1>4. Len(Doc) \in Nat /\ DOMAIN Doc = 1 .. Len(Doc)
  BY <1>3, LenProperties
<1>5. \A p \in DOMAIN Doc : Doc[p] \in BsonElements
  BY <1>3, <1>4, ElementOfSeq
<1>6. ASSUME NEW p \in DOMAIN Doc
      PROVE  /\ Doc[p].in \in 0 .. p - 1 /\ Doc[p].in \in 0 .. Len(Doc)
             /\ Doc[p].in # 0 => Doc[p].in \in DOMAIN Doc /\ Doc[Doc[p].in].type \in Nested
             /\ Doc[p].name \in BsonNames /\ Doc[p].type \in ElementTypes
  <2>1. Doc[p].in \in Nat /\ Doc[p].name \in BsonNames /\ Doc[p].type \in ElementTypes
    BY <1>5 DEF BsonElements
  <2>2. Doc[p].in < p /\ (Doc[p].in # 0 => Doc[Doc[p].in].type \in Nested)
    BY <1>3 DEF IsBson
  <2>. QED
    BY <2>1, <2>2, <1>4
<1>. QED
  BY <1>2, <1>3, <1>4, <1>6

LEMMA IterFacts ==
  ASSUME TypeOK, iters # <<>>
  PROVE  /\ Len(iters) \in Nat \ {0} /\ DOMAIN iters = 1 .. Len(iters) /\ Len(iters) \in DOMAIN iters
         /\ Iter = iters[Len(iters)]
         /\ \A k \in DOMAIN iters : iters[k] \in Iters
<1>1. iters \in Seq(Iters)
  BY DEF TypeOK
<1>2. Len(iters) \in Nat \ {0} /\ DOMAIN iters = 1 .. Len(iters)
  BY <1>1, LenProperties, EmptySeq
<1>3. \A k \in DOMAIN iters : iters[k] \in Iters
  BY <1>1, <1>2, ElementOfSeq
<1>. QED
  BY <1>2, <1>3 DEF Iter

LEMMA MadeFacts ==
  ASSUME TypeOK, read # 0
  PROVE  /\ made \in [0 .. Len(Doc) -> 0 .. Len(heap)] /\ placed \in [DOMAIN Doc -> Nat]
         /\ \A p \in 0 .. Len(Doc) : made[p] # 0 => made[p] \in DOMAIN heap
         /\ \A p \in DOMAIN Doc : placed[p] \in Nat /\ p \in 0 .. Len(Doc)
<1>1. made \in [0 .. Len(Doc) -> 0 .. Len(heap)] /\ placed \in [DOMAIN Doc -> Nat]
  BY DEF TypeOK
<1>2. DOMAIN heap = 1 .. Len(heap) /\ Len(heap) \in Nat
  BY StackFacts
<1>3. DOMAIN Doc = 1 .. Len(Doc) /\ Len(Doc) \in Nat
  BY DocFacts
<1>. QED
  BY <1>1, <1>2, <1>3

(* A name is a key, and different names are different keys.                *)
LEMMA PhpKeyFacts ==
  ASSUME NEW class, NEW name \in BsonNames
  PROVE  /\ PhpKey(class, name) \in PhpKeys
         /\ \A other \in BsonNames : PhpKey(class, other) = PhpKey(class, name) => other = name
<1>1. \A n \in BsonNames : \/ n.isnum = TRUE /\ n.num \in Int /\ n = [isnum |-> TRUE, num |-> n.num]
                           \/ n.isnum = FALSE /\ n.str \in STRING /\ n = [isnum |-> FALSE, str |-> n.str]
  <2>1. ASSUME NEW n \in [isnum : {TRUE}, num : Int]
        PROVE  n.isnum = TRUE /\ n.num \in Int /\ n = [isnum |-> TRUE, num |-> n.num]
    <3>1. n.isnum \in {TRUE}
      OBVIOUS
    <3>2. n.isnum = TRUE
      BY <3>1, Zenon
    <3>3. n = [isnum |-> n.isnum, num |-> n.num] /\ n.num \in Int
      OBVIOUS
    <3>. QED
      BY <3>2, <3>3, Zenon
  <2>2. ASSUME NEW n \in [isnum : {FALSE}, str : STRING]
        PROVE  n.isnum = FALSE /\ n.str \in STRING /\ n = [isnum |-> FALSE, str |-> n.str]
    <3>1. n.isnum \in {FALSE}
      OBVIOUS
    <3>2. n.isnum = FALSE
      BY <3>1, Zenon
    <3>3. n = [isnum |-> n.isnum, str |-> n.str] /\ n.str \in STRING
      OBVIOUS
    <3>. QED
      BY <3>2, <3>3, Zenon
  <2>. QED
    BY <2>1, <2>2 DEF BsonNames
<1>2. PhpKey(class, name) \in PhpKeys
  BY <1>1 DEF PhpKey, NameKey, IntKey, DigitsKey, PhpKeys
<1>3. ASSUME NEW other \in BsonNames, PhpKey(class, other) = PhpKey(class, name)
      PROVE  other = name
  <2>1. CASE name.isnum = TRUE /\ other.isnum = TRUE
    <3>1. other.num = name.num
      BY <2>1, <1>3 DEF PhpKey, IntKey, DigitsKey
    <3>. QED
      BY <3>1, <2>1, <1>1
  <2>2. CASE name.isnum = FALSE /\ other.isnum = FALSE
    <3>1. other.str = name.str
      BY <2>2, <1>3 DEF PhpKey, NameKey
    <3>. QED
      BY <3>1, <2>2, <1>1
  <2>3. CASE name.isnum = TRUE /\ other.isnum = FALSE
    BY <2>3, <1>3 DEF PhpKey, NameKey, IntKey, DigitsKey
  <2>4. CASE name.isnum = FALSE /\ other.isnum = TRUE
    BY <2>4, <1>3 DEF PhpKey, NameKey, IntKey, DigitsKey
  <2>. QED
    BY <2>1, <2>2, <2>3, <2>4, <1>1
<1>. QED
  BY <1>2, <1>3

(* Adding a field to entries that have each key once.                      *)
EachKeyOnce(entries) == \A i, j \in DOMAIN entries : entries[i].key = entries[j].key => i = j

LEMMA PutFacts ==
  ASSUME NEW V, NEW entries \in Seq([key : PhpKeys, value : V]), NEW key \in PhpKeys, NEW v \in V,
         EachKeyOnce(entries)
  PROVE  /\ Put(entries, key, v) \in Seq([key : PhpKeys, value : V])
         /\ EachKeyOnce(Put(entries, key, v))
         /\ Place(entries, key) \in Nat \ {0}
<1>. PICK e : e = [key |-> key, value |-> v]
  OBVIOUS
<1>1. e \in [key : PhpKeys, value : V]
  OBVIOUS
<1>2. Len(entries) \in Nat /\ DOMAIN entries = 1 .. Len(entries)
  BY LenProperties
<1>3. CASE Same(entries, key) = {}
  <2>. PICK new : new = Append(entries, e)
    OBVIOUS
  <2>1. Put(entries, key, v) = new /\ Place(entries, key) = Len(entries) + 1
    BY <1>3 DEF Put, Place
  <2>2. /\ new \in Seq([key : PhpKeys, value : V])
        /\ DOMAIN new = 1 .. Len(entries) + 1
        /\ \A i \in DOMAIN entries : new[i] = entries[i]
        /\ new[Len(entries) + 1] = e
    BY <1>1, AppendFacts
  <2>3. \A i \in DOMAIN entries : entries[i].key # key
    BY <1>3 DEF Same
  <2>4. ASSUME NEW i \in DOMAIN new, NEW j \in DOMAIN new, new[i].key = new[j].key
        PROVE  i = j
    <3>1. \A l \in 1 .. Len(entries) + 1 : l \in DOMAIN entries \/ l = Len(entries) + 1
      BY <1>2
    <3>. QED
      BY <3>1, <2>2, <2>3, <2>4 DEF EachKeyOnce
  <2>5. EachKeyOnce(new)
    BY <2>4 DEF EachKeyOnce
  <2>. QED
    BY <2>1, <2>2, <2>5, <1>2
<1>4. CASE Same(entries, key) # {}
  <2>. PICK l : l = Place(entries, key)
    OBVIOUS
  <2>. PICK new : new = [entries EXCEPT ![l] = e]
    OBVIOUS
  <2>1. l \in Same(entries, key)
    BY <1>4 DEF Place
  <2>2. l \in DOMAIN entries /\ entries[l].key = key
    BY <2>1 DEF Same
  <2>3. Put(entries, key, v) = new
    BY <1>4 DEF Put
  <2>4. /\ new \in Seq([key : PhpKeys, value : V])
        /\ DOMAIN new = DOMAIN entries
        /\ \A j \in DOMAIN entries : new[j] = IF j = l THEN e ELSE entries[j]
    BY <1>1, <2>2, ReplaceFacts
  <2>5. \A j \in DOMAIN entries : new[j].key = entries[j].key
    BY <2>2, <2>4
  <2>6. EachKeyOnce(new)
    BY <2>4, <2>5 DEF EachKeyOnce
  <2>. QED
    BY <2>2, <2>3, <2>4, <2>6, <1>2
<1>. QED
  BY <1>3, <1>4

(* The heap with a field more.                                             *)
LEMMA FieldFacts ==
  ASSUME TypeOK, NEW n \in DOMAIN heap, NEW key \in PhpKeys, NEW v \in Values,
         heap' = [heap EXCEPT ![n].entries = Put(@, key, v)]
  PROVE  /\ heap' \in Seq(HeapNodes)' /\ Len(heap') = Len(heap) /\ DOMAIN heap' = DOMAIN heap
         /\ \A m \in DOMAIN heap :
              KeysDiffer(heap'[m]) /\ heap'[m].class = heap[m].class /\ (m # n => heap'[m] = heap[m])
         /\ heap'[n].entries = Put(heap[n].entries, key, v)
         /\ Place(heap[n].entries, key) \in Nat \ {0}
<1>. PICK entries : entries = Put(heap[n].entries, key, v)
  OBVIOUS
<1>. PICK d : d = [class |-> heap[n].class, entries |-> entries]
  OBVIOUS
<1>1. heap \in Seq(HeapNodes) /\ Len(heap) \in Nat /\ DOMAIN heap = 1 .. Len(heap)
  BY StackFacts DEF TypeOK
<1>2. heap[n] \in HeapNodes /\ heap[n].entries \in Seq([key : PhpKeys, value : Values])
  BY HeapFacts
<1>3. EachKeyOnce(heap[n].entries)
  BY DEF TypeOK, KeysDiffer, EachKeyOnce
<1>4. /\ entries \in Seq([key : PhpKeys, value : Values]) /\ EachKeyOnce(entries)
      /\ Place(heap[n].entries, key) \in Nat \ {0}
  BY <1>2, <1>3, PutFacts
<1>5. d \in HeapNodes /\ [heap[n] EXCEPT !.entries = Put(@, key, v)] = d
  BY <1>2, <1>4 DEF HeapNodes
<1>10. KeysDiffer(d)
  BY <1>4 DEF KeysDiffer, EachKeyOnce
<1>6. heap' = [heap EXCEPT ![n] = d]
  BY <1>5
<1>7. /\ heap' \in Seq(HeapNodes) /\ Len(heap') = Len(heap) /\ DOMAIN heap' = DOMAIN heap
      /\ \A m \in DOMAIN heap : heap'[m] = IF m = n THEN d ELSE heap[m]
  BY <1>1, <1>5, <1>6, ReplaceFacts
<1>8. HeapNodes' = HeapNodes
  BY <1>7 DEF HeapNodes, Values
<1>9. \A m \in DOMAIN heap : KeysDiffer(heap[m])
  BY DEF TypeOK
<1>11. \A m \in DOMAIN heap : KeysDiffer(heap'[m])
  BY <1>7, <1>9, <1>10
<1>. QED
  BY <1>4, <1>7, <1>8, <1>11

(* The heap with a node more.                                              *)
LEMMA MakeFacts ==
  ASSUME TypeOK, NEW class \in ClassNames, Make(class)
  PROVE  /\ heap' \in Seq(HeapNodes)' /\ Len(heap') = Len(heap) + 1 /\ DOMAIN heap' = 1 .. Len(heap) + 1
         /\ \A m \in DOMAIN heap : heap'[m] = heap[m]
         /\ heap'[Len(heap) + 1] = Node(class)
         /\ \A m \in DOMAIN heap' : KeysDiffer(heap'[m])
         /\ applied' \in Seq(Nat) /\ Len(applied') = Len(heap')
         /\ \A m \in DOMAIN heap : applied'[m] = applied[m]
         /\ applied'[Len(heap) + 1] = 0
<1>1. /\ heap \in Seq(HeapNodes) /\ Len(heap) \in Nat /\ DOMAIN heap = 1 .. Len(heap)
      /\ applied \in Seq(Nat) /\ Len(applied) = Len(heap) /\ DOMAIN applied = 1 .. Len(heap)
  BY StackFacts, LenProperties DEF TypeOK
<1>2. Node(class) \in HeapNodes
  BY DEF Node, HeapNodes, ClassNames
<1>3. /\ heap' \in Seq(HeapNodes) /\ Len(heap') = Len(heap) + 1 /\ DOMAIN heap' = 1 .. Len(heap) + 1
      /\ \A m \in DOMAIN heap : heap'[m] = heap[m]
      /\ heap'[Len(heap) + 1] = Node(class)
  BY <1>1, <1>2, AppendFacts DEF Make
<1>4. /\ applied' \in Seq(Nat) /\ Len(applied') = Len(heap) + 1
      /\ \A m \in DOMAIN heap : applied'[m] = applied[m]
      /\ applied'[Len(heap) + 1] = 0
  BY <1>1, AppendFacts DEF Make
<1>5. HeapNodes \subseteq HeapNodes'
  <2>1. DOMAIN heap \subseteq DOMAIN heap'
    BY <1>1, <1>3
  <2>2. Values \subseteq Values'
    BY <2>1 DEF Values
  <2>3. ASSUME NEW d \in HeapNodes PROVE d \in HeapNodes'
    <3>1. /\ d = [class |-> d.class, entries |-> d.entries] /\ d.class \in {"array", "stdClass"}
          /\ d.entries \in Seq([key : PhpKeys, value : Values])
      BY DEF HeapNodes
    <3>2. DOMAIN d.entries = 1 .. Len(d.entries) /\ Len(d.entries) \in Nat
      BY <3>1, LenProperties
    <3>3. \A i \in 1 .. Len(d.entries) : d.entries[i] \in [key : PhpKeys, value : Values']
      <4>1. \A i \in 1 .. Len(d.entries) : d.entries[i] \in [key : PhpKeys, value : Values]
        BY <3>1, <3>2, ElementOfSeq
      <4>. QED
        BY <4>1, <2>2
    <3>4. d.entries \in Seq([key : PhpKeys, value : Values'])
      BY <3>1, <3>3, <2>2, SeqMonotonic
    <3>. QED
      BY <3>1, <3>4 DEF HeapNodes
  <2>. QED
    BY <2>3
<1>6. heap' \in Seq(HeapNodes')
  <2>1. \A m \in 1 .. Len(heap') : heap'[m] \in HeapNodes'
    BY <1>3, <1>5, ElementOfSeq
  <2>. QED
    BY <2>1, <1>3, <1>5, SeqMonotonic
<1>7. ASSUME NEW m \in DOMAIN heap' PROVE KeysDiffer(heap'[m])
  <2>1. CASE m \in DOMAIN heap
    BY <2>1, <1>3 DEF TypeOK
  <2>2. CASE m \notin DOMAIN heap
    <3>1. heap'[m] = Node(class)
      BY <2>2, <1>1, <1>3
    <3>2. DOMAIN heap'[m].entries = {}
      BY <3>1 DEF Node
    <3>. QED
      BY <3>2 DEF KeysDiffer
  <2>. QED
    BY <2>1, <2>2
<1>. QED
  BY <1>3, <1>4, <1>6, <1>7

(* The decoder's part of TypeOK and OneCall.                               *)
DecoderTyped ==
  /\ heap \in Seq(HeapNodes) /\ \A n \in DOMAIN heap : KeysDiffer(heap[n])
  /\ applied \in Seq(Nat) /\ Len(applied) = Len(heap)
  /\ bytes \in [docs : Seq(Seq(BsonElements)), invalid : BOOLEAN]
  /\ \A i \in DOMAIN bytes.docs : IsBson(bytes.docs[i])
  /\ read \in 0 .. Len(bytes.docs)
  /\ iters \in Seq(Iters)
  /\ value \in {NoValue, Null, Fatal} \cup [kind : {"node"}, node : DOMAIN heap]
  /\ read # 0 => /\ made \in [0 .. Len(Doc) -> 0 .. Len(heap)]
                 /\ placed \in [DOMAIN Doc -> Nat]

DecoderCalled ==
  /\ iters # <<>> => value = NoValue /\ read # 0
  /\ iters = <<>> /\ value = NoValue => read = 0
  /\ value.kind = "node" => read # 0 /\ value = Reference(made[0])

DecodingGoesOn ==
  /\ DecoderTyped' /\ DecoderOK' /\ DecoderCalled'
  /\ (\A n \in DOMAIN heap : applied[n] = 0) => (\A n \in DOMAIN heap' : applied'[n] = 0)

(* The calls with the last one moved on, and with it returned.             *)
LEMMA MovedFacts ==
  ASSUME TypeOK, iters # <<>>, NEW p \in Nat, NEW calls, calls = Moved(p)
  PROVE  /\ calls \in Seq(Iters) /\ Len(calls) = Len(iters) /\ DOMAIN calls = DOMAIN iters /\ calls # <<>>
         /\ \A k \in DOMAIN iters :
              /\ calls[k].node = iters[k].node /\ calls[k].at = iters[k].at
              /\ calls[k].pos = IF k = Len(iters) THEN p ELSE iters[k].pos
<1>. PICK f : f = [at |-> Iter.at, pos |-> p, node |-> Iter.node]
  OBVIOUS
<1>1. /\ Len(iters) \in DOMAIN iters /\ Iter = iters[Len(iters)] /\ Len(iters) \in Nat \ {0}
      /\ \A k \in DOMAIN iters : iters[k] \in Iters
  BY IterFacts
<1>2. Iter \in Iters
  BY <1>1
<1>3. f \in Iters /\ [Iter EXCEPT !.pos = p] = f
  BY <1>2 DEF Iters
<1>4. calls = [iters EXCEPT ![Len(iters)] = f]
  BY <1>1, <1>3 DEF Moved
<1>5. iters \in Seq(Iters)
  BY DEF TypeOK
<1>6. /\ calls \in Seq(Iters) /\ Len(calls) = Len(iters) /\ DOMAIN calls = DOMAIN iters
      /\ \A k \in DOMAIN iters : calls[k] = IF k = Len(iters) THEN f ELSE iters[k]
  BY <1>1, <1>3, <1>4, <1>5, ReplaceFacts
<1>7. calls # <<>>
  BY <1>1, <1>6
<1>8. ASSUME NEW k \in DOMAIN iters
      PROVE  /\ calls[k].node = iters[k].node /\ calls[k].at = iters[k].at
             /\ calls[k].pos = IF k = Len(iters) THEN p ELSE iters[k].pos
  BY <1>1, <1>6
<1>. QED
  BY <1>6, <1>7, <1>8

LEMMA MovedNests ==
  ASSUME TypeOK, read # 0, iters # <<>>, ItersNest, NEW p \in DOMAIN Doc, After(p), NEW calls, calls = Moved(p)
  PROVE  /\ CallsNest(calls) /\ calls[Len(calls)].at = Doc[p].in /\ calls[Len(calls)].pos = p
         /\ Iter.at < p /\ made[Iter.at] = Iter.node /\ Iter.node \in DOMAIN heap /\ Iter.at = Doc[p].in
         /\ Iter.pos < p /\ Iter.pos \in Nat
<1>1. /\ Len(iters) \in DOMAIN iters /\ Iter = iters[Len(iters)] /\ Len(iters) \in Nat \ {0}
      /\ DOMAIN iters = 1 .. Len(iters)
      /\ \A k \in DOMAIN iters : iters[k] \in Iters
  BY IterFacts
<1>2. /\ p \in 0 .. Len(Doc) /\ p # 0 /\ Doc[p].in = Iter.at /\ p > Iter.pos
      /\ Doc[p].in < p
  BY DocFacts DEF After
<1>3. p \in Nat /\ Iter.at \in Nat /\ Iter.pos \in Nat /\ Iter.node \in DOMAIN heap
  BY <1>1, <1>2 DEF Iters
<1>4. /\ Len(calls) = Len(iters) /\ DOMAIN calls = DOMAIN iters
      /\ \A k \in DOMAIN iters :
              /\ calls[k].node = iters[k].node /\ calls[k].at = iters[k].at
              /\ calls[k].pos = IF k = Len(iters) THEN p ELSE iters[k].pos
  BY <1>3, MovedFacts
<1>5. CallsNest(iters)
  BY DEF ItersNest
<1>6. made[Iter.at] = Iter.node
  BY <1>1, <1>5 DEF CallsNest
<1>7. 1 \in DOMAIN iters /\ calls[1].at = 0
  BY <1>1, <1>4, <1>5 DEF CallsNest
<1>8. ASSUME NEW k \in DOMAIN iters
      PROVE  /\ calls[k].at \in 0 .. Len(Doc) /\ calls[k].pos \in 0 .. Len(Doc)
             /\ made[calls[k].at] = calls[k].node
             /\ k > 1 => /\ calls[k].at # 0
                         /\ calls[k].at = calls[k - 1].pos
                         /\ Doc[calls[k].at].in = calls[k - 1].at
                         /\ Doc[calls[k].at].type \in Nested
             /\ calls[k].pos # calls[k].at => calls[k].pos # 0 /\ Doc[calls[k].pos].in = calls[k].at
             /\ calls[k].at <= calls[k].pos
  <2>1. k > 1 => k - 1 \in DOMAIN iters /\ k - 1 # Len(iters)
    BY <1>1
  <2>2. /\ iters[k].at \in 0 .. Len(Doc) /\ iters[k].pos \in 0 .. Len(Doc)
        /\ made[iters[k].at] = iters[k].node
        /\ k > 1 => /\ iters[k].at # 0
                    /\ iters[k].at = iters[k - 1].pos
                    /\ Doc[iters[k].at].in = iters[k - 1].at
                    /\ Doc[iters[k].at].type \in Nested
        /\ iters[k].pos # iters[k].at => iters[k].pos # 0 /\ Doc[iters[k].pos].in = iters[k].at
        /\ iters[k].at <= iters[k].pos
    BY <1>5 DEF CallsNest
  <2>3. CASE k = Len(iters)
    BY <2>1, <2>2, <2>3, <1>1, <1>2, <1>3, <1>4
  <2>4. CASE k # Len(iters)
    BY <2>1, <2>2, <2>4, <1>1, <1>4
  <2>. QED
    BY <2>3, <2>4
<1>9. \A j, k \in DOMAIN iters : j < k => calls[j].at < calls[k].at
  BY <1>4, <1>5 DEF CallsNest
<1>10. CallsNest(calls)
  BY <1>4, <1>7, <1>8, <1>9 DEF CallsNest
<1>. QED
  BY <1>1, <1>2, <1>3, <1>4, <1>6, <1>10

LEMMA PoppedNests ==
  ASSUME TypeOK, read # 0, ItersNest, Len(iters) > 1, NEW calls, calls = Pop(iters)
  PROVE  /\ calls \in Seq(Iters) /\ calls # <<>> /\ Len(calls) = Len(iters) - 1 /\ DOMAIN calls = 1 .. Len(iters) - 1
         /\ \A k \in DOMAIN calls : k \in DOMAIN iters /\ calls[k] = iters[k]
         /\ CallsNest(calls) /\ Iter.at \in DOMAIN Doc /\ Doc[Iter.at].in = calls[Len(calls)].at
         /\ Iter.at = calls[Len(calls)].pos /\ Doc[Iter.at].type \in Nested
         /\ made[Iter.at] = Iter.node /\ Iter.node \in DOMAIN heap
<1>0. iters # <<>>
  OBVIOUS
<1>1. /\ Len(iters) \in DOMAIN iters /\ Iter = iters[Len(iters)] /\ Len(iters) \in Nat \ {0}
      /\ DOMAIN iters = 1 .. Len(iters)
      /\ \A k \in DOMAIN iters : iters[k] \in Iters
  BY <1>0, IterFacts
<1>2. iters \in Seq(Iters)
  BY DEF TypeOK
<1>3. /\ calls \in Seq(Iters) /\ Len(calls) = Len(iters) - 1 /\ DOMAIN calls = 1 .. Len(iters) - 1
      /\ \A k \in 1 .. Len(iters) - 1 : calls[k] = iters[k]
  BY <1>0, <1>2, PopFacts
<1>4. calls # <<>> /\ \A k \in DOMAIN calls : k \in DOMAIN iters /\ calls[k] = iters[k]
  BY <1>1, <1>3
<1>5. CallsNest(iters) /\ Len(Doc) \in Nat /\ DOMAIN Doc = 1 .. Len(Doc)
  BY DocFacts DEF ItersNest
<1>6. /\ Iter.at # 0 /\ Iter.at \in 0 .. Len(Doc) /\ Doc[Iter.at].type \in Nested
      /\ Iter.at = iters[Len(iters) - 1].pos /\ Doc[Iter.at].in = iters[Len(iters) - 1].at
      /\ made[Iter.at] = Iter.node
  BY <1>1, <1>5 DEF CallsNest
<1>7. Iter.node \in DOMAIN heap
  BY <1>1 DEF Iters
<1>8. \A k \in DOMAIN calls : k > 1 => k - 1 \in DOMAIN calls
  BY <1>1, <1>3
<1>9. 1 \in DOMAIN calls /\ Len(iters) - 1 \in DOMAIN calls
  BY <1>1, <1>3
<1>10. CallsNest(calls)
  <2>1. calls[1].at = 0
    BY <1>0, <1>4, <1>5, <1>9 DEF CallsNest
  <2>2. ASSUME NEW k \in DOMAIN calls
        PROVE  /\ calls[k].at \in 0 .. Len(Doc) /\ calls[k].pos \in 0 .. Len(Doc)
               /\ made[calls[k].at] = calls[k].node
               /\ k > 1 => /\ calls[k].at # 0
                           /\ calls[k].at = calls[k - 1].pos
                           /\ Doc[calls[k].at].in = calls[k - 1].at
                           /\ Doc[calls[k].at].type \in Nested
               /\ calls[k].pos # calls[k].at => calls[k].pos # 0 /\ Doc[calls[k].pos].in = calls[k].at
               /\ calls[k].at <= calls[k].pos
    <3>1. k \in DOMAIN iters /\ calls[k] = iters[k] /\ (k > 1 => calls[k - 1] = iters[k - 1])
      BY <1>4, <1>8
    <3>. QED
      BY <3>1, <1>5 DEF CallsNest
  <2>3. \A j, k \in DOMAIN calls : j < k => calls[j].at < calls[k].at
    BY <1>4, <1>5 DEF CallsNest
  <2>. QED
    BY <2>1, <2>2, <2>3 DEF CallsNest
<1>. QED
  BY <1>3, <1>4, <1>5, <1>6, <1>7, <1>9, <1>10

(* The field of p is added to a node.                                      *)
Added(n, p, key, v) ==
  /\ DOMAIN heap' = DOMAIN heap
  /\ \A m \in DOMAIN heap : heap'[m].class = heap[m].class /\ (m # n => heap'[m] = heap[m])
  /\ heap'[n].entries = Put(heap[n].entries, key, v)
  /\ placed'[p] = Place(heap[n].entries, key) /\ placed'[p] # 0
  /\ \A q \in DOMAIN Doc : q # p => placed'[q] = placed[q]

(* The same, when the place of the field is kept.                           *)
LEMMA PlacedFieldFacts ==
  ASSUME TypeOK, NEW n \in DOMAIN heap, NEW key \in PhpKeys, NEW v \in Values, NEW p \in DOMAIN Doc,
         placed \in [DOMAIN Doc -> Nat],
         heap' = [heap EXCEPT ![n].entries = Put(@, key, v)],
         placed' = [placed EXCEPT ![p] = Place(heap[n].entries, key)]
  PROVE  /\ heap' \in Seq(HeapNodes)' /\ Len(heap') = Len(heap) /\ DOMAIN heap' = DOMAIN heap
         /\ \A m \in DOMAIN heap : KeysDiffer(heap'[m])
         /\ placed' \in [DOMAIN Doc -> Nat] /\ Added(n, p, key, v)
<1>1. /\ heap' \in Seq(HeapNodes)' /\ Len(heap') = Len(heap) /\ DOMAIN heap' = DOMAIN heap
      /\ \A m \in DOMAIN heap :
           KeysDiffer(heap'[m]) /\ heap'[m].class = heap[m].class /\ (m # n => heap'[m] = heap[m])
      /\ heap'[n].entries = Put(heap[n].entries, key, v)
      /\ Place(heap[n].entries, key) \in Nat \ {0}
  BY FieldFacts, Zenon
<1>2. PICK i \in Nat : i = Place(heap[n].entries, key) /\ i # 0
  BY <1>1
<1>3. placed' = [placed EXCEPT ![p] = i]
  BY <1>2
<1>4. /\ placed' \in [DOMAIN Doc -> Nat] /\ placed'[p] = i
      /\ \A q \in DOMAIN Doc : q # p => placed'[q] = placed[q]
  BY <1>3
<1>. QED
  BY <1>1, <1>2, <1>4 DEF Added

LEMMA AddFieldFacts ==
  ASSUME TypeOK, read # 0, NEW calls \in Seq(Iters), NEW p \in DOMAIN Doc, NEW v \in Values,
         NEW n \in DOMAIN heap, n = calls[Len(calls)].node,
         NEW key, key = PhpKey(heap[n].class, Doc[p].name),
         AddField(calls, p, v), UNCHANGED <<applied, bytes, read, made>>
  PROVE  /\ key \in PhpKeys /\ DecoderTyped' /\ DOMAIN heap' = DOMAIN heap
         /\ \A m \in DOMAIN heap : heap'[m].class = heap[m].class
         /\ \/ value' = Fatal /\ iters' = <<>>
            \/ value' = value /\ iters' = calls /\ Added(n, p, key, v)
<1>1. key \in PhpKeys
  <2>1. Doc[p].name \in BsonNames
    BY DocFacts
  <2>. QED
    BY <2>1, PhpKeyFacts
<1>2. CASE value' = Fatal /\ iters' = <<>> /\ UNCHANGED <<heap, placed>>
  <2>1. DecoderTyped'
    <3>1. iters' \in Seq(Iters') /\ HeapNodes' = HeapNodes
      BY <1>2 DEF HeapNodes, Values
    <3>2. Doc' = Doc /\ value' \in {NoValue, Null, Fatal}
      BY <1>2 DEF Doc
    <3>. QED
      BY <3>1, <3>2, <1>2 DEF DecoderTyped, TypeOK
  <2>. QED
    BY <2>1, <1>1, <1>2
<1>3. CASE /\ heap' = [heap EXCEPT ![n].entries = Put(@, key, v)]
           /\ placed' = [placed EXCEPT ![p] = Place(heap[n].entries, key)]
           /\ iters' = calls
           /\ UNCHANGED value
  <2>6. placed \in [DOMAIN Doc -> Nat]
    BY MadeFacts
  <2>1. /\ heap' \in Seq(HeapNodes)' /\ Len(heap') = Len(heap) /\ DOMAIN heap' = DOMAIN heap
        /\ \A m \in DOMAIN heap : KeysDiffer(heap'[m])
        /\ placed' \in [DOMAIN Doc -> Nat] /\ Added(n, p, key, v)
    BY <2>6, <1>1, <1>3, PlacedFieldFacts, Zenon
  <2>2. iters' \in Seq(Iters')
    <3>1. Iters' = Iters
      BY <2>1 DEF Iters
    <3>. QED
      BY <3>1, <1>3
  <2>4. Doc' = Doc
    BY DEF Doc
  <2>5. DecoderTyped'
    BY <2>1, <2>2, <2>4, <1>3 DEF DecoderTyped, TypeOK
  <2>7. \A m \in DOMAIN heap : heap'[m].class = heap[m].class
    BY <2>1 DEF Added
  <2>. QED
    BY <2>1, <2>5, <2>7, <1>1, <1>3
<1>. QED
  BY <1>2, <1>3 DEF AddField

(* A field that is added is placed behind all others of its node.          *)
LEMMA AddPlaces ==
  ASSUME TypeOK, read # 0, value # Fatal, MadeOnce, PlacedRight, NEW p \in DOMAIN Doc, NEW v \in Values,
         NEW n \in DOMAIN heap, n = made[Doc[p].in], NEW key, key = PhpKey(heap[n].class, Doc[p].name),
         bytes' = bytes, read' = read, made' = made, Added(n, p, key, v),
         IsClean(Doc) => /\ v = ValueOf(p) /\ placed[p] = 0
                         /\ Doc[p].type \in Encodable \cup Nested
                         /\ Doc[p].type \in Nested => made[p] # 0
                         /\ \A q \in DOMAIN Doc : Doc[q].in = Doc[p].in /\ placed[q] # 0 => q < p
  PROVE  PlacedRight'
<1>0. Doc' = Doc
  BY DEF Doc
<1>. SUFFICES ASSUME IsClean(Doc)
             PROVE  PlacedRight'
  BY <1>0 DEF PlacedRight, DecodesCleanly, IsClean, HasPlainNames, StopsVisiting
<1>. PICK entries : entries = heap[n].entries
  OBVIOUS
<1>. PICK in : in = Doc[p].in
  OBVIOUS
<1>. PICK new : new = [key |-> key, value |-> v]
  OBVIOUS
<1>. PICK added : added = Append(entries, new)
  OBVIOUS
<1>1. /\ entries \in Seq([key : PhpKeys, value : Values]) /\ Len(entries) \in Nat
      /\ DOMAIN entries = 1 .. Len(entries)
  BY HeapFacts
<1>2. /\ \A q \in DOMAIN Doc : Doc[q].name \in BsonNames
      /\ in \in 0 .. Len(Doc)
      /\ Len(Doc) \in Nat /\ DOMAIN Doc = 1 .. Len(Doc)
  BY DocFacts
<1>3. key \in PhpKeys /\ \A q \in DOMAIN Doc : PhpKey(heap[n].class, Doc[q].name) = key => Doc[q].name = Doc[p].name
  BY <1>2, PhpKeyFacts
<1>4. /\ \A q \in DOMAIN Doc : placed[q] # 0 => IsPlacedRight(q)
      /\ \A q \in 0 .. Len(Doc) : made[q] # 0 =>
           \A e \in DOMAIN heap[made[q]].entries : \E r \in DOMAIN Doc : Doc[r].in = q /\ placed[r] = e
      /\ \A r, q \in DOMAIN Doc :
           r < q /\ Doc[r].in = Doc[q].in /\ placed[r] # 0 /\ placed[q] # 0 => placed[r] < placed[q]
  BY DEF PlacedRight, DecodesCleanly
<1>5. /\ n # 0
      /\ \A q \in 0 .. Len(Doc) : made[q] # 0 => made[q] \in DOMAIN heap
      /\ \A q \in DOMAIN Doc : placed[q] \in Nat
      /\ placed \in [DOMAIN Doc -> Nat]
  <2>1. n # 0
    BY StackFacts
  <2>2. /\ \A q \in 0 .. Len(Doc) : made[q] # 0 => made[q] \in DOMAIN heap
        /\ \A q \in DOMAIN Doc : placed[q] \in Nat
        /\ placed \in [DOMAIN Doc -> Nat]
    BY MadeFacts
  <2>. QED
    BY <2>1, <2>2
<1>6. Same(entries, key) = {}
  <2>. SUFFICES ASSUME NEW i \in DOMAIN entries, entries[i].key = key
               PROVE  FALSE
    BY DEF Same
  <2>5. in \in 0 .. Len(Doc) /\ made[in] = n /\ made[in] # 0
    BY <1>2, <1>5
  <2>6. i \in DOMAIN heap[made[in]].entries
    BY <2>5
  <2>1. PICK r \in DOMAIN Doc : Doc[r].in = in /\ placed[r] = i
    BY <2>5, <2>6, <1>4
  <2>2. placed[r] # 0
    BY <2>1, <1>1
  <2>3. entries[i].key = PhpKey(heap[n].class, Doc[r].name)
    <3>1. n = made[Doc[r].in]
      BY <2>1
    <3>2. heap[made[Doc[r].in]].entries[placed[r]] =
            [key |-> PhpKey(heap[made[Doc[r].in]].class, Doc[r].name), value |-> ValueOf(r)]
      BY <2>2, <1>4 DEF IsPlacedRight
    <3>3. entries[i] = [key |-> PhpKey(heap[n].class, Doc[r].name), value |-> ValueOf(r)]
      BY <2>1, <3>1, <3>2
    <3>. QED
      BY <3>3
  <2>4. Doc[r].name = Doc[p].name /\ r < p
    BY <2>1, <2>2, <2>3, <1>3
  <2>. QED
    BY <2>1, <2>4 DEF IsClean, HasPlainNames, StopsVisiting, Siblings
<1>7. /\ Put(entries, key, v) = added /\ Place(entries, key) = Len(entries) + 1
  BY <1>6 DEF Put, Place
<1>8. /\ heap'[n].entries = added /\ DOMAIN heap' = DOMAIN heap
      /\ \A m \in DOMAIN heap : heap'[m].class = heap[m].class /\ (m # n => heap'[m] = heap[m])
  BY <1>7 DEF Added
<1>9. /\ DOMAIN heap'[n].entries = 1 .. Len(entries) + 1
      /\ \A i \in DOMAIN entries : heap'[n].entries[i] = entries[i]
      /\ heap'[n].entries[Len(entries) + 1] = new
  <2>1. new \in [key : PhpKeys, value : Values]
    BY <1>3
  <2>2. /\ DOMAIN added = 1 .. Len(entries) + 1
        /\ \A i \in DOMAIN entries : added[i] = entries[i]
        /\ added[Len(entries) + 1] = new
    BY <2>1, <1>1, AppendFacts
  <2>3. heap'[n].entries = added
    BY <1>8
  <2>. QED
    BY <2>2, <2>3, Zenon
<1>10. placed'[p] = Len(entries) + 1 /\ \A q \in DOMAIN Doc : q # p => placed'[q] = placed[q]
  BY <1>7 DEF Added
<1>11. \A q : ValueOf(q)' = ValueOf(q)
  BY <1>0 DEF ValueOf
<1>12. ASSUME NEW q \in DOMAIN Doc, placed'[q] # 0
       PROVE  IsPlacedRight(q)'
  <2>1. CASE q = p
    <3>0. Len(entries) + 1 \in 1 .. Len(entries) + 1 /\ placed'[q] = Len(entries) + 1
      BY <2>1, <1>1, <1>10
    <3>1. placed'[q] \in DOMAIN heap'[n].entries /\ heap'[n].entries[placed'[q]] = new
      BY <3>0, <1>9
    <3>2. heap'[n].class = heap[n].class /\ made'[Doc'[q].in] = n /\ Doc'[q] = Doc[q] /\ made'[q] = made[q]
      BY <2>1, <1>0, <1>8
    <3>. QED
      BY <3>1, <3>2, <2>1, <1>5, <1>11 DEF IsPlacedRight
  <2>2. CASE q # p
    <3>. PICK m : m = made[Doc[q].in]
      OBVIOUS
    <3>1. placed'[q] = placed[q] /\ IsPlacedRight(q)
      BY <2>2, <1>4, <1>10, <1>12
    <3>2. made'[Doc'[q].in] = m /\ Doc'[q] = Doc[q] /\ made'[q] = made[q]
      BY <1>0
    <3>3. /\ m # 0 /\ Doc[q].type \in Encodable \cup Nested
          /\ Doc[q].type \in Nested => made[q] # 0
          /\ placed[q] \in DOMAIN heap[m].entries
          /\ heap[m].entries[placed[q]] = [key |-> PhpKey(heap[m].class, Doc[q].name), value |-> ValueOf(q)]
      BY <3>1 DEF IsPlacedRight
    <3>4. m \in DOMAIN heap
      <4>1. Doc[q].in \in 0 .. Len(Doc)
        BY DocFacts
      <4>. QED
        BY <4>1, <3>3, <1>5
    <3>5. /\ placed[q] \in DOMAIN heap'[m].entries
          /\ heap'[m].entries[placed[q]] = heap[m].entries[placed[q]]
          /\ heap'[m].class = heap[m].class
      <4>1. CASE m = n
        <5>1. placed[q] \in DOMAIN entries
          BY <4>1, <3>3
        <5>3. placed[q] \in 1 .. Len(entries) + 1
          BY <5>1, <1>1
        <5>2. placed[q] \in DOMAIN heap'[n].entries /\ heap'[n].entries[placed[q]] = entries[placed[q]]
          BY <5>1, <5>3, <1>9, Zenon
        <5>. QED
          BY <5>2, <4>1, <1>8
      <4>2. CASE m # n
        BY <4>2, <3>3, <3>4, <1>8
      <4>. QED
        BY <4>1, <4>2
    <3>. QED
      BY <3>1, <3>2, <3>3, <3>5, <1>11 DEF IsPlacedRight
  <2>. QED
    BY <2>1, <2>2
<1>13. ASSUME NEW q \in 0 .. Len(Doc), made[q] # 0, NEW e \in DOMAIN heap'[made[q]].entries
       PROVE  \E r \in DOMAIN Doc : Doc[r].in = q /\ placed'[r] = e
  <2>1. ASSUME e \in DOMAIN heap[made[q]].entries
        PROVE  \E r \in DOMAIN Doc : Doc[r].in = q /\ placed'[r] = e
    <3>1. PICK r \in DOMAIN Doc : Doc[r].in = q /\ placed[r] = e
      BY <2>1, <1>4, <1>13
    <3>2. e # 0
      <4>1. made[q] \in DOMAIN heap
        BY <1>5, <1>13
      <4>. QED
        BY <4>1, <2>1, HeapFacts
    <3>. QED
      BY <3>1, <3>2, <1>10
  <2>2. CASE made[q] = n
    <3>1. q = in
      BY <2>2, <1>2, <1>5 DEF MadeOnce
    <3>2. e = Len(entries) + 1 \/ e \in DOMAIN entries
      <4>1. e \in 1 .. Len(entries) + 1
        BY <2>2, <1>13, <1>9
      <4>. QED
        BY <4>1, <1>1
    <3>3. CASE e = Len(entries) + 1
      BY <3>1, <3>3, <1>10
    <3>4. CASE e \in DOMAIN entries
      BY <3>4, <2>1, <2>2
    <3>. QED
      BY <3>2, <3>3, <3>4
  <2>3. CASE made[q] # n
    BY <2>1, <2>3, <1>5, <1>8, <1>13
  <2>. QED
    BY <2>2, <2>3
<1>14. ASSUME NEW r \in DOMAIN Doc, NEW q \in DOMAIN Doc, r < q, Doc[r].in = Doc[q].in,
              placed'[r] # 0, placed'[q] # 0
       PROVE  placed'[r] < placed'[q]
  <2>1. CASE q = p
    <3>1. placed'[r] = placed[r] /\ r # p
      BY <2>1, <1>2, <1>10, <1>14
    <3>2. made[Doc[r].in] = n
      BY <2>1, <1>14
    <3>3. placed[r] \in DOMAIN heap[made[Doc[r].in]].entries
      BY <3>1, <1>4, <1>14 DEF IsPlacedRight
    <3>4. placed[r] \in DOMAIN entries
      BY <3>2, <3>3
    <3>. QED
      BY <3>1, <3>4, <2>1, <1>1, <1>10
  <2>2. CASE q # p /\ r = p
    <3>1. placed[q] # 0 /\ Doc[q].in = Doc[p].in
      BY <2>2, <1>10, <1>14
    <3>2. q < p
      BY <3>1
    <3>. QED
      BY <3>2, <2>2, <1>2, <1>14
  <2>3. CASE q # p /\ r # p
    BY <2>3, <1>4, <1>10, <1>14
  <2>. QED
    BY <2>1, <2>2, <2>3
<1>. QED
  BY <1>0, <1>12, <1>13, <1>14 DEF PlacedRight

(* What stays so while nothing is made, whatever the calls are then.       *)
LEMMA NestStays ==
  ASSUME UNCHANGED <<bytes, read, made>>, NEW calls, CallsNest(calls), iters' = calls \/ iters' = <<>>
  PROVE  ItersNest'
<1>1. CASE iters' = calls
  BY <1>1 DEF ItersNest, CallsNest, Doc
<1>2. CASE iters' = <<>>
  BY <1>2 DEF ItersNest, CallsNest
<1>. QED
  BY <1>1, <1>2

LEMMA MadeStays ==
  ASSUME TypeOK, read # 0, MadeOnce, UNCHANGED <<bytes, read, made>>,
         \A m \in DOMAIN heap : heap'[m].class = heap[m].class,
         \A k \in DOMAIN iters' : \A p \in DOMAIN Doc :
           Doc[p].in = iters'[k].at /\ p > iters'[k].pos => made[p] = 0
  PROVE  MadeOnce'
<1>1. Doc' = Doc
  BY DEF Doc
<1>2. \A p \in 0 .. Len(Doc) : made[p] # 0 => made[p] \in DOMAIN heap
  BY MadeFacts
<1>. QED
  BY <1>1, <1>2 DEF MadeOnce

(* The open elements are those before the last call's in its document's    *)
(* path.                                                                   *)
LEMMA OpenFacts ==
  ASSUME TypeOK, read # 0, iters # <<>>, ItersNest, NEW q \in Nat, IsOpen(q)
  PROVE  q <= Iter.at /\ q <= Iter.pos
<1>1. PICK k \in DOMAIN iters : iters[k].at = q
  BY DEF IsOpen
<1>2. Len(iters) \in DOMAIN iters /\ Iter = iters[Len(iters)] /\ DOMAIN iters = 1 .. Len(iters) /\ Len(iters) \in Nat
  BY IterFacts
<1>3. \A i \in DOMAIN iters : iters[i].at \in Nat /\ iters[i].pos \in Nat
  BY IterFacts DEF Iters
<1>4. /\ \A i, j \in DOMAIN iters : i < j => iters[i].at < iters[j].at
      /\ iters[Len(iters)].at <= iters[Len(iters)].pos
  BY <1>2 DEF ItersNest, CallsNest
<1>5. iters[k].at <= iters[Len(iters)].at
  BY <1>2, <1>3, <1>4
<1>. QED
  BY <1>1, <1>2, <1>3, <1>4, <1>5

(* Two calls are not in one document.                                      *)
LEMMA OneCallEach ==
  ASSUME TypeOK, read # 0, NEW calls \in Seq(Iters), CallsNest(calls), NEW j \in DOMAIN calls, NEW k \in DOMAIN calls,
         calls[j].at = calls[k].at
  PROVE  j = k
<1>1. DOMAIN calls = 1 .. Len(calls) /\ Len(calls) \in Nat
  BY LenProperties
<1>2. \A i \in DOMAIN calls : calls[i] \in Iters
  BY <1>1, ElementOfSeq
<1>3. calls[j].at \in Nat /\ calls[k].at \in Nat
  BY <1>2 DEF Iters
<1>4. ~(j < k) /\ ~(k < j)
  BY <1>3 DEF CallsNest
<1>. QED
  BY <1>1, <1>4

(* The next element, before it is visited.                                 *)
LEMMA NextFacts ==
  ASSUME TypeOK, read # 0, iters # <<>>, DecoderOK, NEW p \in DOMAIN Doc, IsNext(p), NEW calls, calls = Moved(p)
  PROVE  /\ made[p] = 0 /\ ~IsOpen(p)
         /\ \A k \in DOMAIN calls : \A q \in DOMAIN Doc :
              Doc[q].in = calls[k].at /\ q > calls[k].pos => made[q] = 0 /\ q # p
         /\ DecodesCleanly =>
              /\ placed[p] = 0
              /\ \A q \in DOMAIN Doc : Doc[q].in = Doc[p].in /\ placed[q] # 0 => q < p
              /\ \A k \in DOMAIN calls : \A q \in DOMAIN Doc :
                   Doc[q].in = calls[k].at /\ q # p =>
                     /\ placed[q] # 0 => q <= calls[k].pos /\ ~IsOpen(q)
                     /\ q <= calls[k].pos /\ Doc[q].type # "unsupported" /\ ~IsOpen(q) => placed[q] # 0
              /\ \A k \in DOMAIN calls : Doc[p].in = calls[k].at => calls[k].pos = p
<1>1. /\ After(p) /\ \A q \in DOMAIN Doc : After(q) => p <= q
      /\ ItersNest /\ MadeOnce /\ VisitedIsPlaced
  BY DEF IsNext, DecoderOK
<1>2. /\ CallsNest(calls) /\ calls[Len(calls)].at = Doc[p].in /\ calls[Len(calls)].pos = p
      /\ Iter.at < p /\ Iter.at = Doc[p].in /\ Iter.pos < p /\ Iter.pos \in Nat
  BY <1>1, MovedNests
<1>3. /\ Len(Doc) \in Nat /\ DOMAIN Doc = 1 .. Len(Doc)
  BY DocFacts
<1>4. /\ calls \in Seq(Iters) /\ Len(calls) = Len(iters) /\ DOMAIN calls = DOMAIN iters
      /\ \A k \in DOMAIN iters :
           /\ calls[k].at = iters[k].at
           /\ calls[k].pos = IF k = Len(iters) THEN p ELSE iters[k].pos
  BY <1>3, MovedFacts
<1>5. /\ Len(iters) \in DOMAIN iters /\ Iter = iters[Len(iters)]
      /\ \A k \in DOMAIN iters : iters[k] \in Iters
  BY IterFacts
<1>6. \A k \in DOMAIN iters : iters[k].pos \in Nat
  BY <1>5 DEF Iters
<1>7. made[p] = 0
  BY <1>1, <1>2, <1>3, <1>5 DEF MadeOnce
<1>8. ~IsOpen(p)
  BY <1>1, <1>2, <1>3, OpenFacts
<1>9. ASSUME NEW k \in DOMAIN calls, Doc[p].in = calls[k].at
      PROVE  k = Len(iters) /\ calls[k].pos = p
  <2>1. Len(iters) \in DOMAIN calls /\ calls[Len(iters)].at = calls[k].at
    BY <1>2, <1>4, <1>5, <1>9
  <2>. QED
    BY <2>1, <1>2, <1>4, <1>9, OneCallEach
<1>10. ASSUME NEW k \in DOMAIN calls, NEW q \in DOMAIN Doc, Doc[q].in = calls[k].at, q > calls[k].pos
       PROVE  made[q] = 0 /\ q # p
  <2>1. q > iters[k].pos
    BY <1>2, <1>3, <1>4, <1>5, <1>6, <1>10
  <2>2. q # p
    BY <1>3, <1>9, <1>10
  <2>. QED
    BY <2>1, <2>2, <1>1, <1>4, <1>10 DEF MadeOnce
<1>11. ASSUME DecodesCleanly
       PROVE  placed[p] = 0 /\ \A q \in DOMAIN Doc : Doc[q].in = Doc[p].in /\ placed[q] # 0 => q < p
  <2>1. ASSUME NEW q \in DOMAIN Doc, Doc[q].in = Doc[p].in, placed[q] # 0
        PROVE  q < p
    <3>1. q <= iters[Len(iters)].pos
      BY <2>1, <1>1, <1>2, <1>5, <1>11 DEF VisitedIsPlaced
    <3>. QED
      BY <3>1, <1>2, <1>3, <1>5
  <2>. QED
    BY <2>1, <1>3
<1>12. ASSUME DecodesCleanly, NEW k \in DOMAIN calls, NEW q \in DOMAIN Doc, Doc[q].in = calls[k].at, q # p
       PROVE  /\ placed[q] # 0 => q <= calls[k].pos /\ ~IsOpen(q)
              /\ q <= calls[k].pos /\ Doc[q].type # "unsupported" /\ ~IsOpen(q) => placed[q] # 0
  <2>1. /\ placed[q] # 0 => q <= iters[k].pos /\ ~IsOpen(q)
        /\ q <= iters[k].pos /\ Doc[q].type # "unsupported" /\ ~IsOpen(q) => placed[q] # 0
    BY <1>1, <1>4, <1>12 DEF VisitedIsPlaced
  <2>2. CASE k # Len(iters)
    BY <2>1, <2>2, <1>4, <1>12
  <2>3. CASE k = Len(iters)
    <3>1. After(q) => p <= q
      BY <1>1
    <3>2. q <= p => q <= iters[k].pos
      BY <3>1, <2>3, <1>2, <1>3, <1>4, <1>5, <1>12 DEF After
    <3>. QED
      BY <3>2, <2>1, <2>3, <1>2, <1>3, <1>4, <1>5
  <2>. QED
    BY <2>2, <2>3
<1>. QED
  BY <1>7, <1>8, <1>9, <1>10, <1>11, <1>12

(* The script ends.                                                        *)
LEMMA FatalStops ==
  ASSUME TypeOK, read # 0, MadeOnce, UNCHANGED <<bytes, read, made>>,
         \A m \in DOMAIN heap : heap'[m].class = heap[m].class,
         value' = Fatal, iters' = <<>>
  PROVE  DecoderOK' /\ DecoderCalled'
<1>1. ItersNest'
  BY DEF ItersNest, CallsNest
<1>2. MadeOnce'
  BY MadeStays
<1>3. PlacedRight' /\ VisitedIsPlaced'
  BY DEF PlacedRight, VisitedIsPlaced, DecodesCleanly
<1>4. DecoderCalled'
  BY DEF DecoderCalled, Fatal, NoValue
<1>. QED
  BY <1>1, <1>2, <1>3, <1>4 DEF DecoderOK

LEMMA VisitLeafStep ==
  ASSUME TypeOK, DecoderOK, DecoderCalled, NEW p \in DOMAIN Doc, VisitLeaf(p)
  PROVE  DecodingGoesOn
<1>1. /\ IsNext(p) /\ iters # <<>> /\ After(p) /\ Doc[p].type \in Encodable
      /\ AddField(Moved(p), p, Leaf(Doc[p].type))
      /\ UNCHANGED <<applied, bytes, read, made>>
  BY DEF VisitLeaf, IsNext
<1>2. read # 0 /\ value = NoValue
  BY <1>1 DEF DecoderCalled
<1>3. ItersNest /\ MadeOnce /\ PlacedRight /\ VisitedIsPlaced
  BY DEF DecoderOK
<1>. PICK calls : calls = Moved(p)
  OBVIOUS
<1>. PICK v : v = Leaf(Doc[p].type)
  OBVIOUS
<1>. PICK n : n = Iter.node
  OBVIOUS
<1>. PICK key : key = PhpKey(heap[n].class, Doc[p].name)
  OBVIOUS
<1>4. /\ Len(Doc) \in Nat /\ DOMAIN Doc = 1 .. Len(Doc) /\ p \in Nat
  BY <1>2, DocFacts
<1>5. /\ calls \in Seq(Iters) /\ Len(calls) = Len(iters) /\ DOMAIN calls = DOMAIN iters /\ calls # <<>>
      /\ \A k \in DOMAIN iters : calls[k].node = iters[k].node /\ calls[k].at = iters[k].at
  BY <1>1, <1>4, MovedFacts
<1>6. /\ CallsNest(calls) /\ made[Doc[p].in] = n /\ n \in DOMAIN heap /\ n = calls[Len(calls)].node
  BY <1>1, <1>2, <1>3, <1>5, MovedNests, IterFacts
<1>7. v \in Values /\ v = ValueOf(p)
  BY <1>1 DEF Leaf, Values, LeafKinds, ValueOf, Encodable, Nested
<1>8. /\ DecoderTyped' /\ DOMAIN heap' = DOMAIN heap
      /\ \A m \in DOMAIN heap : heap'[m].class = heap[m].class
      /\ \/ value' = Fatal /\ iters' = <<>>
         \/ value' = value /\ iters' = calls /\ Added(n, p, key, v)
  BY <1>1, <1>2, <1>5, <1>6, <1>7, AddFieldFacts
<1>9. CASE value' = Fatal /\ iters' = <<>>
  <2>1. DecoderOK' /\ DecoderCalled'
    BY <1>1, <1>2, <1>3, <1>8, <1>9, FatalStops
  <2>. QED
    BY <2>1, <1>1, <1>8 DEF DecodingGoesOn
<1>10. CASE value' = value /\ iters' = calls /\ Added(n, p, key, v)
  <2>1. /\ made[p] = 0 /\ ~IsOpen(p)
        /\ \A k \in DOMAIN calls : \A q \in DOMAIN Doc :
             Doc[q].in = calls[k].at /\ q > calls[k].pos => made[q] = 0 /\ q # p
        /\ DecodesCleanly =>
             /\ placed[p] = 0
             /\ \A q \in DOMAIN Doc : Doc[q].in = Doc[p].in /\ placed[q] # 0 => q < p
             /\ \A k \in DOMAIN calls : \A q \in DOMAIN Doc :
                  Doc[q].in = calls[k].at /\ q # p =>
                    /\ placed[q] # 0 => q <= calls[k].pos /\ ~IsOpen(q)
                    /\ q <= calls[k].pos /\ Doc[q].type # "unsupported" /\ ~IsOpen(q) => placed[q] # 0
             /\ \A k \in DOMAIN calls : Doc[p].in = calls[k].at => calls[k].pos = p
    BY <1>1, <1>2, NextFacts
  <2>2. ItersNest' /\ MadeOnce'
    BY <2>1, <1>1, <1>2, <1>3, <1>6, <1>8, <1>10, NestStays, MadeStays
  <2>3. value # Fatal /\ Doc[p].type \notin Nested
    BY <1>1, <1>2 DEF Fatal, NoValue, Nested, Encodable
  <2>4. PlacedRight'
    BY <2>1, <2>3, <1>1, <1>2, <1>3, <1>6, <1>7, <1>10, AddPlaces DEF DecodesCleanly
  <2>5. Doc' = Doc /\ (DecodesCleanly' => DecodesCleanly) /\ \A q : IsOpen(q)' <=> IsOpen(q)
    BY <1>1, <1>5, <1>10 DEF Doc, DecodesCleanly, IsClean, HasPlainNames, StopsVisiting, Siblings, IsOpen
  <2>6. placed'[p] # 0 /\ \A q \in DOMAIN Doc : q # p => placed'[q] = placed[q]
    BY <1>10 DEF Added
  <2>7. VisitedIsPlaced'
    <3>. SUFFICES ASSUME DecodesCleanly'
                 PROVE  VisitedIsPlaced'
      BY DEF VisitedIsPlaced
    <3>1. ASSUME NEW k \in DOMAIN calls, NEW q \in DOMAIN Doc, Doc[q].in = calls[k].at
          PROVE  /\ placed'[q] # 0 => q <= calls[k].pos /\ ~IsOpen(q)
                 /\ q <= calls[k].pos /\ Doc[q].type # "unsupported" /\ ~IsOpen(q) => placed'[q] # 0
      <4>1. CASE q = p
        BY <4>1, <3>1, <2>1, <2>5, <2>6, <1>4
      <4>2. CASE q # p
        BY <4>2, <3>1, <2>1, <2>5, <2>6
      <4>. QED
        BY <4>1, <4>2
    <3>2. \A q \in 0 .. Len(Doc) : made[q] # 0 /\ ~IsOpen(q) =>
            \A r \in DOMAIN Doc : Doc[r].in = q /\ Doc[r].type # "unsupported" => placed'[r] # 0
      BY <2>5, <2>6, <1>3 DEF VisitedIsPlaced
    <3>. QED
      BY <3>1, <3>2, <2>5, <1>1, <1>10 DEF VisitedIsPlaced
  <2>8. DecoderCalled'
    BY <1>1, <1>2, <1>5, <1>10 DEF DecoderCalled, NoValue
  <2>. QED
    BY <2>2, <2>4, <2>7, <2>8, <1>1, <1>8 DEF DecodingGoesOn, DecoderOK
<1>. QED
  BY <1>8, <1>9, <1>10

LEMMA PlacedRightStays ==
  ASSUME UNCHANGED <<heap, made, placed>>, Doc' = Doc, DecodesCleanly' => DecodesCleanly, PlacedRight
  PROVE  PlacedRight'
<1>1. ASSUME NEW p \in DOMAIN Doc, IsPlacedRight(p)
      PROVE  IsPlacedRight(p)'
  <2>1. ValueOf(p)' = ValueOf(p)
    BY DEF ValueOf
  <2>. QED
    BY <1>1, <2>1 DEF IsPlacedRight
<1>2. SUFFICES ASSUME DecodesCleanly'
               PROVE  PlacedRight'
  BY DEF PlacedRight
<1>3. /\ \A p \in DOMAIN Doc : placed[p] # 0 => IsPlacedRight(p)
      /\ \A q \in 0 .. Len(Doc) : made[q] # 0 =>
           \A e \in DOMAIN heap[made[q]].entries : \E p \in DOMAIN Doc : Doc[p].in = q /\ placed[p] = e
      /\ \A p, q \in DOMAIN Doc :
           p < q /\ Doc[p].in = Doc[q].in /\ placed[p] # 0 /\ placed[q] # 0 => placed[p] < placed[q]
  BY <1>2 DEF PlacedRight
<1>. QED
  BY <1>1, <1>3 DEF PlacedRight

LEMMA VisitOtherStep ==
  ASSUME TypeOK, DecoderOK, DecoderCalled, NEW p \in DOMAIN Doc, VisitOther(p)
  PROVE  DecodingGoesOn
<1>1. /\ IsNext(p) /\ iters # <<>> /\ After(p) /\ Doc[p].type = "unsupported" /\ iters' = Moved(p)
      /\ UNCHANGED <<heap, applied, bytes, read, value, made, placed>>
  BY DEF VisitOther, IsNext
<1>2. read # 0 /\ value = NoValue
  BY <1>1 DEF DecoderCalled
<1>3. ItersNest /\ MadeOnce /\ PlacedRight /\ VisitedIsPlaced
  BY DEF DecoderOK
<1>. PICK calls : calls = Moved(p)
  OBVIOUS
<1>4. /\ Len(Doc) \in Nat /\ DOMAIN Doc = 1 .. Len(Doc) /\ p \in Nat
  BY <1>2, DocFacts
<1>5. /\ calls \in Seq(Iters) /\ Len(calls) = Len(iters) /\ DOMAIN calls = DOMAIN iters /\ calls # <<>>
      /\ \A k \in DOMAIN iters : calls[k].node = iters[k].node /\ calls[k].at = iters[k].at
  BY <1>1, <1>4, MovedFacts
<1>6. CallsNest(calls)
  BY <1>1, <1>2, <1>3, MovedNests
<1>7. /\ \A k \in DOMAIN calls : \A q \in DOMAIN Doc :
           Doc[q].in = calls[k].at /\ q > calls[k].pos => made[q] = 0 /\ q # p
      /\ DecodesCleanly =>
           /\ placed[p] = 0
           /\ \A k \in DOMAIN calls : \A q \in DOMAIN Doc :
                Doc[q].in = calls[k].at /\ q # p =>
                  /\ placed[q] # 0 => q <= calls[k].pos /\ ~IsOpen(q)
                  /\ q <= calls[k].pos /\ Doc[q].type # "unsupported" /\ ~IsOpen(q) => placed[q] # 0
  BY <1>1, <1>2, NextFacts
<1>8. ItersNest' /\ MadeOnce'
  BY <1>1, <1>2, <1>3, <1>6, <1>7, NestStays, MadeStays
<1>9. Doc' = Doc /\ (DecodesCleanly' => DecodesCleanly) /\ \A q : IsOpen(q)' <=> IsOpen(q)
  BY <1>1, <1>5 DEF Doc, DecodesCleanly, IsClean, HasPlainNames, StopsVisiting, Siblings, IsOpen
<1>10. PlacedRight'
  BY <1>1, <1>3, <1>9, PlacedRightStays
<1>11. VisitedIsPlaced'
  <2>. SUFFICES ASSUME DecodesCleanly'
               PROVE  VisitedIsPlaced'
    BY DEF VisitedIsPlaced
  <2>1. ASSUME NEW k \in DOMAIN calls, NEW q \in DOMAIN Doc, Doc[q].in = calls[k].at
        PROVE  /\ placed[q] # 0 => q <= calls[k].pos /\ ~IsOpen(q)
               /\ q <= calls[k].pos /\ Doc[q].type # "unsupported" /\ ~IsOpen(q) => placed[q] # 0
    BY <2>1, <1>1, <1>7, <1>9
  <2>. QED
    BY <2>1, <1>1, <1>3, <1>9 DEF VisitedIsPlaced
<1>12. DecoderTyped'
  <2>1. iters' \in Seq(Iters') /\ HeapNodes' = HeapNodes
    BY <1>1, <1>5 DEF Iters, HeapNodes, Values
  <2>. QED
    BY <2>1, <1>1, <1>9 DEF DecoderTyped, TypeOK
<1>13. DecoderCalled'
  BY <1>1, <1>2, <1>5 DEF DecoderCalled, NoValue
<1>. QED
  BY <1>1, <1>8, <1>10, <1>11, <1>12, <1>13 DEF DecodingGoesOn, DecoderOK

LEMMA VisitNestedStep ==
  ASSUME TypeOK, DecoderOK, DecoderCalled, NEW p \in DOMAIN Doc, VisitNested(p)
  PROVE  DecodingGoesOn
<1>. PICK new : new = Len(heap) + 1
  OBVIOUS
<1>. PICK calls : calls = Moved(p)
  OBVIOUS
<1>. PICK call : call = [at |-> p, pos |-> p, node |-> new]
  OBVIOUS
<1>1. /\ IsNext(p) /\ iters # <<>> /\ After(p) /\ Doc[p].type \in Nested
      /\ Make("stdClass") /\ iters' = Append(calls, call)
      /\ made' = [made EXCEPT ![p] = new]
      /\ UNCHANGED <<bytes, read, value, placed>>
  BY DEF VisitNested, IsNext
<1>2. read # 0 /\ value = NoValue
  BY <1>1 DEF DecoderCalled
<1>3. ItersNest /\ MadeOnce /\ PlacedRight /\ VisitedIsPlaced
  BY DEF DecoderOK
<1>4. /\ Len(Doc) \in Nat /\ DOMAIN Doc = 1 .. Len(Doc) /\ p \in Nat
      /\ \A q \in DOMAIN Doc : Doc[q].in \in 0 .. q - 1 /\ Doc[q].in \in 0 .. Len(Doc)
  BY <1>2, DocFacts
<1>5. /\ calls \in Seq(Iters) /\ Len(calls) = Len(iters) /\ DOMAIN calls = DOMAIN iters /\ calls # <<>>
      /\ \A k \in DOMAIN iters : calls[k].node = iters[k].node /\ calls[k].at = iters[k].at
  BY <1>1, <1>4, MovedFacts
<1>6. /\ CallsNest(calls) /\ Iter.at < p /\ made[Doc[p].in] # 0
      /\ calls[Len(calls)].at = Doc[p].in /\ calls[Len(calls)].pos = p
  <2>1. DOMAIN heap = 1 .. Len(heap)
    BY StackFacts
  <2>. QED
    BY <2>1, <1>1, <1>2, <1>3, MovedNests
<1>7. /\ Len(iters) \in Nat \ {0} /\ DOMAIN iters = 1 .. Len(iters)
  BY <1>1, IterFacts
<1>8. /\ heap' \in Seq(HeapNodes)' /\ Len(heap') = new /\ DOMAIN heap' = 1 .. new
      /\ \A m \in DOMAIN heap : heap'[m] = heap[m]
      /\ heap'[new] = Node("stdClass")
      /\ \A m \in DOMAIN heap' : KeysDiffer(heap'[m])
      /\ applied' \in Seq(Nat) /\ Len(applied') = Len(heap')
      /\ \A m \in DOMAIN heap : applied'[m] = applied[m]
      /\ applied'[new] = 0
      /\ Len(heap) \in Nat /\ DOMAIN heap = 1 .. Len(heap)
  <2>1. "stdClass" \in ClassNames
    BY DEF ClassNames
  <2>. QED
    BY <2>1, <1>1, MakeFacts, StackFacts
<1>9. Iters \subseteq Iters'
  BY <1>8 DEF Iters
<1>10. call \in Iters' /\ calls \in Seq(Iters')
  <2>1. new \in DOMAIN heap'
    BY <1>8
  <2>2. call \in Iters'
    BY <2>1, <1>4 DEF Iters
  <2>3. \A k \in 1 .. Len(calls) : calls[k] \in Iters'
    BY <1>5, <1>9, ElementOfSeq
  <2>. QED
    BY <2>2, <2>3, <1>5, <1>9, SeqMonotonic
<1>. PICK K : K = Len(iters) + 1
  OBVIOUS
<1>11. /\ iters' \in Seq(Iters') /\ DOMAIN iters' = 1 .. K /\ iters'[K] = call
       /\ \A k \in DOMAIN iters : iters'[k] = calls[k]
  <2>1. /\ Append(calls, call) \in Seq(Iters') /\ DOMAIN Append(calls, call) = 1 .. Len(calls) + 1
        /\ \A i \in DOMAIN calls : Append(calls, call)[i] = calls[i]
        /\ Append(calls, call)[Len(calls) + 1] = call
    BY <1>10, AppendFacts
  <2>. QED
    BY <2>1, <1>1, <1>5
<1>12. Doc' = Doc
  BY <1>1 DEF Doc
<1>13. /\ made \in [0 .. Len(Doc) -> 0 .. Len(heap)] /\ placed \in [DOMAIN Doc -> Nat]
       /\ \A q \in 0 .. Len(Doc) : made[q] # 0 => made[q] \in DOMAIN heap
  BY <1>2, MadeFacts
<1>14. p \in 0 .. Len(Doc) /\ made'[p] = new /\ \A q \in 0 .. Len(Doc) : q # p => made'[q] = made[q]
  BY <1>1, <1>4, <1>13
<1>15. /\ made[p] = 0 /\ ~IsOpen(p)
       /\ \A k \in DOMAIN calls : \A q \in DOMAIN Doc :
            Doc[q].in = calls[k].at /\ q > calls[k].pos => made[q] = 0 /\ q # p
       /\ DecodesCleanly =>
            /\ placed[p] = 0
            /\ \A k \in DOMAIN calls : \A q \in DOMAIN Doc :
                 Doc[q].in = calls[k].at /\ q # p =>
                   /\ placed[q] # 0 => q <= calls[k].pos /\ ~IsOpen(q)
                   /\ q <= calls[k].pos /\ Doc[q].type # "unsupported" /\ ~IsOpen(q) => placed[q] # 0
  BY <1>1, <1>2, NextFacts
<1>16. \A k \in 1 .. K : k = K \/ k \in DOMAIN iters
  BY <1>7
<1>17. ItersNest'
  <2>1. /\ \A k \in DOMAIN iters :
             /\ calls[k].at \in 0 .. Len(Doc) /\ calls[k].pos \in 0 .. Len(Doc)
             /\ made[calls[k].at] = calls[k].node
             /\ k > 1 => /\ calls[k].at # 0
                         /\ calls[k].at = calls[k - 1].pos
                         /\ Doc[calls[k].at].in = calls[k - 1].at
                         /\ Doc[calls[k].at].type \in Nested
             /\ calls[k].pos # calls[k].at => calls[k].pos # 0 /\ Doc[calls[k].pos].in = calls[k].at
             /\ calls[k].at <= calls[k].pos
        /\ \A j, k \in DOMAIN iters : j < k => calls[j].at < calls[k].at
        /\ calls[1].at = 0
    BY <1>5, <1>6 DEF CallsNest
  <2>2. 1 \in DOMAIN iters /\ iters'[1].at = 0
    BY <2>1, <1>7, <1>11
  <2>3. ASSUME NEW k \in DOMAIN iters
        PROVE  calls[k].at # p /\ calls[k].at \in Nat /\ calls[k].at < p
    <3>. PICK a : a = calls[k].at
      OBVIOUS
    <3>1. IsOpen(a)
      BY <1>5 DEF IsOpen
    <3>2. a \in Nat
      BY <2>1, <1>4
    <3>3. a <= Iter.at
      BY <3>1, <3>2, <1>1, <1>2, <1>3, OpenFacts
    <3>4. Iter.at \in Nat
      BY <1>1, IterFacts DEF Iters
    <3>. QED
      BY <3>2, <3>3, <3>4, <1>4, <1>6
  <2>4. ASSUME NEW k \in 1 .. K
        PROVE  /\ iters'[k].at \in 0 .. Len(Doc) /\ iters'[k].pos \in 0 .. Len(Doc)
               /\ made'[iters'[k].at] = iters'[k].node
               /\ k > 1 => /\ iters'[k].at # 0
                           /\ iters'[k].at = iters'[k - 1].pos
                           /\ Doc[iters'[k].at].in = iters'[k - 1].at
                           /\ Doc[iters'[k].at].type \in Nested
               /\ iters'[k].pos # iters'[k].at => iters'[k].pos # 0 /\ Doc[iters'[k].pos].in = iters'[k].at
               /\ iters'[k].at <= iters'[k].pos
    <3>1. CASE k = K
      <4>1. Len(iters) \in DOMAIN iters /\ k - 1 = Len(iters)
        BY <3>1, <1>7
      <4>2. iters'[k - 1] = calls[Len(calls)]
        BY <4>1, <1>5, <1>11
      <4>. QED
        BY <3>1, <4>2, <1>1, <1>4, <1>6, <1>11, <1>14
    <3>2. CASE k # K
      <4>1. k \in DOMAIN iters /\ (k > 1 => k - 1 \in DOMAIN iters)
        BY <3>2, <1>7
      <4>2. made'[calls[k].at] = made[calls[k].at]
        BY <4>1, <2>1, <2>3, <1>14
      <4>3. iters'[k] = calls[k] /\ (k > 1 => iters'[k - 1] = calls[k - 1])
        BY <4>1, <1>11
      <4>4. /\ calls[k].at \in 0 .. Len(Doc) /\ calls[k].pos \in 0 .. Len(Doc)
            /\ made[calls[k].at] = calls[k].node
            /\ k > 1 => /\ calls[k].at # 0
                        /\ calls[k].at = calls[k - 1].pos
                        /\ Doc[calls[k].at].in = calls[k - 1].at
                        /\ Doc[calls[k].at].type \in Nested
            /\ calls[k].pos # calls[k].at => calls[k].pos # 0 /\ Doc[calls[k].pos].in = calls[k].at
            /\ calls[k].at <= calls[k].pos
        BY <4>1, <2>1
      <4>. QED
        BY <4>2, <4>3, <4>4
    <3>. QED
      BY <3>1, <3>2
  <2>5. ASSUME NEW j \in 1 .. K, NEW k \in 1 .. K, j < k
        PROVE  iters'[j].at < iters'[k].at
    <3>1. j \in DOMAIN iters /\ iters'[j].at = calls[j].at
      BY <2>5, <1>7, <1>11
    <3>2. CASE k = K
      BY <3>1, <3>2, <2>3, <1>11
    <3>3. CASE k # K
      <4>1. k \in DOMAIN iters /\ iters'[k].at = calls[k].at
        BY <3>3, <1>11, <1>16
      <4>. QED
        BY <4>1, <3>1, <2>1, <2>5
    <3>. QED
      BY <3>2, <3>3
  <2>. QED
    BY <2>2, <2>4, <2>5, <1>11, <1>12 DEF ItersNest, CallsNest
<1>18. MadeOnce'
  <2>1. made'[0] = made[0] /\ made[0] # 0
    BY <1>2, <1>3, <1>4, <1>14 DEF MadeOnce
  <2>2. ASSUME NEW q \in 0 .. Len(Doc), NEW r \in 0 .. Len(Doc), made'[q] # 0, made'[q] = made'[r]
        PROVE  q = r
    <3>1. ASSUME NEW s \in 0 .. Len(Doc), s # p
          PROVE  made'[s] # new
      <4>1. made'[s] = made[s] /\ made[s] \in 0 .. Len(heap)
        BY <3>1, <1>13, <1>14
      <4>. QED
        BY <4>1, <1>8
    <3>2. CASE q = p \/ r = p
      BY <3>1, <3>2, <2>2, <1>14
    <3>3. CASE q # p /\ r # p
      <4>1. made[q] # 0 /\ made[q] = made[r]
        BY <3>3, <2>2, <1>14
      <4>. QED
        BY <4>1, <1>2, <1>3 DEF MadeOnce
    <3>. QED
      BY <3>2, <3>3
  <2>3. ASSUME NEW q \in 0 .. Len(Doc), made'[q] # 0
        PROVE  heap'[made'[q]].class = IF q = 0 THEN "array" ELSE "stdClass"
    <3>1. CASE q = p
      BY <3>1, <1>4, <1>8, <1>14 DEF Node
    <3>2. CASE q # p
      <4>. PICK m : m = made[q]
        OBVIOUS
      <4>1. made'[q] = m /\ m # 0
        BY <3>2, <2>3, <1>14
      <4>2. m \in DOMAIN heap
        BY <4>1, <1>13
      <4>3. heap[m].class = IF q = 0 THEN "array" ELSE "stdClass"
        BY <4>1, <1>2, <1>3 DEF MadeOnce
      <4>. QED
        BY <4>1, <4>2, <4>3, <1>8
    <3>. QED
      BY <3>1, <3>2
  <2>4. ASSUME NEW q \in DOMAIN Doc, made'[q] # 0
        PROVE  made'[Doc[q].in] # 0
    <3>1. new # 0 /\ q \in 0 .. Len(Doc) /\ Doc[q].in \in 0 .. Len(Doc)
      BY <1>4, <1>8
    <3>2. made[Doc[q].in] # 0
      BY <3>1, <2>4, <1>2, <1>3, <1>6, <1>14 DEF MadeOnce
    <3>. QED
      BY <3>1, <3>2, <1>14
  <2>5. ASSUME NEW k \in 1 .. K, NEW q \in DOMAIN Doc, Doc[q].in = iters'[k].at, q > iters'[k].pos
        PROVE  made'[q] = 0
    <3>0. q \in 0 .. Len(Doc) /\ q \in Nat
      BY <1>4
    <3>1. CASE k = K
      <4>1. Doc[q].in = p /\ q # p
        BY <3>1, <2>5, <1>4, <1>11
      <4>2. made[q] = 0
        BY <4>1, <1>2, <1>3, <1>15 DEF MadeOnce
      <4>. QED
        BY <3>0, <4>1, <4>2, <1>14
    <3>2. CASE k # K
      <4>1. k \in DOMAIN calls /\ iters'[k] = calls[k]
        BY <3>2, <1>5, <1>11, <1>16
      <4>2. made[q] = 0 /\ q # p
        BY <4>1, <2>5, <1>15
      <4>. QED
        BY <3>0, <4>2, <1>14
    <3>. QED
      BY <3>1, <3>2
  <2>. QED
    BY <2>1, <2>2, <2>3, <2>4, <2>5, <1>11, <1>12 DEF MadeOnce
<1>19. DecodesCleanly' => DecodesCleanly
  BY <1>1, <1>12 DEF DecodesCleanly, IsClean, HasPlainNames, StopsVisiting, Siblings
<1>20. ASSUME DecodesCleanly, NEW q \in DOMAIN Doc, Doc[q].in = p
       PROVE  placed[q] = 0
  <2>1. placed[q] # 0 => made[p] # 0
    BY <1>3, <1>20 DEF PlacedRight, IsPlacedRight
  <2>. QED
    BY <2>1, <1>15
<1>21. PlacedRight'
  <2>. SUFFICES ASSUME DecodesCleanly'
               PROVE  PlacedRight'
    BY DEF PlacedRight
  <2>0. /\ \A q \in DOMAIN Doc : placed[q] # 0 => IsPlacedRight(q)
        /\ \A q \in 0 .. Len(Doc) : made[q] # 0 =>
             \A e \in DOMAIN heap[made[q]].entries : \E r \in DOMAIN Doc : Doc[r].in = q /\ placed[r] = e
        /\ \A r, q \in DOMAIN Doc :
             r < q /\ Doc[r].in = Doc[q].in /\ placed[r] # 0 /\ placed[q] # 0 => placed[r] < placed[q]
    BY <1>3, <1>19 DEF PlacedRight
  <2>1. ASSUME NEW q \in DOMAIN Doc, placed[q] # 0
        PROVE  IsPlacedRight(q)'
    <3>1. q # p /\ Doc[q].in # p /\ IsPlacedRight(q)
      BY <2>0, <2>1, <1>15, <1>19, <1>20
    <3>2. Doc[q].in \in 0 .. Len(Doc) /\ q \in 0 .. Len(Doc)
      BY <1>4
    <3>3. /\ made'[q] = made[q] /\ made'[Doc[q].in] = made[Doc[q].in] /\ made[Doc[q].in] \in DOMAIN heap
      BY <3>1, <3>2, <1>13, <1>14 DEF IsPlacedRight
    <3>4. heap'[made[Doc[q].in]] = heap[made[Doc[q].in]]
      BY <3>3, <1>8
    <3>5. ValueOf(q)' = ValueOf(q)
      BY <3>3, <1>12 DEF ValueOf
    <3>. QED
      BY <3>1, <3>3, <3>4, <3>5, <1>1, <1>12 DEF IsPlacedRight
  <2>2. ASSUME NEW q \in 0 .. Len(Doc), made'[q] # 0, NEW e \in DOMAIN heap'[made'[q]].entries
        PROVE  \E r \in DOMAIN Doc : Doc[r].in = q /\ placed[r] = e
    <3>1. q # p
      <4>1. DOMAIN heap'[new].entries = {}
        BY <1>8 DEF Node
      <4>. QED
        BY <4>1, <2>2, <1>14
    <3>2. made'[q] = made[q] /\ made[q] # 0
      BY <3>1, <2>2, <1>14
    <3>3. heap'[made[q]] = heap[made[q]]
      BY <3>2, <1>8, <1>13
    <3>. QED
      BY <3>2, <3>3, <2>0, <2>2
  <2>3. placed' = placed
    BY <1>1
  <2>4. \A q \in DOMAIN Doc' : placed'[q] # 0 => IsPlacedRight(q)'
    BY <2>1, <2>3, <1>12
  <2>5. ASSUME NEW q \in 0 .. Len(Doc'), made'[q] # 0, NEW e \in DOMAIN heap'[made'[q]].entries
        PROVE  \E r \in DOMAIN Doc' : Doc'[r].in = q /\ placed'[r] = e
    <3>1. q \in 0 .. Len(Doc)
      BY <1>12
    <3>2. \E r \in DOMAIN Doc : Doc[r].in = q /\ placed[r] = e
      BY <3>1, <2>2, <2>5
    <3>. QED
      BY <3>2, <2>3, <1>12
  <2>6. \A r, q \in DOMAIN Doc' :
          r < q /\ Doc'[r].in = Doc'[q].in /\ placed'[r] # 0 /\ placed'[q] # 0 => placed'[r] < placed'[q]
    BY <2>0, <2>3, <1>12
  <2>. QED
    BY <2>4, <2>5, <2>6 DEF PlacedRight
<1>22. VisitedIsPlaced'
  <2>. SUFFICES ASSUME DecodesCleanly'
               PROVE  VisitedIsPlaced'
    BY DEF VisitedIsPlaced
  <2>1. \A q : IsOpen(q)' <=> IsOpen(q) \/ q = p
    <3>1. \A q : IsOpen(q) => IsOpen(q)'
      BY <1>5, <1>7, <1>11 DEF IsOpen
    <3>2. IsOpen(p)'
      <4>1. K \in DOMAIN iters'
        BY <1>7, <1>11
      <4>. QED
        BY <4>1, <1>11 DEF IsOpen
    <3>3. \A q : IsOpen(q)' => IsOpen(q) \/ q = p
      BY <1>5, <1>11, <1>16 DEF IsOpen
    <3>. QED
      BY <3>1, <3>2, <3>3
  <2>2. ASSUME NEW k \in 1 .. K, NEW q \in DOMAIN Doc, Doc[q].in = iters'[k].at
        PROVE  /\ placed[q] # 0 => q <= iters'[k].pos /\ ~(IsOpen(q) \/ q = p)
               /\ q <= iters'[k].pos /\ Doc[q].type # "unsupported" /\ ~(IsOpen(q) \/ q = p) => placed[q] # 0
    <3>1. CASE k = K
      <4>1. Doc[q].in = p /\ iters'[k].pos = p
        BY <3>1, <2>2, <1>11
      <4>2. placed[q] = 0 /\ ~(q <= p)
        BY <4>1, <1>4, <1>19, <1>20
      <4>. QED
        BY <4>1, <4>2
    <3>2. CASE k # K
      <4>1. k \in DOMAIN calls /\ iters'[k] = calls[k]
        BY <3>2, <1>5, <1>11, <1>16
      <4>. QED
        BY <4>1, <2>2, <1>15, <1>19
    <3>. QED
      BY <3>1, <3>2
  <2>3. ASSUME NEW q \in 0 .. Len(Doc), made'[q] # 0, ~(IsOpen(q) \/ q = p),
               NEW r \in DOMAIN Doc, Doc[r].in = q, Doc[r].type # "unsupported"
        PROVE  placed[r] # 0
    BY <2>3, <1>3, <1>14, <1>19 DEF VisitedIsPlaced
  <2>4. placed' = placed /\ DOMAIN iters' = 1 .. K
    BY <1>1, <1>11
  <2>5. ASSUME NEW k \in DOMAIN iters', NEW q \in DOMAIN Doc', Doc'[q].in = iters'[k].at
        PROVE  /\ placed'[q] # 0 => q <= iters'[k].pos /\ ~IsOpen(q)'
               /\ q <= iters'[k].pos /\ Doc'[q].type # "unsupported" /\ ~IsOpen(q)' => placed'[q] # 0
    BY <2>1, <2>2, <2>4, <2>5, <1>12
  <2>6. ASSUME NEW q \in 0 .. Len(Doc'), made'[q] # 0, ~IsOpen(q)',
               NEW r \in DOMAIN Doc', Doc'[r].in = q, Doc'[r].type # "unsupported"
        PROVE  placed'[r] # 0
    BY <2>1, <2>3, <2>4, <2>6, <1>12
  <2>. QED
    BY <2>5, <2>6 DEF VisitedIsPlaced
<1>23. DecoderTyped'
  <2>1. made' \in [0 .. Len(Doc') -> 0 .. Len(heap')]
    BY <1>1, <1>8, <1>12, <1>13
  <2>2. value' \in {NoValue, Null, Fatal}
    BY <1>1, <1>2
  <2>. QED
    BY <2>1, <2>2, <1>1, <1>8, <1>11, <1>12 DEF DecoderTyped, TypeOK
<1>24. DecoderCalled'
  <2>1. iters' # <<>>
    BY <1>7, <1>11
  <2>. QED
    BY <2>1, <1>1, <1>2 DEF DecoderCalled, NoValue
<1>25. (\A m \in DOMAIN heap : applied[m] = 0) => (\A m \in DOMAIN heap' : applied'[m] = 0)
  BY <1>8
<1>. QED
  BY <1>17, <1>18, <1>21, <1>22, <1>23, <1>24, <1>25 DEF DecodingGoesOn, DecoderOK

(* A document is started: nothing of the one before it is in what is made. *)
LEMMA ReadDocumentStep ==
  ASSUME TypeOK, value = NoValue, NEW k \in DOMAIN bytes.docs, ReadDocument(k), UNCHANGED <<bytes, value>>
  PROVE  DecodingGoesOn
<1>. PICK new : new = Len(heap) + 1
  OBVIOUS
<1>. PICK doc : doc = bytes.docs[k]
  OBVIOUS
<1>. PICK call : call = [at |-> 0, pos |-> 0, node |-> new]
  OBVIOUS
<1>1. /\ read' = k /\ Make("array") /\ iters' = <<call>>
      /\ made' = [p \in 0 .. Len(doc) |-> IF p = 0 THEN new ELSE 0]
      /\ placed' = [p \in DOMAIN doc |-> 0]
  BY DEF ReadDocument
<1>2. /\ heap' \in Seq(HeapNodes)' /\ Len(heap') = new /\ DOMAIN heap' = 1 .. new
      /\ \A m \in DOMAIN heap : heap'[m] = heap[m]
      /\ heap'[new] = Node("array")
      /\ \A m \in DOMAIN heap' : KeysDiffer(heap'[m])
      /\ applied' \in Seq(Nat) /\ Len(applied') = Len(heap')
      /\ \A m \in DOMAIN heap : applied'[m] = applied[m]
      /\ applied'[new] = 0
      /\ Len(heap) \in Nat /\ DOMAIN heap = 1 .. Len(heap)
  <2>1. "array" \in ClassNames
    BY DEF ClassNames
  <2>. QED
    BY <2>1, <1>1, MakeFacts, StackFacts
<1>3. k \in 1 .. Len(bytes.docs) /\ Len(bytes.docs) \in Nat
  <2>1. bytes.docs \in Seq(Seq(BsonElements))
    BY DEF TypeOK
  <2>. QED
    BY <2>1, LenProperties
<1>4. Doc' = doc /\ IsBson(doc)
  BY <1>1 DEF Doc, TypeOK
<1>5. Len(doc) \in Nat /\ DOMAIN doc = 1 .. Len(doc) /\ \A q \in DOMAIN doc : doc[q].in \in 0 .. Len(doc)
  <2>1. doc \in Seq(BsonElements) /\ \A q \in DOMAIN doc : doc[q].in < q
    BY <1>4 DEF IsBson
  <2>2. Len(doc) \in Nat /\ DOMAIN doc = 1 .. Len(doc)
    BY <2>1, LenProperties
  <2>3. ASSUME NEW q \in DOMAIN doc
        PROVE  doc[q].in \in Nat
    <3>1. doc[q] \in BsonElements
      BY <2>1, <2>2, ElementOfSeq
    <3>. QED
      BY <3>1 DEF BsonElements
  <2>4. ASSUME NEW q \in DOMAIN doc
        PROVE  doc[q].in \in 0 .. Len(doc)
    <3>1. doc[q].in < q /\ doc[q].in \in Nat /\ q \in 1 .. Len(doc)
      BY <2>1, <2>2, <2>3
    <3>. QED
      BY <3>1, <2>2
  <2>. QED
    BY <2>2, <2>4
<1>6. /\ 0 \in 0 .. Len(doc) /\ made'[0] = new /\ \A q \in 0 .. Len(doc) : q # 0 => made'[q] = 0
      /\ \A q \in DOMAIN doc : placed'[q] = 0 /\ q \in 0 .. Len(doc) /\ q # 0
      /\ made' \in [0 .. Len(doc) -> 0 .. new]
      /\ placed' \in [DOMAIN doc -> Nat]
  BY <1>1, <1>2, <1>5
<1>7. Len(iters') = 1 /\ DOMAIN iters' = {1} /\ iters'[1] = call /\ iters' # <<>>
  BY <1>1
<1>8. ItersNest'
  BY <1>4, <1>5, <1>6, <1>7 DEF ItersNest, CallsNest
<1>9. MadeOnce'
  <2>1. new # 0 /\ heap'[new].class = "array"
    BY <1>2 DEF Node
  <2>2. \A q, r \in 0 .. Len(doc) : made'[q] # 0 /\ made'[q] = made'[r] => q = r
    BY <2>1, <1>6
  <2>3. \A q \in 0 .. Len(doc) :
          made'[q] # 0 => heap'[made'[q]].class = IF q = 0 THEN "array" ELSE "stdClass"
    BY <2>1, <1>6
  <2>. QED
    BY <2>1, <2>2, <2>3, <1>4, <1>6, <1>7 DEF MadeOnce
<1>10. PlacedRight'
  <2>1. DOMAIN heap'[new].entries = {}
    BY <1>2 DEF Node
  <2>2. \A q \in 0 .. Len(doc) : made'[q] # 0 => DOMAIN heap'[made'[q]].entries = {}
    BY <2>1, <1>6
  <2>. QED
    BY <2>2, <1>4, <1>6 DEF PlacedRight
<1>11. VisitedIsPlaced'
  <2>1. \A q \in DOMAIN doc : ~(q <= 0)
    BY <1>5
  <2>2. IsOpen(0)'
    BY <1>7 DEF IsOpen
  <2>3. \A q \in 0 .. Len(doc) : made'[q] # 0 => q = 0
    BY <1>6
  <2>. QED
    BY <2>1, <2>2, <2>3, <1>4, <1>6, <1>7 DEF VisitedIsPlaced
<1>12. DecoderTyped'
  <2>1. call \in Iters'
    <3>1. new \in DOMAIN heap'
      BY <1>2
    <3>. QED
      BY <3>1 DEF Iters
  <2>2. iters' \in Seq(Iters')
    BY <2>1, <1>1
  <2>3. value' \in {NoValue, Null, Fatal}
    OBVIOUS
  <2>4. /\ bytes' \in [docs : Seq(Seq(BsonElements)), invalid : BOOLEAN]
        /\ \A i \in DOMAIN bytes'.docs : IsBson(bytes'.docs[i])
        /\ read' \in 0 .. Len(bytes'.docs)
    BY <1>1, <1>3 DEF TypeOK
  <2>5. made' \in [0 .. Len(Doc') -> 0 .. Len(heap')] /\ placed' \in [DOMAIN Doc' -> Nat]
    BY <1>2, <1>4, <1>6
  <2>. QED
    BY <2>2, <2>3, <2>4, <2>5, <1>2 DEF DecoderTyped
<1>13. DecoderCalled'
  <2>1. read' # 0
    BY <1>1, <1>3
  <2>. QED
    BY <2>1, <1>7 DEF DecoderCalled, NoValue
<1>14. (\A m \in DOMAIN heap : applied[m] = 0) => (\A m \in DOMAIN heap' : applied'[m] = 0)
  BY <1>2
<1>. QED
  BY <1>8, <1>9, <1>10, <1>11, <1>12, <1>13, <1>14 DEF DecodingGoesOn, DecoderOK

(* A call returns when its document is at its end, or when something in it *)
(* is corrupt.                                                             *)
LEMMA ReturnsStep ==
  ASSUME TypeOK, DecoderOK, DecoderCalled, iters # <<>>, NEW says \in BOOLEAN, VisitAllReturns(says),
         IsClean(Doc) => ~says /\ \A p \in DOMAIN Doc : ~After(p)
  PROVE  DecodingGoesOn
<1>1. read # 0 /\ value = NoValue
  BY DEF DecoderCalled
<1>2. ItersNest /\ MadeOnce /\ PlacedRight /\ VisitedIsPlaced
  BY DEF DecoderOK
<1>3. /\ Len(Doc) \in Nat /\ DOMAIN Doc = 1 .. Len(Doc)
      /\ \A q \in DOMAIN Doc : Doc[q].in \in 0 .. q - 1 /\ Doc[q].in \in 0 .. Len(Doc)
  BY <1>1, DocFacts
<1>4. /\ Len(iters) \in Nat \ {0} /\ DOMAIN iters = 1 .. Len(iters) /\ Len(iters) \in DOMAIN iters
      /\ Iter = iters[Len(iters)]
      /\ \A k \in DOMAIN iters : iters[k] \in Iters
  BY IterFacts
<1>5. /\ made \in [0 .. Len(Doc) -> 0 .. Len(heap)] /\ placed \in [DOMAIN Doc -> Nat]
      /\ \A q \in 0 .. Len(Doc) : made[q] # 0 => made[q] \in DOMAIN heap
  BY <1>1, MadeFacts
<1>6. ASSUME IsClean(Doc), NEW p \in DOMAIN Doc, Doc[p].in = Iter.at, Doc[p].type # "unsupported"
      PROVE  placed[p] # 0
  <2>1. DecodesCleanly
    BY <1>1, <1>6 DEF DecodesCleanly, Fatal, NoValue
  <2>2. Iter.pos \in Nat /\ Iter.at \in Nat /\ p \in Nat /\ Iter.at < p
    BY <1>3, <1>4, <1>6 DEF Iters
  <2>3. p <= Iter.pos
    BY <2>2, <1>6 DEF After
  <2>4. ~IsOpen(p)
    BY <2>2, <1>1, <1>2, OpenFacts
  <2>. QED
    BY <2>1, <2>3, <2>4, <1>2, <1>4, <1>6 DEF VisitedIsPlaced
<1>7. CASE Len(iters) > 1
  <2>. PICK calls : calls = Pop(iters)
    OBVIOUS
  <2>. PICK c : c = Iter.at
    OBVIOUS
  <2>. PICK n : n = made[Doc[c].in]
    OBVIOUS
  <2>. PICK v : v = Reference(Iter.node)
    OBVIOUS
  <2>. PICK key : key = PhpKey(heap[n].class, Doc[c].name)
    OBVIOUS
  <2>1. /\ calls \in Seq(Iters) /\ calls # <<>> /\ Len(calls) = Len(iters) - 1 /\ DOMAIN calls = 1 .. Len(iters) - 1
        /\ \A k \in DOMAIN calls : k \in DOMAIN iters /\ calls[k] = iters[k]
        /\ CallsNest(calls) /\ c \in DOMAIN Doc /\ Doc[c].in = calls[Len(calls)].at
        /\ c = calls[Len(calls)].pos /\ Doc[c].type \in Nested
        /\ made[c] = Iter.node /\ Iter.node \in DOMAIN heap
    BY <1>1, <1>2, <1>7, PoppedNests
  <2>2. Len(calls) \in DOMAIN calls /\ Len(calls) \in Nat
    BY <2>1, <1>4, <1>7
  <2>3. UNCHANGED <<applied, bytes, read, made>> /\ Doc' = Doc
    BY <1>7 DEF VisitAllReturns, Doc
  <2>4. \A k \in DOMAIN calls : \A q \in DOMAIN Doc : Doc[q].in = calls[k].at /\ q > calls[k].pos => made[q] = 0
    BY <2>1, <1>1, <1>2 DEF MadeOnce
  <2>5. n = calls[Len(calls)].node /\ n \in DOMAIN heap
    <3>1. made[calls[Len(calls)].at] = calls[Len(calls)].node
      BY <2>1, <2>2 DEF CallsNest
    <3>2. calls[Len(calls)] \in Iters
      BY <2>1, <2>2, ElementOfSeq
    <3>. QED
      BY <2>1, <3>1, <3>2 DEF Iters
  <2>6. v \in Values /\ v = ValueOf(c)
    BY <2>1 DEF Reference, Values, ValueOf
  <2>7. CASE says
    <3>1. iters' = calls /\ UNCHANGED <<heap, value, placed>>
      BY <2>7, <1>7 DEF VisitAllReturns
    <3>2. ~IsClean(Doc)
      BY <2>7
    <3>3. ItersNest' /\ MadeOnce'
      BY <3>1, <2>1, <2>3, <2>4, <1>1, <1>2, NestStays, MadeStays
    <3>4. PlacedRight' /\ VisitedIsPlaced'
      BY <3>2, <2>3 DEF PlacedRight, VisitedIsPlaced, DecodesCleanly, IsClean, HasPlainNames, StopsVisiting, Siblings
    <3>5. DecoderTyped'
      <4>1. iters' \in Seq(Iters') /\ HeapNodes' = HeapNodes
        BY <3>1, <2>1 DEF Iters, HeapNodes, Values
      <4>. QED
        BY <4>1, <3>1, <2>3 DEF DecoderTyped, TypeOK
    <3>6. DecoderCalled'
      BY <3>1, <2>1, <2>3, <1>1 DEF DecoderCalled, NoValue
    <3>. QED
      BY <3>1, <3>3, <3>4, <3>5, <3>6, <2>3 DEF DecodingGoesOn, DecoderOK
  <2>8. CASE ~says
    <3>1. AddField(calls, c, v)
      BY <2>8, <1>7 DEF VisitAllReturns
    <3>2. /\ DecoderTyped' /\ DOMAIN heap' = DOMAIN heap
          /\ \A m \in DOMAIN heap : heap'[m].class = heap[m].class
          /\ \/ value' = Fatal /\ iters' = <<>>
             \/ value' = value /\ iters' = calls /\ Added(n, c, key, v)
      BY <3>1, <2>1, <2>3, <2>5, <2>6, <1>1, AddFieldFacts
    <3>3. CASE value' = Fatal /\ iters' = <<>>
      <4>1. DecoderOK' /\ DecoderCalled'
        BY <3>2, <3>3, <2>3, <1>1, <1>2, FatalStops
      <4>. QED
        BY <4>1, <3>2, <2>3 DEF DecodingGoesOn
    <3>4. CASE value' = value /\ iters' = calls /\ Added(n, c, key, v)
      <4>1. ItersNest' /\ MadeOnce'
        BY <3>2, <3>4, <2>1, <2>3, <2>4, <1>1, <1>2, NestStays, MadeStays
      <4>2. value # Fatal /\ c # 0 /\ made[c] # 0
        <5>1. DOMAIN heap = 1 .. Len(heap)
          BY StackFacts
        <5>. QED
          BY <5>1, <2>1, <1>1, <1>3 DEF Fatal, NoValue
      <4>3. ASSUME DecodesCleanly
            PROVE  /\ placed[c] = 0
                   /\ \A q \in DOMAIN Doc : Doc[q].in = Doc[c].in /\ placed[q] # 0 => q < c
        <5>1. IsOpen(c)
          BY <1>4 DEF IsOpen
        <5>2. Len(calls) \in DOMAIN iters /\ Doc[c].in = iters[Len(calls)].at /\ c = iters[Len(calls)].pos
          BY <2>1, <2>2
        <5>3. placed[c] = 0
          BY <5>1, <5>2, <4>3, <2>1, <1>2 DEF VisitedIsPlaced
        <5>4. \A q \in DOMAIN Doc : Doc[q].in = Doc[c].in /\ placed[q] # 0 => q <= c
          BY <5>2, <4>3, <1>2 DEF VisitedIsPlaced
        <5>. QED
          BY <5>3, <5>4, <2>1, <1>3
      <4>4. PlacedRight'
        BY <4>2, <4>3, <3>4, <2>1, <2>3, <2>5, <2>6, <1>1, <1>2, AddPlaces DEF DecodesCleanly
      <4>5. DecodesCleanly' => DecodesCleanly
        BY <4>2, <2>3, <3>4 DEF DecodesCleanly, IsClean, HasPlainNames, StopsVisiting, Siblings
      <4>6. placed'[c] # 0 /\ \A q \in DOMAIN Doc : q # c => placed'[q] = placed[q]
        BY <3>4 DEF Added
      <4>7. \A q : IsOpen(q) <=> IsOpen(q)' \/ q = c
        <5>1. \A k \in DOMAIN iters : k = Len(iters) \/ k \in DOMAIN calls
          BY <2>1, <1>4
        <5>. QED
          BY <5>1, <3>4, <2>1, <1>4 DEF IsOpen
      <4>8. ~IsOpen(c)'
        <5>. SUFFICES ASSUME NEW k \in DOMAIN calls, calls[k].at = c
                     PROVE  FALSE
          BY <3>4 DEF IsOpen
        <5>0. k \in DOMAIN iters /\ iters[k] = calls[k] /\ k < Len(iters)
          BY <2>1, <1>4
        <5>1. iters[k].at = iters[Len(iters)].at /\ k \in DOMAIN iters /\ k < Len(iters) /\ iters[k].at \in Nat
          BY <5>0, <1>4 DEF Iters
        <5>2. \A i, j \in DOMAIN iters : i < j => iters[i].at < iters[j].at
          BY <1>2 DEF ItersNest, CallsNest
        <5>3. iters[k].at < iters[Len(iters)].at
          BY <5>1, <5>2, <1>4
        <5>. QED
          BY <5>1, <5>3
      <4>9. VisitedIsPlaced'
        <5>. SUFFICES ASSUME DecodesCleanly'
                     PROVE  VisitedIsPlaced'
          BY DEF VisitedIsPlaced
        <5>0. IsClean(Doc)
          BY <4>5 DEF DecodesCleanly
        <5>1. ASSUME NEW k \in DOMAIN calls, NEW q \in DOMAIN Doc, Doc[q].in = calls[k].at
              PROVE  /\ placed'[q] # 0 => q <= calls[k].pos /\ ~IsOpen(q)'
                     /\ q <= calls[k].pos /\ Doc[q].type # "unsupported" /\ ~IsOpen(q)' => placed'[q] # 0
          <6>1. CASE q = c
            <7>1. k = Len(calls)
              BY <6>1, <5>1, <2>1, <2>2, <1>1, OneCallEach
            <7>. QED
              BY <6>1, <7>1, <4>6, <4>8, <2>1, <1>3
          <6>2. CASE q # c
            <7>1. /\ placed[q] # 0 => q <= iters[k].pos /\ ~IsOpen(q)
                  /\ q <= iters[k].pos /\ Doc[q].type # "unsupported" /\ ~IsOpen(q) => placed[q] # 0
              BY <5>1, <4>5, <2>1, <1>2 DEF VisitedIsPlaced
            <7>. QED
              BY <6>2, <7>1, <4>6, <4>7, <2>1
          <6>. QED
            BY <6>1, <6>2
        <5>2. ASSUME NEW q \in 0 .. Len(Doc), made[q] # 0, ~IsOpen(q)',
                     NEW r \in DOMAIN Doc, Doc[r].in = q, Doc[r].type # "unsupported"
              PROVE  placed'[r] # 0
          <6>1. CASE q = c
            <7>1. placed[r] # 0
              BY <6>1, <5>0, <5>2, <1>6
            <7>. QED
              BY <7>1, <4>6
          <6>2. CASE q # c
            <7>1. ~IsOpen(q)
              BY <6>2, <5>2, <4>7
            <7>2. placed[r] # 0
              BY <7>1, <5>2, <4>5, <1>2 DEF VisitedIsPlaced
            <7>. QED
              BY <7>2, <4>6
          <6>. QED
            BY <6>1, <6>2
        <5>. QED
          BY <5>1, <5>2, <3>4, <2>3 DEF VisitedIsPlaced
      <4>10. DecoderCalled'
        BY <3>4, <2>1, <2>3, <1>1 DEF DecoderCalled, NoValue
      <4>. QED
        BY <4>1, <4>4, <4>9, <4>10, <3>2, <2>3 DEF DecodingGoesOn, DecoderOK
    <3>. QED
      BY <3>2, <3>3, <3>4
  <2>. QED
    BY <2>7, <2>8
<1>8. CASE ~(Len(iters) > 1) /\ read < Len(bytes.docs)
  <2>1. ReadDocument(read + 1) /\ UNCHANGED <<bytes, value>>
    BY <1>8 DEF VisitAllReturns
  <2>2. read + 1 \in DOMAIN bytes.docs
    <3>1. bytes.docs \in Seq(Seq(BsonElements)) /\ read \in 0 .. Len(bytes.docs)
      BY DEF TypeOK
    <3>2. DOMAIN bytes.docs = 1 .. Len(bytes.docs) /\ Len(bytes.docs) \in Nat
      BY <3>1, LenProperties
    <3>. QED
      BY <3>1, <3>2, <1>8
  <2>. QED
    BY <2>1, <2>2, <1>1, ReadDocumentStep
<1>9. CASE ~(Len(iters) > 1) /\ ~(read < Len(bytes.docs))
  <2>1. /\ value' = IF bytes.invalid THEN Null ELSE Reference(Iter.node)
        /\ iters' = <<>>
        /\ UNCHANGED <<heap, applied, bytes, read, made, placed>>
    BY <1>9 DEF VisitAllReturns
  <2>2. Len(iters) = 1 /\ Iter = iters[1] /\ DOMAIN iters = {1}
    BY <1>4, <1>9
  <2>3. Iter.at = 0 /\ made[0] = Iter.node /\ Iter.node \in DOMAIN heap
    BY <2>2, <1>2, <1>4 DEF ItersNest, CallsNest, Iters
  <2>4. Doc' = Doc /\ DOMAIN iters' = {}
    BY <2>1 DEF Doc
  <2>5. ItersNest' /\ MadeOnce'
    <3>1. ItersNest'
      BY <2>1, <2>4 DEF ItersNest, CallsNest
    <3>. QED
      BY <3>1, <2>1, <2>4, <1>1, <1>2, MadeStays
  <2>6. DecodesCleanly' => DecodesCleanly /\ IsClean(Doc)
    BY <2>1, <2>4, <1>1 DEF DecodesCleanly, IsClean, HasPlainNames, StopsVisiting, Siblings, Fatal, NoValue
  <2>7. PlacedRight'
    BY <2>1, <2>4, <2>6, <1>2 DEF PlacedRight, IsPlacedRight, ValueOf
  <2>8. VisitedIsPlaced'
    <3>. SUFFICES ASSUME DecodesCleanly'
                 PROVE  VisitedIsPlaced'
      BY DEF VisitedIsPlaced
    <3>1. ASSUME NEW q \in 0 .. Len(Doc), made[q] # 0, NEW r \in DOMAIN Doc, Doc[r].in = q, Doc[r].type # "unsupported"
          PROVE  placed[r] # 0
      <4>1. CASE q = 0
        BY <4>1, <3>1, <2>3, <2>6, <1>6
      <4>2. CASE q # 0
        <5>1. ~IsOpen(q)
          BY <4>2, <2>2, <2>3 DEF IsOpen
        <5>. QED
          BY <5>1, <3>1, <2>6, <1>2 DEF VisitedIsPlaced
      <4>. QED
        BY <4>1, <4>2
    <3>. QED
      BY <3>1, <2>1, <2>4 DEF VisitedIsPlaced
  <2>9. DecoderTyped'
    <3>1. iters' \in Seq(Iters') /\ HeapNodes' = HeapNodes
      BY <2>1 DEF HeapNodes, Values
    <3>2. value' \in {NoValue, Null, Fatal} \cup [kind : {"node"}, node : DOMAIN heap']
      BY <2>1, <2>3 DEF Reference
    <3>. QED
      BY <3>1, <3>2, <2>1, <2>4 DEF DecoderTyped, TypeOK
  <2>10. DecoderCalled'
    BY <2>1, <2>3, <1>1 DEF DecoderCalled, NoValue, Null, Reference
  <2>. QED
    BY <2>1, <2>5, <2>7, <2>8, <2>9, <2>10 DEF DecodingGoesOn, DecoderOK
<1>. QED
  BY <1>7, <1>8, <1>9

LEMMA DecoderStep ==
  ASSUME TypeOK, DecoderOK, DecoderCalled, DecoderNext
  PROVE  DecodingGoesOn /\ iters # <<>>
<1>1. CASE \E p \in DOMAIN Doc : VisitLeaf(p) \/ VisitNested(p) \/ VisitOther(p) \/ VisitCorrupt(p) \/ VisitInvalid(p)
  <2>1. PICK p \in DOMAIN Doc : VisitLeaf(p) \/ VisitNested(p) \/ VisitOther(p) \/ VisitCorrupt(p) \/ VisitInvalid(p)
    BY <1>1
  <2>2. iters # <<>>
    BY <2>1 DEF VisitLeaf, VisitNested, VisitOther, VisitCorrupt, VisitInvalid, IsNext
  <2>3. CASE VisitLeaf(p)
    BY <2>2, <2>3, VisitLeafStep
  <2>4. CASE VisitNested(p)
    BY <2>2, <2>4, VisitNestedStep
  <2>5. CASE VisitOther(p)
    BY <2>2, <2>5, VisitOtherStep
  <2>6. CASE VisitCorrupt(p) \/ VisitInvalid(p)
    <3>1. ~IsClean(Doc)
      BY <2>6 DEF VisitCorrupt, VisitInvalid, IsClean, HasPlainNames, StopsVisiting
    <3>2. \E says \in BOOLEAN : VisitAllReturns(says)
      BY <2>6 DEF VisitCorrupt, VisitInvalid
    <3>. QED
      BY <2>2, <3>1, <3>2, ReturnsStep
  <2>. QED
    BY <2>1, <2>3, <2>4, <2>5, <2>6
<1>2. CASE EndOfDocument
  <2>1. iters # <<>> /\ (\A p \in DOMAIN Doc : ~After(p)) /\ VisitAllReturns(FALSE)
    BY <1>2 DEF EndOfDocument
  <2>. QED
    BY <2>1, ReturnsStep
<1>. QED
  BY <1>1, <1>2 DEF DecoderNext

(* What decoding returned is encoded.                                      *)
IsEncodedAgain ==
  /\ TypeOK /\ OneCall /\ EncoderOK /\ DecoderOK
  /\ value.kind = "node" /\ from = value.node /\ IsClean(Doc)

(* Everything that PHP gets is placed.                                     *)
LEMMA AllPlaced ==
  ASSUME IsEncodedAgain
  PROVE  /\ TypeOK /\ OneCall /\ EncoderOK /\ ItersNest /\ MadeOnce /\ PlacedRight
         /\ read # 0 /\ iters = <<>> /\ DecodesCleanly /\ IsClean(Doc)
         /\ from = made[0] /\ made[0] # 0 /\ made[0] \in DOMAIN heap
         /\ \A p \in DOMAIN Doc :
              /\ placed[p] # 0 <=> Doc[p].type # "unsupported"
              /\ placed[p] # 0 => IsPlacedRight(p)
<1>1. /\ TypeOK /\ OneCall /\ EncoderOK /\ ItersNest /\ MadeOnce /\ PlacedRight /\ VisitedIsPlaced
      /\ value.kind = "node" /\ from = value.node /\ IsClean(Doc)
  BY DEF IsEncodedAgain, DecoderOK
<1>2. read # 0 /\ iters = <<>> /\ value = Reference(made[0])
  BY <1>1 DEF OneCall, NoValue
<1>3. DecodesCleanly /\ from = made[0]
  BY <1>1, <1>2 DEF DecodesCleanly, Fatal, Reference
<1>4. made[0] # 0 /\ made[0] \in DOMAIN heap
  BY <1>1, <1>2, MadeFacts, DocFacts DEF MadeOnce
<1>5. /\ Len(Doc) \in Nat /\ DOMAIN Doc = 1 .. Len(Doc)
      /\ \A p \in DOMAIN Doc :
           /\ Doc[p].in \in 0 .. p - 1 /\ Doc[p].in \in 0 .. Len(Doc)
           /\ Doc[p].in # 0 => Doc[p].in \in DOMAIN Doc /\ Doc[Doc[p].in].type \in Nested
  BY <1>1, <1>2, DocFacts
<1>6. \A p \in DOMAIN Doc : placed[p] # 0 => IsPlacedRight(p)
  BY <1>1, <1>3 DEF PlacedRight
<1>7. \A q : ~IsOpen(q)
  BY <1>2 DEF IsOpen
<1>8. \A p \in DOMAIN Doc : placed[p] # 0 => Doc[p].type # "unsupported"
  BY <1>6 DEF IsPlacedRight, Encodable, Nested
<1>9. \A p \in DOMAIN Doc : Doc[p].type # "unsupported" => placed[p] # 0
  <2> DEFINE T == {p \in DOMAIN Doc : Doc[p].type # "unsupported" /\ placed[p] = 0}
  <2>. SUFFICES ASSUME T # {}
               PROVE  FALSE
    OBVIOUS
  <2>1. T \subseteq Nat
    BY <1>5
  <2>2. PICK p \in T : \A q \in T : p <= q
    BY <2>1, LeastNatural
  <2>3. p \in DOMAIN Doc /\ Doc[p].type # "unsupported" /\ placed[p] = 0
    OBVIOUS
  <2>4. made[Doc[p].in] # 0
    <3>1. CASE Doc[p].in = 0
      BY <3>1, <1>4
    <3>2. CASE Doc[p].in # 0
      <4>1. Doc[p].in \in DOMAIN Doc /\ Doc[Doc[p].in].type \in Nested /\ ~(p <= Doc[p].in)
        BY <3>2, <2>3, <1>5
      <4>2. placed[Doc[p].in] # 0
        BY <4>1, <2>2 DEF Nested
      <4>. QED
        BY <4>1, <4>2, <1>6 DEF IsPlacedRight
    <3>. QED
      BY <3>1, <3>2
  <2>. QED
    BY <2>3, <2>4, <1>1, <1>3, <1>5, <1>7 DEF VisitedIsPlaced
<1>. QED
  BY <1>1, <1>2, <1>3, <1>4, <1>6, <1>8, <1>9

(* What an object refers to is made for an element in it.                  *)
LEMMA MadeRefers ==
  ASSUME IsEncodedAgain, NEW q \in 0 .. Len(Doc), made[q] # 0, NEW n \in DOMAIN heap, RefersTo(made[q], n)
  PROVE  \E p \in DOMAIN Doc : p > q /\ p \in 0 .. Len(Doc) /\ made[p] = n /\ Doc[p].type \in Nested
<1>1. TypeOK /\ PlacedRight /\ read # 0 /\ DecodesCleanly
  BY AllPlaced
<1>2. PICK i \in DOMAIN heap[made[q]].entries : heap[made[q]].entries[i].value = Reference(n)
  BY DEF RefersTo
<1>3. made[q] \in DOMAIN heap
  BY <1>1, MadeFacts
<1>4. i # 0
  BY <1>1, <1>2, <1>3, HeapFacts
<1>5. PICK p \in DOMAIN Doc : Doc[p].in = q /\ placed[p] = i
  BY <1>1, <1>2 DEF PlacedRight
<1>6. IsPlacedRight(p)
  BY <1>4, <1>5, AllPlaced
<1>7. ValueOf(p) = Reference(n) /\ Doc[p].type \in Encodable \cup Nested
  BY <1>2, <1>5, <1>6 DEF IsPlacedRight
<1>8. Doc[p].type \in Nested
  BY <1>7 DEF ValueOf, Reference, Leaf, Encodable
<1>9. made[p] = n
  BY <1>7, <1>8 DEF ValueOf, Reference
<1>10. p > q /\ p \in 0 .. Len(Doc)
  BY <1>1, <1>5, DocFacts
<1>. QED
  BY <1>8, <1>9, <1>10

(* What was decoded has no cycles.                                         *)
LEMMA DecodedIsNotEndless ==
  ASSUME IsEncodedAgain
  PROVE  ~overflow
<1>1. TypeOK /\ OneCall /\ EncoderOK /\ read # 0 /\ from = made[0] /\ made[0] # 0 /\ made[0] \in DOMAIN heap
  BY AllPlaced
<1>2. Len(Doc) \in Nat /\ \A q \in 0 .. Len(Doc) : made[q] # 0 => made[q] \in DOMAIN heap
  BY <1>1, DocFacts, MadeFacts
<1>. PICK S : S = {n \in DOMAIN heap : \E q \in 0 .. Len(Doc) : made[q] # 0 /\ made[q] = n}
  OBVIOUS
<1>3. S \in SUBSET DOMAIN heap /\ from \in S
  BY <1>1, <1>2
<1>4. ASSUME NEW m \in S, NEW n \in DOMAIN heap, RefersTo(m, n)
      PROVE  n \in S
  <2>1. PICK q \in 0 .. Len(Doc) : made[q] # 0 /\ made[q] = m
    OBVIOUS
  <2>2. PICK p \in DOMAIN Doc : p \in 0 .. Len(Doc) /\ made[p] = n
    BY <2>1, <1>4, MadeRefers
  <2>3. n # 0
    BY <1>1, StackFacts
  <2>. QED
    BY <2>2, <2>3
<1>5. Reachable(from) \subseteq S
  BY <1>1, <1>3, <1>4, ReachableFacts
<1>6. ASSUME NEW C \in SUBSET {m \in Reachable(from) : ~IsList(heap[m])}, C # {},
             \A a \in C : \E b \in C : RefersTo(a, b)
      PROVE  FALSE
  <2>. PICK Q : Q = {q \in 0 .. Len(Doc) : made[q] # 0 /\ made[q] \in C}
    OBVIOUS
  <2>1. C \subseteq S
    BY <1>5
  <2>2. Q \subseteq 0 .. Len(Doc) /\ Q # {}
    BY <2>1, <1>6
  <2>3. PICK q \in Q : \A k \in Q : k <= q
    BY <2>2, <1>2, GreatestNatural
  <2>4. PICK b \in C : RefersTo(made[q], b)
    BY <1>6
  <2>5. b \in DOMAIN heap /\ b # 0
    BY <2>1, <1>1, <1>3, StackFacts
  <2>6. PICK p \in DOMAIN Doc : p > q /\ p \in 0 .. Len(Doc) /\ made[p] = b
    BY <2>4, <2>5, MadeRefers
  <2>7. p \in Q
    BY <2>5, <2>6
  <2>. QED
    BY <2>3, <2>6, <2>7, <2>2
<1>7. ~Endless(from)
  BY <1>6 DEF Endless
<1>. QED
  BY <1>1, <1>7, EndlessFollows DEF EncodesUnlessEndless

(* An element that is encoded is of what was placed for an element that    *)
(* was decoded.                                                            *)
Finds(i, p) ==
  p \in DOMAIN Doc /\ placed[p] # 0 /\ made[Doc[p].in] = origins[i].node /\ placed[p] = origins[i].entry

LEMMA FindsOnce ==
  ASSUME IsEncodedAgain, NEW i, NEW p, NEW q, Finds(i, p), Finds(i, q)
  PROVE  p = q
<1>1. TypeOK /\ read # 0 /\ MadeOnce /\ PlacedRight /\ DecodesCleanly
  BY AllPlaced
<1>2. /\ p \in DOMAIN Doc /\ q \in DOMAIN Doc /\ made[Doc[p].in] = made[Doc[q].in]
      /\ placed[p] # 0 /\ placed[p] = placed[q]
  BY DEF Finds
<1>3. made[Doc[p].in] # 0
  BY <1>2, AllPlaced DEF IsPlacedRight
<1>4. Doc[p].in \in 0 .. Len(Doc) /\ Doc[q].in \in 0 .. Len(Doc) /\ p \in Nat /\ q \in Nat
  BY <1>1, <1>2, DocFacts
<1>5. Doc[p].in = Doc[q].in
  BY <1>1, <1>2, <1>3, <1>4 DEF MadeOnce
<1>6. placed[p] \in Nat
  BY <1>1, <1>2, MadeFacts
<1>7. ~(p < q) /\ ~(q < p)
  BY <1>1, <1>2, <1>5, <1>6 DEF PlacedRight
<1>. QED
  BY <1>4, <1>7

(* The elements found for a nested document have its node.                 *)
LEMMA FindsNode ==
  ASSUME IsEncodedAgain, NEW i \in DOMAIN out, NEW p, Finds(i, p)
  PROVE  /\ p \in DOMAIN Doc /\ made[Doc[p].in] = NodeOf(out[i].in) /\ made[Doc[p].in] # 0
         /\ Doc[p].in \in 0 .. Len(Doc) /\ p \in 0 .. Len(Doc)
         /\ EntryOf(i).key = PhpKey(heap[made[Doc[p].in]].class, Doc[p].name)
         /\ EntryOf(i).value = ValueOf(p)
         /\ Doc[p].type \in Encodable \cup Nested
         /\ out[i].type \in Nested <=> Doc[p].type \in Nested
         /\ out[i].type \in Nested => NodeOf(i) = made[p] /\ made[p] # 0 /\ out[i].type = "document"
         /\ out[i].type \notin Nested => out[i].type = Doc[p].type
<1>1. TypeOK /\ EncoderOK /\ read # 0 /\ MadeOnce /\ PlacedRight /\ DecodesCleanly
  BY AllPlaced
<1>2. p \in DOMAIN Doc /\ placed[p] # 0 /\ made[Doc[p].in] = origins[i].node /\ placed[p] = origins[i].entry
  BY DEF Finds
<1>3. origins[i].node = NodeOf(out[i].in) /\ EntryOf(i) = heap[origins[i].node].entries[origins[i].entry]
  BY <1>1, ElementFacts
<1>4. /\ Doc[p].type \in Encodable \cup Nested
      /\ Doc[p].type \in Nested => made[p] # 0
      /\ made[Doc[p].in] # 0
      /\ EntryOf(i) = [key |-> PhpKey(heap[made[Doc[p].in]].class, Doc[p].name), value |-> ValueOf(p)]
  BY <1>2, <1>3, AllPlaced DEF IsPlacedRight
<1>5. Doc[p].in \in 0 .. Len(Doc) /\ p \in 0 .. Len(Doc) /\ p # 0
  BY <1>1, <1>2, DocFacts
<1>6. /\ EntryOf(i).value = ValueOf(p) /\ out[i].type = TypeOf(ValueOf(p))
      /\ ValueOf(p).kind \in Encodable \cup {"node"}
  BY <1>1, <1>4, ElementFacts
<1>7. CASE Doc[p].type \in Nested
  <2>1. ValueOf(p) = Reference(made[p]) /\ ValueOf(p).kind = "node" /\ ValueOf(p).node = made[p]
    BY <1>7 DEF ValueOf, Reference
  <2>2. heap[made[p]].class = "stdClass"
    BY <1>1, <1>4, <1>5, <1>7 DEF MadeOnce
  <2>3. out[i].type = "document"
    BY <2>1, <2>2, <1>6 DEF TypeOf, IsList
  <2>4. NodeOf(i) = made[p]
    BY <2>1, <1>1, <1>6, OriginFacts DEF NodeOf
  <2>. QED
    BY <2>3, <2>4, <1>2, <1>3, <1>4, <1>5, <1>6, <1>7 DEF Nested
<1>8. CASE Doc[p].type \notin Nested
  <2>1. ValueOf(p) = Leaf(Doc[p].type) /\ ValueOf(p).kind = Doc[p].type /\ Doc[p].type \in Encodable
    BY <1>4, <1>8 DEF ValueOf, Leaf
  <2>2. out[i].type = Doc[p].type
    BY <2>1, <1>6 DEF TypeOf, Encodable
  <2>. QED
    BY <2>2, <1>2, <1>3, <1>4, <1>5, <1>6, <1>8
<1>. QED
  BY <1>7, <1>8

LEMMA FindsSome ==
  ASSUME IsEncodedAgain, NEW j \in DOMAIN out
  PROVE  \E p \in DOMAIN Doc : Finds(j, p)
<1>1. TypeOK /\ EncoderOK /\ read # 0 /\ PlacedRight /\ DecodesCleanly /\ from = made[0] /\ made[0] # 0
  BY AllPlaced
<1>2. Len(out) \in Nat /\ DOMAIN out = 1 .. Len(out) /\ Len(Doc) \in Nat
  BY <1>1, OriginFacts, DocFacts
<1>. PICK T : T = {i \in DOMAIN out : \A p \in DOMAIN Doc : ~Finds(i, p)}
  OBVIOUS
<1>. SUFFICES ASSUME T # {}
             PROVE  FALSE
  OBVIOUS
<1>3. T \subseteq Nat
  BY <1>2
<1>4. PICK i \in T : \A k \in T : i <= k
  BY <1>3, LeastNatural
<1>5. i \in DOMAIN out /\ \A p \in DOMAIN Doc : ~Finds(i, p)
  OBVIOUS
<1>. PICK in : in = out[i].in
  OBVIOUS
<1>6. /\ in \in 0 .. i - 1 /\ origins[i].node = NodeOf(in)
      /\ NodeOf(in) \in DOMAIN heap
      /\ origins[i].entry \in DOMAIN heap[NodeOf(in)].entries
      /\ in # 0 => in \in DOMAIN out /\ out[in].type \in Nested
  BY <1>1, <1>5, ElementFacts
<1>7. PICK q \in 0 .. Len(Doc) : made[q] # 0 /\ made[q] = NodeOf(in)
  <2>1. CASE in = 0
    BY <2>1, <1>1, <1>2 DEF NodeOf
  <2>2. CASE in # 0
    <3>1. in \in DOMAIN out /\ ~(i <= in)
      BY <2>2, <1>2, <1>5, <1>6
    <3>2. PICK p \in DOMAIN Doc : Finds(in, p)
      BY <3>1, <1>4
    <3>3. p \in 0 .. Len(Doc) /\ NodeOf(in) = made[p] /\ made[p] # 0
      BY <3>1, <3>2, <2>2, <1>6, FindsNode
    <3>. QED
      BY <3>3
  <2>. QED
    BY <2>1, <2>2
<1>8. PICK p \in DOMAIN Doc : Doc[p].in = q /\ placed[p] = origins[i].entry
  BY <1>1, <1>6, <1>7 DEF PlacedRight
<1>9. origins[i].entry # 0
  BY <1>1, <1>6, HeapFacts
<1>10. Finds(i, p)
  BY <1>6, <1>7, <1>8, <1>9 DEF Finds
<1>. QED
  BY <1>5, <1>10

LEMMA FindsAll ==
  ASSUME IsEncodedAgain, frames = <<>>, ~overflow, NEW r \in DOMAIN Doc, Doc[r].type # "unsupported"
  PROVE  \E i \in DOMAIN out : Finds(i, r)
<1>1. /\ TypeOK /\ EncoderOK /\ read # 0 /\ MadeOnce /\ PlacedRight /\ DecodesCleanly
      /\ from = made[0] /\ made[0] # 0 /\ made[0] \in DOMAIN heap /\ from # 0
  BY AllPlaced
<1>2. /\ Len(Doc) \in Nat /\ DOMAIN Doc = 1 .. Len(Doc)
      /\ \A p \in DOMAIN Doc :
           /\ Doc[p].in \in 0 .. p - 1 /\ Doc[p].in \in 0 .. Len(Doc)
           /\ Doc[p].in # 0 => Doc[p].in \in DOMAIN Doc /\ Doc[Doc[p].in].type \in Nested
  BY <1>1, DocFacts
<1>. PICK T : T = {p \in DOMAIN Doc : Doc[p].type # "unsupported" /\ \A i \in DOMAIN out : ~Finds(i, p)}
  OBVIOUS
<1>. SUFFICES ASSUME T # {}
             PROVE  FALSE
  OBVIOUS
<1>3. T \subseteq Nat
  BY <1>2
<1>4. PICK p \in T : \A k \in T : p <= k
  BY <1>3, LeastNatural
<1>5. p \in DOMAIN Doc /\ Doc[p].type # "unsupported" /\ \A i \in DOMAIN out : ~Finds(i, p)
  OBVIOUS
<1>6. placed[p] # 0 /\ IsPlacedRight(p)
  BY <1>5, AllPlaced
<1>. PICK n : n = made[Doc[p].in]
  OBVIOUS
<1>7. /\ n # 0 /\ placed[p] \in DOMAIN heap[n].entries
      /\ heap[n].entries[placed[p]].value = ValueOf(p)
      /\ Doc[p].type \in Encodable \cup Nested
  BY <1>6 DEF IsPlacedRight
<1>8. ValueOf(p).kind \in Encodable \cup {"node"}
  BY <1>7 DEF ValueOf, Reference, Leaf
<1>9. PICK j \in {0} \cup {q \in DOMAIN out : out[q].type \in Nested} : NodeOf(j) = n /\ ~IsCut(j)
  <2>1. CASE Doc[p].in = 0
    BY <2>1, <1>1 DEF NodeOf, IsCut
  <2>2. CASE Doc[p].in # 0
    <3>. PICK in : in = Doc[p].in
      OBVIOUS
    <3>1. in \in DOMAIN Doc /\ Doc[in].type \in Nested /\ ~(p <= in)
      BY <2>2, <1>2, <1>5
    <3>2. Doc[in].type # "unsupported"
      BY <3>1 DEF Nested
    <3>3. PICK i \in DOMAIN out : Finds(i, in)
      BY <3>1, <3>2, <1>4
    <3>4. out[i].type = "document" /\ NodeOf(i) = made[in] /\ out[i].type \in Nested
      BY <3>1, <3>3, FindsNode
    <3>5. ~IsCut(i)
      BY <3>4 DEF IsCut
    <3>. QED
      BY <3>4, <3>5
  <2>. QED
    BY <2>1, <2>2
<1>10. DOMAIN frames = {}
  OBVIOUS
<1>11. PICK i \in DOMAIN out : out[i].in = j /\ origins[i].entry = placed[p]
  BY <1>1, <1>7, <1>8, <1>9, <1>10 DEF EncoderOK, NothingLeftOut
<1>12. origins[i].node = NodeOf(out[i].in)
  BY <1>1, ElementFacts
<1>13. Finds(i, p)
  BY <1>5, <1>6, <1>9, <1>11, <1>12 DEF Finds
<1>. QED
  BY <1>5, <1>13

LEMMA FindsOne ==
  ASSUME IsEncodedAgain, NEW j \in DOMAIN out, NEW k \in DOMAIN out, NEW p, Finds(j, p), Finds(k, p)
  PROVE  j = k
<1>1. /\ TypeOK /\ EncoderOK /\ read # 0 /\ MadeOnce /\ from = made[0] /\ made[0] # 0
  BY AllPlaced
<1>2. Len(out) \in Nat /\ DOMAIN out = 1 .. Len(out) /\ Len(Doc) \in Nat /\ DOMAIN Doc = 1 .. Len(Doc)
  BY <1>1, OriginFacts, DocFacts
<1>. PICK T : T = {i \in DOMAIN out : \E l \in DOMAIN out : \E q \in DOMAIN Doc : l # i /\ Finds(i, q) /\ Finds(l, q)}
  OBVIOUS
<1>. SUFFICES ASSUME j # k
             PROVE  FALSE
  OBVIOUS
<1>3. T \subseteq Nat /\ j \in T
  <2>1. p \in DOMAIN Doc
    BY DEF Finds
  <2>2. j \in T
    BY <2>1
  <2>. QED
    BY <2>2, <1>2
<1>4. PICK i \in T : \A l \in T : i <= l
  BY <1>3, LeastNatural
<1>5. PICK l \in DOMAIN out, q \in DOMAIN Doc : l # i /\ Finds(i, q) /\ Finds(l, q)
  OBVIOUS
<1>. PICK a : a = out[i].in
  OBVIOUS
<1>. PICK b : b = out[l].in
  OBVIOUS
<1>6. /\ i \in DOMAIN out
      /\ a \in 0 .. i - 1 /\ (a # 0 => a \in DOMAIN out /\ out[a].type \in Nested)
      /\ b \in 0 .. l - 1 /\ (b # 0 => b \in DOMAIN out /\ out[b].type \in Nested)
      /\ NodeOf(a) = NodeOf(b) /\ NodeOf(a) # 0
  BY <1>1, <1>5, ElementFacts, FindsNode
<1>7. origins[i].entry = origins[l].entry /\ origins[i].entry \in Nat
  <2>1. placed[q] \in Nat
    BY <1>1, MadeFacts
  <2>. QED
    BY <2>1, <1>5 DEF Finds
<1>8. a # b
  <2>. SUFFICES ASSUME a = b
               PROVE  FALSE
    OBVIOUS
  <2>1. EntriesInOrder
    BY <1>1 DEF EncoderOK
  <2>3. out[i].in = out[l].in /\ out[l].in = out[i].in
    OBVIOUS
  <2>2. ~(i < l) /\ ~(l < i)
    BY <2>1, <2>3, <1>5, <1>6, <1>7 DEF EntriesInOrder, Siblings
  <2>. QED
    BY <2>2, <1>2, <1>5, <1>6
<1>9. ASSUME NEW c \in DOMAIN out, out[c].type \in Nested
      PROVE  \E r \in DOMAIN Doc : Finds(c, r) /\ NodeOf(c) = made[r] /\ made[r] # 0 /\ r # 0 /\ r \in 0 .. Len(Doc)
  <2>1. PICK r \in DOMAIN Doc : Finds(c, r)
    BY FindsSome
  <2>2. NodeOf(c) = made[r] /\ made[r] # 0
    BY <2>1, <1>9, FindsNode
  <2>. QED
    BY <2>1, <2>2, <1>2
<1>10. NodeOf(0) = made[0] /\ 0 \in 0 .. Len(Doc)
  BY <1>1, <1>2 DEF NodeOf
<1>11. a # 0 /\ b # 0
  <2>1. ASSUME a = 0 PROVE FALSE
    <3>1. b \in DOMAIN out /\ out[b].type \in Nested
      BY <2>1, <1>6, <1>8
    <3>2. PICK r \in DOMAIN Doc : NodeOf(b) = made[r] /\ made[r] # 0 /\ r # 0 /\ r \in 0 .. Len(Doc)
      BY <3>1, <1>9
    <3>. QED
      BY <2>1, <3>2, <1>1, <1>6, <1>10 DEF MadeOnce
  <2>2. ASSUME b = 0 PROVE FALSE
    <3>1. a \in DOMAIN out /\ out[a].type \in Nested
      BY <2>2, <1>6, <1>8
    <3>2. PICK r \in DOMAIN Doc : NodeOf(a) = made[r] /\ made[r] # 0 /\ r # 0 /\ r \in 0 .. Len(Doc)
      BY <3>1, <1>9
    <3>. QED
      BY <2>2, <3>2, <1>1, <1>6, <1>10 DEF MadeOnce
  <2>. QED
    BY <2>1, <2>2
<1>12. PICK r \in DOMAIN Doc : Finds(a, r) /\ NodeOf(a) = made[r] /\ made[r] # 0 /\ r \in 0 .. Len(Doc)
  BY <1>6, <1>9, <1>11
<1>13. PICK s \in DOMAIN Doc : Finds(b, s) /\ NodeOf(b) = made[s] /\ made[s] # 0 /\ s \in 0 .. Len(Doc)
  BY <1>6, <1>9, <1>11
<1>14. r = s
  BY <1>1, <1>6, <1>12, <1>13 DEF MadeOnce
<1>15. a \in T
  BY <1>6, <1>8, <1>11, <1>12, <1>13, <1>14
<1>16. i <= a
  BY <1>4, <1>15
<1>. QED
  BY <1>2, <1>6, <1>16

(* The name of a number is no longer than what it is cut to.               *)
LEMMA NameComesBack ==
  ASSUME NEW class, NEW name \in BsonNames, name.isnum /\ class = "array" => name.num \in 0 .. Wrap - 1
  PROVE  BsonName(PhpKey(class, name)) = name
<1>1. CASE name \in [isnum : {TRUE}, num : Int]
  <2>1. name.isnum \in {TRUE}
    BY <1>1
  <2>2. name.isnum = TRUE
    BY <2>1, Zenon
  <2>3. name = [isnum |-> name.isnum, num |-> name.num] /\ name.num \in Int
    BY <1>1
  <2>4. name = Num(name.num)
    BY <2>2, <2>3, Zenon DEF Num
  <2>5. CASE class = "array"
    <3>1. name.num % Wrap = name.num
      <4>1. name.num \in Nat /\ name.num < Wrap
        BY <2>2, <2>3, <2>5, WrapAssumption
      <4>. QED
        BY <4>1, UncutFacts
    <3>2. PhpKey(class, name) = IntKey(name.num)
      BY <2>2, <2>5 DEF PhpKey
    <3>3. BsonName(IntKey(name.num)) = Num(name.num)
      BY <3>1 DEF BsonName, IntKey
    <3>. QED
      BY <3>2, <3>3, <2>4
  <2>6. CASE class # "array"
    <3>1. PhpKey(class, name) = DigitsKey(name.num)
      BY <2>2, <2>6 DEF PhpKey
    <3>2. BsonName(DigitsKey(name.num)) = Num(name.num)
      BY DEF BsonName, DigitsKey
    <3>. QED
      BY <3>1, <3>2, <2>4
  <2>. QED
    BY <2>5, <2>6
<1>2. CASE name \in [isnum : {FALSE}, str : STRING]
  <2>1. name.isnum \in {FALSE}
    BY <1>2
  <2>2. name.isnum = FALSE
    BY <2>1, Zenon
  <2>3. name = [isnum |-> name.isnum, str |-> name.str]
    BY <1>2
  <2>4. name = Str(name.str)
    BY <2>2, <2>3, Zenon DEF Str
  <2>5. PhpKey(class, name) = NameKey(name.str)
    BY <2>2 DEF PhpKey
  <2>6. BsonName(NameKey(name.str)) = Str(name.str)
    BY DEF BsonName, NameKey
  <2>. QED
    BY <2>4, <2>5, <2>6
<1>. QED
  BY <1>1, <1>2 DEF BsonNames

LEMMA LoosenedFollows ==
  ASSUME IsEncodedAgain, frames = <<>>, ~overflow
  PROVE  IsLoosened(out, Doc, {p \in DOMAIN Doc : Doc[p].type # "unsupported"})
<1>1. /\ TypeOK /\ EncoderOK /\ read # 0 /\ MadeOnce /\ PlacedRight /\ DecodesCleanly /\ IsClean(Doc)
      /\ from = made[0] /\ made[0] # 0
  BY AllPlaced
<1>2. /\ Len(Doc) \in Nat /\ DOMAIN Doc = 1 .. Len(Doc) /\ \A p \in DOMAIN Doc : Doc[p].name \in BsonNames
  BY <1>1, DocFacts
<1>. PICK f : f = [i \in DOMAIN out |-> CHOOSE p \in DOMAIN Doc : Finds(i, p)]
  OBVIOUS
<1>. PICK kept : kept = {p \in DOMAIN Doc : Doc[p].type # "unsupported"}
  OBVIOUS
<1>3. ASSUME NEW i \in DOMAIN out
      PROVE  f[i] \in DOMAIN Doc /\ Finds(i, f[i])
  <2>1. \E p \in DOMAIN Doc : Finds(i, p)
    BY FindsSome
  <2>. QED
    BY <2>1
<1>4. ASSUME NEW i \in DOMAIN out
      PROVE  /\ f[i] \in 0 .. Len(Doc) /\ Doc[f[i]].in \in 0 .. Len(Doc)
             /\ made[Doc[f[i]].in] = NodeOf(out[i].in) /\ made[Doc[f[i]].in] # 0
             /\ EntryOf(i).key = PhpKey(heap[made[Doc[f[i]].in]].class, Doc[f[i]].name)
             /\ Doc[f[i]].type \in Encodable \cup Nested
             /\ out[i].type \in Nested <=> Doc[f[i]].type \in Nested
             /\ out[i].type \in Nested => NodeOf(i) = made[f[i]] /\ made[f[i]] # 0 /\ out[i].type = "document"
             /\ out[i].type \notin Nested => out[i].type = Doc[f[i]].type
    BY <1>3, FindsNode
<1>5. f \in [DOMAIN out -> kept]
  <2>1. \A i \in DOMAIN out : f[i] \in kept
    BY <1>3, <1>4 DEF Encodable, Nested
  <2>. QED
    BY <2>1
<1>6. ASSUME NEW p \in kept
      PROVE  \E i \in DOMAIN out : f[i] = p
  <2>1. PICK i \in DOMAIN out : Finds(i, p)
    BY <1>6, FindsAll
  <2>2. f[i] = p
    BY <2>1, <1>3, FindsOnce
  <2>. QED
    BY <2>2
<1>7. ASSUME NEW i \in DOMAIN out, NEW j \in DOMAIN out, f[i] = f[j]
      PROVE  i = j
  BY <1>3, <1>7, FindsOne
<1>8. ASSUME NEW i \in DOMAIN out
      PROVE  /\ out[i].name = Doc[f[i]].name
             /\ out[i].type = IF Doc[f[i]].type = "array" THEN "document" ELSE Doc[f[i]].type
             /\ Doc[f[i]].in = IF out[i].in = 0 THEN 0 ELSE f[out[i].in]
  <2>. PICK p : p = f[i]
    OBVIOUS
  <2>. PICK a : a = out[i].in
    OBVIOUS
  <2>1. /\ p \in DOMAIN Doc /\ Doc[p].in \in 0 .. Len(Doc)
        /\ made[Doc[p].in] = NodeOf(a) /\ made[Doc[p].in] # 0
        /\ EntryOf(i).key = PhpKey(heap[made[Doc[p].in]].class, Doc[p].name)
        /\ Doc[p].type \in Encodable \cup Nested
        /\ out[i].type \in Nested <=> Doc[p].type \in Nested
        /\ out[i].type \in Nested => out[i].type = "document"
        /\ out[i].type \notin Nested => out[i].type = Doc[p].type
    BY <1>3, <1>4
  <2>2. out[i].name = Doc[p].name
    <3>1. out[i].name = BsonName(EntryOf(i).key)
      BY <1>1, ElementFacts
    <3>2. Doc[p].name.isnum /\ heap[made[Doc[p].in]].class = "array" => Doc[p].name.num \in 0 .. Wrap - 1
      <4>1. heap[made[Doc[p].in]].class = "array" => Doc[p].in = 0
        BY <2>1, <1>1 DEF MadeOnce
      <4>. QED
        BY <4>1, <2>1, <1>1 DEF IsClean, HasPlainNames, StopsVisiting
    <3>. QED
      BY <3>1, <3>2, <2>1, <1>2, NameComesBack
  <2>3. out[i].type = IF Doc[p].type = "array" THEN "document" ELSE Doc[p].type
    <3>1. CASE Doc[p].type \in Nested
      BY <3>1, <2>1 DEF Nested
    <3>2. CASE Doc[p].type \notin Nested
      BY <3>2, <2>1 DEF Nested
    <3>. QED
      BY <3>1, <3>2
  <2>4. Doc[p].in = IF a = 0 THEN 0 ELSE f[a]
    <3>1. CASE a = 0
      <4>1. made[Doc[p].in] = made[0] /\ 0 \in 0 .. Len(Doc)
        BY <3>1, <2>1, <1>1, <1>2 DEF NodeOf
      <4>. QED
        BY <3>1, <4>1, <2>1, <1>1 DEF MadeOnce
    <3>2. CASE a # 0
      <4>1. a \in DOMAIN out /\ out[a].type \in Nested
        BY <3>2, <1>1, ElementFacts
      <4>2. NodeOf(a) = made[f[a]] /\ f[a] \in 0 .. Len(Doc)
        BY <4>1, <1>4
      <4>. QED
        BY <3>2, <4>2, <2>1, <1>1 DEF MadeOnce
    <3>. QED
      BY <3>1, <3>2
  <2>. QED
    BY <2>2, <2>3, <2>4
<1>9. ASSUME NEW i \in DOMAIN out, NEW j \in DOMAIN out, Siblings(out, i, j)
      PROVE  f[i] < f[j]
  <2>1. i < j /\ out[i].in = out[j].in
    BY <1>9 DEF Siblings
  <2>2. origins[i].entry < origins[j].entry
    BY <2>1, <1>1 DEF EncoderOK, EntriesInOrder
  <2>3. Doc[f[i]].in = Doc[f[j]].in
    <3>. PICK a : a = Doc[f[i]].in
      OBVIOUS
    <3>. PICK b : b = Doc[f[j]].in
      OBVIOUS
    <3>1. a \in 0 .. Len(Doc) /\ made[a] = NodeOf(out[i].in) /\ made[a] # 0
      BY <1>4
    <3>2. b \in 0 .. Len(Doc) /\ made[b] = NodeOf(out[j].in)
      BY <1>4
    <3>3. made[a] = made[b]
      BY <3>1, <3>2, <2>1
    <3>. QED
      BY <3>1, <3>2, <3>3, <1>1 DEF MadeOnce
  <2>4. /\ placed[f[i]] = origins[i].entry /\ placed[f[j]] = origins[j].entry
        /\ placed[f[i]] # 0 /\ placed[f[j]] # 0 /\ f[i] \in DOMAIN Doc /\ f[j] \in DOMAIN Doc
    BY <1>3 DEF Finds
  <2>5. placed[f[i]] \in Nat /\ placed[f[j]] \in Nat
    BY <2>4, <1>1, MadeFacts
  <2>6. ~(f[j] < f[i])
    BY <2>2, <2>3, <2>4, <2>5, <1>1 DEF PlacedRight
  <2>7. f[i] # f[j]
    <3>. PICK a \in Nat : a = placed[f[i]]
      BY <2>5
    <3>. PICK b \in Nat : b = placed[f[j]]
      BY <2>5
    <3>1. a < b
      BY <2>2, <2>4
    <3>2. a # b
      BY <3>1
    <3>. QED
      BY <3>2
  <2>. QED
    BY <2>4, <2>6, <2>7, <1>2
<1>10. IsLoosened(out, Doc, kept)
  BY <1>5, <1>6, <1>7, <1>8, <1>9 DEF IsLoosened
<1>. QED
  BY <1>10

LEMMA UndoneFollows ==
  ASSUME TypeOK, OneCall, EncoderOK, DecoderOK
  PROVE  DecodingIsUndone
<1>. SUFFICES ASSUME value.kind = "node" /\ from = value.node /\ IsClean(Doc)
             PROVE  /\ ~overflow
                    /\ frames = <<>> => IsLoosened(out, Doc, {p \in DOMAIN Doc : Doc[p].type # "unsupported"})
  BY DEF DecodingIsUndone
<1>1. IsEncodedAgain
  BY DEF IsEncodedAgain
<1>. QED
  BY <1>1, DecodedIsNotEndless, LoosenedFollows

-----------------------------------------------------------------------------
(* The steps of the script.                                                *)

JsonTyped == json \in {Nothing, Null} \cup [kind : {"doc"}, doc : Seq(BsonElements)]

LEMMA TypesTogether ==
  TypeOK <=> EncoderTyped /\ DecoderTyped /\ JsonTyped /\ QueryTypeOK
  BY DEF TypeOK, EncoderTyped, DecoderTyped, JsonTyped

LEMMA CallsTogether ==
  OneCall <=> /\ iters # <<>> => from = 0
              /\ from = 0 => out = <<>> /\ frames = <<>> /\ ~overflow
              /\ overflow => frames # <<>>
              /\ DecoderCalled
  BY DEF OneCall, DecoderCalled

(* Nothing is applied while nothing is encoded.                            *)
LEMMA NothingApplied ==
  ASSUME IInv, frames = <<>>, ~overflow
  PROVE  \A n \in DOMAIN heap : applied[n] = 0
  BY DEF IInv, EncoderOK, AppliedMeansOpen

(* A call that is not one of the encoder's or the decoder's leaves what    *)
(* these work on as it is.                                                 *)
LEMMA EncoderStays ==
  ASSUME IInv, UNCHANGED <<heap, applied, encoder>>
  PROVE  EncoderOK' /\ EncoderTyped'
<1>1. UNCHANGED <<from, frames, out, origins, overflow>>
  BY DEF encoder
<1>2. EncoderOK'
  <2>0. FramesNest /\ AppliedMeansOpen /\ EveryElementShows /\ EntriesInOrder /\ NothingLeftOut
    BY DEF IInv, EncoderOK
  <2>6. \A p : NodeOf(p)' = NodeOf(p)
    BY <1>1 DEF NodeOf, EntryOf
  <2>7. \A p \in DOMAIN out : ShowsItsEntry(p)' <=> ShowsItsEntry(p)
    BY <2>6, <1>1 DEF ShowsItsEntry, EntryOf
  <2>8. \A p : IsCut(p)' <=> IsCut(p)
    BY <2>6, <1>1 DEF IsCut
  <2>1. FramesNest'
    <3>1. StackSize' = StackSize
      BY DEF StackSize
    <3>2. ASSUME NEW k \in DOMAIN frames, k > 1, NEW at, at = frames[k].at
          PROVE  frames[k].node = NodeOf(at)' /\ ~IsCut(at)'
      BY <3>2, <2>0, <2>6, <2>8 DEF FramesNest
    <3>. QED
      BY <3>1, <3>2, <2>0, <1>1 DEF FramesNest
  <2>2. AppliedMeansOpen'
    BY <2>0, <1>1 DEF AppliedMeansOpen
  <2>3. EveryElementShows'
    <3>1. ASSUME NEW p \in DOMAIN out
          PROVE  /\ origins[p].entry \in DOMAIN heap[origins[p].node].entries
                 /\ EntryOf(p).value.kind \in Encodable \cup {"node"}
                 /\ ShowsItsEntry(p)
                 /\ ~IsCut(out[p].in)
                 /\ \A q \in origins[p].within : q < p /\ out[q].type \in Nested /\ ~IsCut(q)
      BY <2>0 DEF EveryElementShows
    <3>2. \A p : EntryOf(p)' = EntryOf(p)
      BY <1>1 DEF EntryOf
    <3>3. ASSUME NEW p \in DOMAIN out, NEW in, in = out[p].in
          PROVE  ~IsCut(in)'
      BY <3>1, <3>3, <2>8
    <3>. QED
      BY <3>1, <3>2, <3>3, <2>7, <2>8, <1>1 DEF EveryElementShows
  <2>4. EntriesInOrder'
    BY <2>0, <1>1 DEF EntriesInOrder
  <2>5. NothingLeftOut'
    BY <2>0, <2>6, <2>8, <1>1 DEF NothingLeftOut
  <2>. QED
    BY <2>1, <2>2, <2>3, <2>4, <2>5 DEF EncoderOK
<1>3. EncoderTyped'
  <2>1. Frames' = Frames /\ Origins' = Origins
    BY <1>1 DEF Frames, Origins
  <2>. QED
    BY <2>1, <1>1 DEF IInv, TypeOK, EncoderTyped
<1>. QED
  BY <1>2, <1>3

LEMMA DecoderStays ==
  ASSUME IInv, UNCHANGED <<heap, decoder>>, applied' \in Seq(Nat), Len(applied') = Len(heap)
  PROVE  DecoderOK' /\ DecoderTyped' /\ DecoderCalled'
<1>1. UNCHANGED <<bytes, read, iters, value, made, placed>> /\ Doc' = Doc
  BY DEF decoder, Doc
<1>2. ItersNest' /\ MadeOnce'
  BY <1>1 DEF IInv, DecoderOK, ItersNest, CallsNest, MadeOnce
<1>3. DecodesCleanly' <=> DecodesCleanly
  BY <1>1 DEF DecodesCleanly, IsClean, HasPlainNames, StopsVisiting, Siblings
<1>4. PlacedRight' /\ VisitedIsPlaced'
  <2>1. PlacedRight /\ VisitedIsPlaced
    BY DEF IInv, DecoderOK
  <2>2. PlacedRight'
    BY <2>1, <1>1, <1>3, PlacedRightStays
  <2>3. VisitedIsPlaced'
    BY <2>1, <1>1, <1>3 DEF VisitedIsPlaced, IsOpen
  <2>. QED
    BY <2>2, <2>3
<1>5. DecoderTyped'
  <2>1. Iters' = Iters /\ HeapNodes' = HeapNodes
    BY <1>1 DEF Iters, HeapNodes, Values
  <2>. QED
    BY <2>1, <1>1 DEF IInv, TypeOK, DecoderTyped
<1>6. DecoderCalled'
  BY <1>1 DEF IInv, OneCall, DecoderCalled
<1>. QED
  BY <1>2, <1>4, <1>5, <1>6 DEF DecoderOK

(* No document has been read.                                              *)
NoDecoding == read = 0 /\ iters = <<>> /\ value \in {NoValue, Null}

LEMMA NothingDecoded == NoDecoding => DecoderOK /\ DecoderCalled
  BY DEF NoDecoding, DecoderOK, DecoderCalled, ItersNest, CallsNest, MadeOnce, PlacedRight, VisitedIsPlaced, DecodesCleanly,
         NoValue, Null

LEMMA QueryStays ==
  ASSUME QueryTypeOK, UNCHANGED <<query, given>>
  PROVE  QueryTypeOK'
  BY DEF QueryTypeOK

LEMMA AssignStep ==
  ASSUME IInv, NEW n \in DOMAIN heap, NEW key \in PhpKeys, NEW v \in Values, Assign(n, key, v)
  PROVE  IInv'
<1>. PICK new : new = [key |-> key, value |-> v]
  OBVIOUS
<1>1. /\ Idle /\ from = 0 /\ bytes = NoBytes /\ value = NoValue /\ Same(heap[n].entries, key) = {}
      /\ heap' = [heap EXCEPT ![n].entries = Append(@, new)]
      /\ UNCHANGED <<applied, encoder, decoder, json, query, given>>
  BY DEF Assign, Building
<1>2. /\ UNCHANGED <<from, frames, out, origins, overflow, bytes, read, iters, value, made, placed>>
      /\ frames = <<>> /\ ~overflow /\ iters = <<>>
  BY <1>1 DEF encoder, decoder, Idle
<1>3. /\ TypeOK /\ OneCall
  BY DEF IInv
<1>4. out = <<>> /\ read = 0
  BY <1>1, <1>2, <1>3 DEF OneCall
<1>5. heap' = [heap EXCEPT ![n].entries = Put(@, key, v)]
  BY <1>1 DEF Put
<1>6. /\ heap' \in Seq(HeapNodes)' /\ Len(heap') = Len(heap) /\ DOMAIN heap' = DOMAIN heap
      /\ \A m \in DOMAIN heap : KeysDiffer(heap'[m])
  BY <1>3, <1>5, FieldFacts
<1>7. NoEncoding'
  BY <1>1, <1>2, <1>3, <1>4, <1>6, NothingApplied, StackFacts DEF NoEncoding
<1>8. EncoderOK'
  BY <1>7, NothingEncoded, PTL
<1>9. NoDecoding'
  BY <1>1, <1>2, <1>4 DEF NoDecoding
<1>10. DecoderOK' /\ DecoderCalled'
  BY <1>9, NothingDecoded, PTL
<1>11. EncoderTyped' /\ DecoderTyped'
  <2>1. Frames' = Frames /\ Origins' = Origins /\ Iters' = Iters
    BY <1>2, <1>6 DEF Frames, Origins, Iters
  <2>. QED
    BY <2>1, <1>1, <1>2, <1>3, <1>4, <1>6 DEF EncoderTyped, DecoderTyped, TypeOK
<1>12. JsonTyped' /\ QueryTypeOK'
  BY <1>1, <1>3, QueryStays DEF JsonTyped, TypeOK
<1>13. TypeOK'
  BY <1>11, <1>12, TypesTogether, PTL
<1>14. OneCall'
  BY <1>1, <1>2, <1>4, <1>10 DEF OneCall, DecoderCalled
<1>. QED
  BY <1>8, <1>10, <1>13, <1>14 DEF IInv

(* The encoder and the decoder are called; the other is not.               *)
LEMMA EncodingStep ==
  ASSUME IInv, EncodingGoesOn, UNCHANGED <<heap, decoder, json, query, given>>, frames # <<>>
  PROVE  IInv'
<1>1. /\ TypeOK /\ OneCall
      /\ EncoderOK' /\ EncoderTyped' /\ from # 0 /\ from' = from /\ (overflow' => frames' # <<>>)
  BY DEF IInv, EncodingGoesOn
<1>2. UNCHANGED <<bytes, read, iters, value, made, placed>>
  BY DEF decoder
<1>3. applied' \in Seq(Nat) /\ Len(applied') = Len(heap)
  BY <1>1 DEF EncoderTyped
<1>4. DecoderOK' /\ DecoderTyped' /\ DecoderCalled'
  BY <1>3, DecoderStays
<1>5. JsonTyped' /\ QueryTypeOK'
  BY <1>1, QueryStays DEF JsonTyped, TypeOK
<1>6. TypeOK'
  BY <1>1, <1>4, <1>5, TypesTogether, PTL
<1>7. OneCall'
  BY <1>1, <1>2, <1>4 DEF OneCall, DecoderCalled
<1>. QED
  BY <1>1, <1>4, <1>6, <1>7 DEF IInv

LEMMA EncodeStep ==
  ASSUME IInv, Encode
  PROVE  IInv'
<1>1. /\ AppendLeaf \/ SkipLeaf \/ (ListToBson \/ ObjectToBson) \/ Return
      /\ UNCHANGED <<heap, decoder, json, query, given>>
  BY DEF Encode, EncoderNext
<1>2. TypeOK /\ OneCall /\ EncoderOK
  BY DEF IInv
<1>3. frames # <<>>
  BY <1>1 DEF AppendLeaf, SkipLeaf, ListToBson, ObjectToBson, Return, AtEntry, Encoding
<1>4. EncodingGoesOn
  <2>1. CASE AppendLeaf
    BY <2>1, <1>1, <1>2, AppendLeafStep
  <2>2. CASE SkipLeaf
    BY <2>2, <1>1, <1>2, SkipLeafStep
  <2>3. CASE ListToBson \/ ObjectToBson
    BY <2>3, <1>1, <1>2, NestedStep
  <2>4. CASE Return
    BY <2>4, <1>1, <1>2, ReturnStep
  <2>. QED
    BY <1>1, <2>1, <2>2, <2>3, <2>4
<1>. QED
  BY <1>1, <1>3, <1>4, EncodingStep

LEMMA FromArrayStep ==
  ASSUME IInv, NEW n \in DOMAIN heap, FromArray(n)
  PROVE  IInv'
<1>1. /\ Idle /\ StartEncoding(n) /\ UNCHANGED <<heap, decoder, json, query, given>>
  BY DEF FromArray, Building
<1>2. frames = <<>> /\ ~overflow /\ iters = <<>>
  BY <1>1 DEF Idle
<1>3. TypeOK /\ OneCall /\ EncoderOK
  BY DEF IInv
<1>4. EncoderOK' /\ EncoderTyped' /\ ~overflow' /\ from' = n /\ n # 0
  BY <1>1, <1>2, <1>3, StartStep
<1>5. UNCHANGED <<bytes, read, iters, value, made, placed>>
  BY <1>1 DEF decoder
<1>6. applied' \in Seq(Nat) /\ Len(applied') = Len(heap)
  BY <1>1, <1>4 DEF EncoderTyped
<1>7. DecoderOK' /\ DecoderTyped' /\ DecoderCalled'
  BY <1>1, <1>6, DecoderStays
<1>8. JsonTyped' /\ QueryTypeOK'
  BY <1>1, <1>3, QueryStays DEF JsonTyped, TypeOK
<1>9. TypeOK'
  BY <1>4, <1>7, <1>8, TypesTogether, PTL
<1>10. OneCall'
  BY <1>2, <1>4, <1>5, <1>7 DEF OneCall, DecoderCalled
<1>. QED
  BY <1>4, <1>7, <1>9, <1>10 DEF IInv

(* Nothing is encoded while documents are decoded.                         *)
LEMMA DecodingStep ==
  ASSUME TypeOK, OneCall, DecodingGoesOn, \A n \in DOMAIN heap : applied[n] = 0, UNCHANGED <<query, given>>, json' = json,
         from' = 0, frames' = <<>>, out' = <<>>, origins' = <<>>, overflow' = FALSE
  PROVE  IInv'
<1>1. DecoderTyped' /\ DecoderOK' /\ DecoderCalled' /\ \A n \in DOMAIN heap' : applied'[n] = 0
  BY DEF DecodingGoesOn
<1>2. heap' \in Seq(HeapNodes)' /\ applied' \in Seq(Nat) /\ Len(applied') = Len(heap')
  BY <1>1 DEF DecoderTyped
<1>3. Len(heap') \in Nat
  BY <1>2, LenProperties
<1>4. NoEncoding'
  BY <1>1, <1>3 DEF NoEncoding
<1>5. EncoderOK'
  BY <1>4, NothingEncoded, PTL
<1>6. EncoderTyped'
  <2>1. IsBson(out)'
    BY DEF IsBson
  <2>2. frames' \in Seq(Frames') /\ origins' \in Seq(Origins') /\ Len(origins') = Len(out')
    OBVIOUS
  <2>3. 0 \in 0 .. Len(heap')
    BY <1>3
  <2>. QED
    BY <2>1, <2>2, <2>3, <1>2 DEF EncoderTyped
<1>7. JsonTyped' /\ QueryTypeOK'
  <2>1. JsonTyped /\ QueryTypeOK
    BY DEF TypeOK, JsonTyped
  <2>. QED
    BY <2>1, QueryStays DEF JsonTyped
<1>8. TypeOK'
  BY <1>1, <1>6, <1>7, TypesTogether, PTL
<1>9. OneCall'
  BY <1>1 DEF OneCall, DecoderCalled
<1>. QED
  BY <1>1, <1>5, <1>8, <1>9 DEF IInv

LEMMA DecodeStep ==
  ASSUME IInv, Decode
  PROVE  IInv'
<1>1. DecoderNext /\ UNCHANGED <<encoder, json, query, given>>
  BY DEF Decode
<1>2. TypeOK /\ OneCall /\ DecoderOK /\ DecoderCalled
  BY CallsTogether DEF IInv
<1>3. DecodingGoesOn /\ iters # <<>>
  BY <1>1, <1>2, DecoderStep
<1>4. from = 0 /\ out = <<>> /\ frames = <<>> /\ ~overflow
  BY <1>2, <1>3 DEF OneCall
<1>5. origins = <<>>
  <2>1. Len(origins) = 0 /\ origins \in Seq(Origins)
    BY <1>2, <1>4 DEF TypeOK
  <2>. QED
    BY <2>1, EmptySeq
<1>6. UNCHANGED <<from, frames, out, origins, overflow>> /\ overflow = FALSE
  BY <1>1, <1>2, <1>4 DEF encoder, TypeOK
<1>7. \A n \in DOMAIN heap : applied[n] = 0
  BY <1>4, NothingApplied
<1>. QED
  BY <1>1, <1>2, <1>3, <1>4, <1>5, <1>6, <1>7, DecodingStep

LEMMA ToArrayStep ==
  ASSUME IInv, ToArray
  PROVE  IInv'
<1>1. /\ Idle /\ value = NoValue /\ StartDecoding
      /\ from' = 0 /\ out' = <<>> /\ origins' = <<>>
      /\ UNCHANGED <<frames, overflow, bytes, json, query, given>>
  BY DEF ToArray
<1>2. TypeOK /\ OneCall /\ DecoderOK
  BY DEF IInv
<1>3. frames = <<>> /\ overflow = FALSE /\ iters = <<>> /\ read = 0
  BY <1>1, <1>2 DEF Idle, OneCall, TypeOK
<1>4. \A n \in DOMAIN heap : applied[n] = 0
  BY <1>3, NothingApplied
<1>5. DecodingGoesOn
  <2>1. CASE value' = Null /\ UNCHANGED <<heap, applied, read, iters, made, placed>>
    <3>1. NoDecoding'
      BY <2>1, <1>3 DEF NoDecoding
    <3>2. DecoderOK' /\ DecoderCalled'
      BY <3>1, NothingDecoded, PTL
    <3>3. DecoderTyped'
      <4>1. HeapNodes' = HeapNodes /\ iters' \in Seq(Iters')
        BY <2>1, <1>3 DEF HeapNodes, Values
      <4>. QED
        BY <4>1, <2>1, <1>1, <1>2, <1>3 DEF TypeOK, DecoderTyped
    <3>. QED
      BY <2>1, <3>2, <3>3 DEF DecodingGoesOn
  <2>2. CASE bytes.docs # <<>> /\ ReadDocument(1) /\ UNCHANGED value
    <3>1. 1 \in DOMAIN bytes.docs
      <4>1. bytes.docs \in Seq(Seq(BsonElements))
        BY <1>2 DEF TypeOK
      <4>2. Len(bytes.docs) \in Nat /\ Len(bytes.docs) # 0 /\ DOMAIN bytes.docs = 1 .. Len(bytes.docs)
        BY <4>1, <2>2, LenProperties, EmptySeq
      <4>. QED
        BY <4>2
    <3>. QED
      BY <3>1, <2>2, <1>1, <1>2, ReadDocumentStep
  <2>. QED
    BY <2>1, <2>2, <1>1 DEF StartDecoding
<1>. QED
  BY <1>1, <1>2, <1>3, <1>4, <1>5, DecodingStep

(* Calls that neither encode nor decode: the string and what a JSON string *)
(* stands for may change before anything is read.                          *)
LEMMA OtherStep ==
  ASSUME IInv, UNCHANGED <<heap, applied, encoder, read, iters, value, made, placed>>,
         bytes' # bytes => read = 0 /\ iters = <<>> /\ value = NoValue,
         bytes' \in [docs : Seq(Seq(BsonElements)), invalid : BOOLEAN],
         \A i \in DOMAIN bytes'.docs : IsBson(bytes'.docs[i]),
         JsonTyped', QueryTypeOK'
  PROVE  IInv'
<1>1. TypeOK /\ OneCall
  BY DEF IInv
<1>2. EncoderOK' /\ EncoderTyped'
  BY EncoderStays
<1>3. UNCHANGED <<from, frames, out, origins, overflow>>
  BY DEF encoder
<1>4. DecoderOK' /\ DecoderTyped' /\ DecoderCalled'
  <2>1. CASE bytes' = bytes
    BY <2>1, <1>1, DecoderStays DEF decoder, TypeOK
  <2>2. CASE bytes' # bytes
    <3>1. NoDecoding'
      BY <2>2 DEF NoDecoding
    <3>2. DecoderOK' /\ DecoderCalled'
      BY <3>1, NothingDecoded, PTL
    <3>3. DecoderTyped'
      <4>1. HeapNodes' = HeapNodes /\ Iters' = Iters
        BY DEF HeapNodes, Values, Iters
      <4>2. bytes'.docs \in Seq(Seq(BsonElements))
        OBVIOUS
      <4>3. read' \in 0 .. Len(bytes'.docs)
        BY <4>2, <2>2, LenProperties
      <4>. QED
        BY <4>1, <4>3, <2>2, <1>1 DEF TypeOK, DecoderTyped
    <3>. QED
      BY <3>2, <3>3
  <2>. QED
    BY <2>1, <2>2
<1>5. TypeOK'
  BY <1>2, <1>4, TypesTogether, PTL
<1>6. OneCall'
  BY <1>1, <1>3, <1>4 DEF OneCall, DecoderCalled
<1>. QED
  BY <1>2, <1>4, <1>5, <1>6 DEF IInv

LEMMA ReceiveStep ==
  ASSUME IInv, NEW doc \in Received \cup Encoded, NEW invalid \in BOOLEAN, Receive(doc, invalid)
  PROVE  IInv'
<1>1. /\ Idle /\ value = NoValue
      /\ bytes' = [docs |-> IF invalid THEN bytes.docs ELSE Append(bytes.docs, doc), invalid |-> invalid]
      /\ UNCHANGED <<heap, applied, encoder, read, iters, value, made, placed, json, query, given>>
  BY DEF Receive
<1>2. /\ TypeOK /\ OneCall
      /\ bytes.docs \in Seq(Seq(BsonElements)) /\ \A i \in DOMAIN bytes.docs : IsBson(bytes.docs[i])
  BY DEF IInv, TypeOK
<1>3. read = 0 /\ iters = <<>> /\ value = NoValue
  BY <1>1, <1>2 DEF Idle, OneCall
<1>4. IsBson(doc)
  <2>1. doc \in Received \/ doc = out
    BY DEF Encoded
  <2>. QED
    BY <2>1, <1>2, ReceivedAssumption DEF TypeOK
<1>5. doc \in Seq(BsonElements)
  BY <1>4 DEF IsBson
<1>6. /\ Append(bytes.docs, doc) \in Seq(Seq(BsonElements))
      /\ \A i \in DOMAIN Append(bytes.docs, doc) : IsBson(Append(bytes.docs, doc)[i])
  <2>1. /\ Append(bytes.docs, doc) \in Seq(Seq(BsonElements))
        /\ DOMAIN bytes.docs = 1 .. Len(bytes.docs) /\ Len(bytes.docs) \in Nat
        /\ DOMAIN Append(bytes.docs, doc) = 1 .. Len(bytes.docs) + 1
        /\ \A i \in DOMAIN bytes.docs : Append(bytes.docs, doc)[i] = bytes.docs[i]
        /\ Append(bytes.docs, doc)[Len(bytes.docs) + 1] = doc
    BY <1>2, <1>5, AppendFacts
  <2>2. \A i \in 1 .. Len(bytes.docs) + 1 : i \in DOMAIN bytes.docs \/ i = Len(bytes.docs) + 1
    BY <2>1
  <2>3. ASSUME NEW i \in DOMAIN Append(bytes.docs, doc)
        PROVE  IsBson(Append(bytes.docs, doc)[i])
    <3>1. CASE i \in DOMAIN bytes.docs
      BY <3>1, <2>1, <1>2
    <3>2. CASE i = Len(bytes.docs) + 1
      BY <3>2, <2>1, <1>4
    <3>. QED
      BY <3>1, <3>2, <2>1, <2>2
  <2>. QED
    BY <2>1, <2>3
<1>7. /\ bytes' \in [docs : Seq(Seq(BsonElements)), invalid : BOOLEAN]
      /\ \A i \in DOMAIN bytes'.docs : IsBson(bytes'.docs[i])
  <2>1. CASE invalid
    BY <2>1, <1>1, <1>2
  <2>2. CASE ~invalid
    BY <2>2, <1>1, <1>6
  <2>. QED
    BY <2>1, <2>2
<1>8. JsonTyped' /\ QueryTypeOK'
  BY <1>1, <1>2, QueryStays DEF JsonTyped, TypeOK
<1>. QED
  BY <1>1, <1>3, <1>7, <1>8, OtherStep

LEMMA ToJSONStep ==
  ASSUME IInv, ToJSON
  PROVE  IInv'
<1>1. /\ json' = IF bytes.docs = <<>> THEN Null ELSE [kind |-> "doc", doc |-> bytes.docs[1]]
      /\ UNCHANGED <<heap, applied, encoder, decoder, query, given>>
  BY DEF ToJSON
<1>2. /\ TypeOK /\ bytes.docs \in Seq(Seq(BsonElements)) /\ \A i \in DOMAIN bytes.docs : IsBson(bytes.docs[i])
      /\ bytes \in [docs : Seq(Seq(BsonElements)), invalid : BOOLEAN]
  BY DEF IInv, TypeOK
<1>3. UNCHANGED <<bytes, read, iters, value, made, placed>>
  BY <1>1 DEF decoder
<1>4. JsonTyped'
  <2>1. CASE bytes.docs = <<>>
    BY <2>1, <1>1 DEF JsonTyped
  <2>2. CASE bytes.docs # <<>>
    <3>1. bytes.docs[1] \in Seq(BsonElements)
      <4>1. 1 \in 1 .. Len(bytes.docs)
        BY <2>2, <1>2, LenProperties, EmptySeq
      <4>. QED
        BY <4>1, <1>2, ElementOfSeq
    <3>. QED
      BY <3>1, <2>2, <1>1 DEF JsonTyped
  <2>. QED
    BY <2>1, <2>2
<1>5. QueryTypeOK'
  BY <1>1, <1>2, QueryStays DEF TypeOK
<1>. QED
  BY <1>1, <1>2, <1>3, <1>4, <1>5, OtherStep

LEMMA FromJSONStep ==
  ASSUME IInv, NEW doc \in Received, FromJSON(doc)
  PROVE  IInv'
<1>1. /\ Building
      /\ json' = [kind |-> "doc", doc |-> doc]
      /\ bytes' = [docs |-> <<doc>>, invalid |-> FALSE]
      /\ UNCHANGED <<heap, applied, encoder, read, iters, value, made, placed, query, given>>
  BY DEF FromJSON
<1>2. TypeOK /\ OneCall
  BY DEF IInv
<1>3. read = 0 /\ iters = <<>> /\ value = NoValue
  BY <1>1, <1>2 DEF Building, Idle, OneCall
<1>4. IsBson(doc) /\ doc \in Seq(BsonElements)
  BY ReceivedAssumption DEF IsBson
<1>5. <<doc>> \in Seq(Seq(BsonElements)) /\ \A i \in DOMAIN <<doc>> : IsBson(<<doc>>[i])
  BY <1>4
<1>6. JsonTyped' /\ QueryTypeOK'
  BY <1>1, <1>2, <1>4, QueryStays DEF JsonTyped, TypeOK
<1>. QED
  BY <1>1, <1>3, <1>5, <1>6, OtherStep

LEMMA NewQueryStep ==
  ASSUME IInv, NewQuery
  PROVE  IInv'
<1>1. ConstructQuery /\ UNCHANGED <<heap, applied, encoder, decoder, json>>
  BY DEF NewQuery
<1>2. TypeOK
  BY DEF IInv
<1>3. UNCHANGED <<bytes, read, iters, value, made, placed>>
  BY <1>1 DEF decoder
<1>4. JsonTyped' /\ QueryTypeOK'
  BY <1>1, <1>2, ConstructQueryFacts DEF JsonTyped, TypeOK, QueryInv
<1>. QED
  BY <1>1, <1>2, <1>3, <1>4, OtherStep DEF TypeOK

LEMMA ScriptStarts == Init => IInv
<1>. SUFFICES ASSUME Init
             PROVE  IInv
  OBVIOUS
<1>1. /\ heap \in [DOMAIN Classes -> [class : ClassNames, entries : {<<>>}]]
      /\ applied = [n \in DOMAIN heap |-> 0]
      /\ from = 0 /\ frames = <<>> /\ out = <<>> /\ origins = <<>> /\ overflow = FALSE
      /\ bytes = NoBytes /\ read = 0 /\ iters = <<>> /\ value = NoValue
      /\ json = Nothing /\ QueriesInit
  BY DEF Init, EncoderInit, DecoderInit
<1>2. Len(Classes) \in Nat /\ DOMAIN Classes = 1 .. Len(Classes)
  BY ScriptAssumption, LenProperties
<1>3. \A n \in DOMAIN heap : heap[n] \in HeapNodes /\ heap[n].entries = <<>>
  <2>. SUFFICES ASSUME NEW n \in DOMAIN heap
               PROVE  heap[n] \in HeapNodes /\ heap[n].entries = <<>>
    OBVIOUS
  <2>1. heap[n] \in [class : ClassNames, entries : {<<>>}]
    BY <1>1
  <2>2. <<>> \in Seq([key : PhpKeys, value : Values])
    OBVIOUS
  <2>. QED
    BY <2>1, <2>2 DEF HeapNodes, ClassNames
<1>4. heap \in Seq(HeapNodes) /\ DOMAIN heap = 1 .. Len(Classes) /\ Len(heap) = Len(Classes)
  <2>1. heap \in [1 .. Len(Classes) -> HeapNodes]
    BY <1>1, <1>2, <1>3
  <2>2. heap \in Seq(HeapNodes)
    BY <2>1, <1>2, SeqDef
  <2>. QED
    BY <2>1, <2>2, <1>2, LenProperties
<1>5. applied \in Seq(Nat) /\ Len(applied) = Len(heap)
  <2>1. applied \in [1 .. Len(Classes) -> Nat]
    BY <1>1, <1>4
  <2>2. applied \in Seq(Nat)
    BY <2>1, <1>2, SeqDef
  <2>. QED
    BY <2>1, <2>2, <1>2, <1>4, LenProperties
<1>6. \A n \in DOMAIN heap : KeysDiffer(heap[n])
  <2>1. \A n \in DOMAIN heap : DOMAIN heap[n].entries = {}
    BY <1>3
  <2>. QED
    BY <2>1 DEF KeysDiffer
<1>7. NoEncoding
  BY <1>1, <1>2, <1>4 DEF NoEncoding
<1>8. EncoderOK
  BY <1>7, NothingEncoded
<1>9. NoDecoding
  BY <1>1 DEF NoDecoding
<1>10. DecoderOK /\ DecoderCalled
  BY <1>9, NothingDecoded
<1>11. EncoderTyped
  <2>1. IsBson(out)
    BY <1>1 DEF IsBson
  <2>2. frames \in Seq(Frames) /\ origins \in Seq(Origins) /\ Len(origins) = Len(out)
    BY <1>1
  <2>3. from \in 0 .. Len(heap)
    BY <1>1, <1>2, <1>4
  <2>. QED
    BY <2>1, <2>2, <2>3, <1>1, <1>5 DEF EncoderTyped
<1>12. DecoderTyped
  BY <1>1, <1>2, <1>4, <1>5, <1>6 DEF DecoderTyped, NoBytes
<1>13. JsonTyped /\ QueryTypeOK
  BY <1>1, QueriesStart DEF JsonTyped, QueryInv
<1>14. TypeOK
  BY <1>11, <1>12, <1>13, TypesTogether
<1>15. OneCall
  BY <1>1, <1>10, CallsTogether
<1>. QED
  BY <1>8, <1>10, <1>14, <1>15 DEF IInv

LEMMA ScriptSteps == IInv /\ [Next]_vars => IInv'
<1>. SUFFICES ASSUME IInv, [Next]_vars
             PROVE  IInv'
  OBVIOUS
<1>1. ASSUME NEW n \in DOMAIN heap, NEW key \in Keys,
             NEW v \in [kind : {"node"}, node : DOMAIN heap] \cup [kind : Leaves], Assign(n, key, v)
      PROVE  IInv'
  <2>1. key \in PhpKeys /\ v \in Values
    BY ScriptAssumption DEF Values
  <2>. QED
    BY <2>1, <1>1, AssignStep
<1>2. CASE UNCHANGED vars
  <2>1. UNCHANGED <<heap, applied, encoder, decoder, json, query, given>>
    BY <1>2 DEF vars
  <2>2. UNCHANGED <<bytes, read, iters, value, made, placed>>
    BY <2>1 DEF decoder
  <2>3. TypeOK
    BY DEF IInv
  <2>4. JsonTyped' /\ QueryTypeOK'
    BY <2>1, <2>3, QueryStays DEF JsonTyped, TypeOK
  <2>. QED
    BY <2>1, <2>2, <2>3, <2>4, OtherStep DEF TypeOK
<1>3. CASE Next
  BY <1>1, <1>3, FromArrayStep, EncodeStep, ReceiveStep, ToArrayStep, DecodeStep, ToJSONStep, FromJSONStep, NewQueryStep
     DEF Next
<1>. QED
  BY <1>2, <1>3

-----------------------------------------------------------------------------
(* The theorems.                                                           *)

(* In every state of a script, what is encoded shows the value up to where *)
(* the encoder is, and what is decoded the document up to where the        *)
(* decoder is.                                                             *)
THEOREM ScriptInvariance == Spec => []IInv
  BY ScriptStarts, ScriptSteps, PTL DEF Spec

(* Every variable has its type, whatever the script builds and receives.   *)
THEOREM DocumentsTyped == Spec => []TypeOK
  BY ScriptInvariance, PTL DEF IInv

(* Encoding overflows the stack exactly when there is a cycle of nodes     *)
(* that are no lists (the guard of zval_to_bson counts only lists).        *)
THEOREM OverflowIsACycle == Spec => []EncodesUnlessEndless
<1>1. IInv => EncodesUnlessEndless
  BY EndlessFollows DEF IInv
<1>. QED
  BY <1>1, ScriptInvariance, PTL

(* The elements of an array have the numbers of its entries in their order *)
(* (php_phongo_is_array_or_document, phongo_bson_append).                  *)
THEOREM ListsKeepTheirOrder == Spec => []ArraysAscend
<1>1. IInv => ArraysAscend
  BY ArraysFollow DEF IInv
<1>. QED
  BY <1>1, ScriptInvariance, PTL

(* A document that is encoded is the script's value with nothing lost,     *)
(* added, repeated or moved (zval_to_bson).                                *)
THEOREM EncodingIsFaithful == Spec => []LeavesKeepTheirPaths
<1>1. IInv => LeavesKeepTheirPaths
  BY PathsFollow DEF IInv
<1>. QED
  BY <1>1, ScriptInvariance, PTL

(* Names of one document are the same only where an integer key is cut or  *)
(* a property is private or of digits (zval_to_bson).                      *)
THEOREM NamesClashOnlyByTheirKeys == Spec => []NamesClashOnlyWhenCut
<1>1. IInv => NamesClashOnlyWhenCut
  BY NamesFollow DEF IInv
<1>. QED
  BY <1>1, ScriptInvariance, PTL

(* Encoding what a clean document was decoded to ends, and gives this      *)
(* document again, its arrays loosened to objects (bson_to_zval, the       *)
(* visitors).                                                              *)
THEOREM EncodingUndoesDecoding == Spec => []DecodingIsUndone
<1>1. IInv => DecodingIsUndone
  BY UndoneFollows DEF IInv
<1>. QED
  BY <1>1, ScriptInvariance, PTL

(* A script constructs its queries as Queries says, whatever else it does  *)
(* in between: what is proved of queries is so for it.                     *)
THEOREM ScriptConstructsQueries == Spec => QueriesSpec
<1>1. Init => QueriesInit
  BY DEF Init
<1>2. [Next]_vars => [ConstructQuery]_<<query, given>>
  BY DEF Next, vars, Assign, FromArray, Encode, Receive, ToArray, Decode, ToJSON, FromJSON, NewQuery
<1>. QED
  BY <1>1, <1>2, PTL DEF Spec, QueriesSpec

=============================================================================
