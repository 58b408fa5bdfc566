---------------------------- MODULE MCDocuments -----------------------------
(* Small instance of Documents: an array or object and an array, and       *)
(* integers cut to three values.                                           *)
EXTENDS Documents

MCClasses == <<{"array", "stdClass"}, {"array"}>>

MCKeys == {IntKey(-1), IntKey(0), IntKey(1), IntKey(3), NameKey("a"), PrivateKey("a")}

Field(name, in) == Element(name, "scalar", in)

(* An oid, a nested array, and names that an array turns into integers; a  *)
(* type PHP gets nothing for; negative integers, of which an array makes   *)
(* keys; an empty name in a nested document; a name twice; an element that *)
(* is corrupt, a string, and both at different depths.                     *)
MCReceived ==
  {<<Element(Str("_id"), "oid", 0), Element(Str("b"), "array", 0), Field(Num(0), 2), Field(Num(1), 2)>>,
   <<Field(Num(1), 0), Element(Str("a"), "unsupported", 0), Field(Str(""), 0)>>,
   <<Field(Num(-1), 0), Element(Num(2), "document", 0), Field(Num(-1), 2)>>,
   <<Element(Str("a"), "document", 0), Field(Str(""), 1), Field(Str("b"), 0)>>,
   <<Field(Str("a"), 0), Field(Str("b"), 0), Element(Str("a"), "oid", 0)>>,
   <<Element(Str("a"), "document", 0), Field(Str("b"), 1), Element(Str("c"), "corrupt", 1), Field(Str("d"), 1)>>,
   <<Element(Str("a"), "document", 0), Element(Str("c"), "invalid_utf8", 1), Field(Str("d"), 0)>>,
   <<Element(Str("a"), "document", 0), Element(Str("b"), "document", 1), Element(Str("c"), "invalid_utf8", 2),
     Field(Str("d"), 1), Element(Str("e"), "corrupt", 0), Field(Str("f"), 0)>>}

(* In the order in which they are given.                                   *)
MCModifiers == {<<>>, <<"$query", "$explain">>, <<"$explain", "$orderby">>}

MCLimits == {-1, 0, 5}

=============================================================================
