------------------------------ MODULE Queries -------------------------------
(***************************************************************************)
(* A script that constructs queries: Query::__construct (MongoDB/Query.c)  *)
(* with any arguments.  "query" is the object that was constructed last.   *)
(***************************************************************************)
EXTENDS QueryInit

CONSTANTS
  Limits,    (* The numbers a script gives as an option of a query.         *)
  Modifiers  (* The keys of the modifiers it gives: those of a hash table,  *)
             (* in their order.                                             *)

(* The keys a query document can have.                                     *)
EntryKeys == {"$query", "$orderby"} \cup UNION {{keys[i] : i \in DOMAIN keys} : keys \in Modifiers}

ASSUME ModifierAssumption ==
  \A keys \in Modifiers :
    keys \in Seq(EntryKeys) /\ \A i, j \in DOMAIN keys : keys[i] = keys[j] => i = j

ASSUME LimitAssumption == Limits \subseteq Int

VARIABLES
  query,  (* The Query object.                                             *)
  given   (* History: the arguments it was constructed from.               *)

Nothing == [kind |-> "none"]

(* What is constructed, and what the query document of it is made of.      *)
Entries == [key : EntryKeys, from : Arguments]

QueryObjects == [query : Seq(Entries), built : BOOLEAN, selector : BOOLEAN, limit : 0..Width - 1,
                 warned : BOOLEAN]

QueryArguments == {args \in [Arguments -> Given \cup {Absent}] : args["filter"] # Absent}

QueryTypeOK ==
  /\ query \in QueryObjects
  /\ given = Nothing \/ given \in [kind : {"query"}, args : QueryArguments, keys : Modifiers, limit : Limits]

QueriesInit == query = Unbuilt /\ given = Nothing

(* Query::__construct, which throws nothing.                               *)
ConstructQuery ==
  \E args \in QueryArguments, keys \in Modifiers, limit \in Limits :
    /\ given' = [kind |-> "query", args |-> args, keys |-> keys, limit |-> limit]
    /\ query' = PhongoQueryInit(args["filter"], args["modifiers"], keys,
                                args["projection"], args["sort"], limit)

QueriesSpec == QueriesInit /\ [][ConstructQuery]_<<query, given>>

-----------------------------------------------------------------------------
(* Properties.                                                             *)

(* A query that was constructed without a warning holds the filter, once,  *)
(* whatever the modifiers say, and each option that was given              *)
(* (phongo_query_init); otherwise it holds no query.                       *)
BuiltMeansComplete ==
  given.kind = "query" =>
    LET sources(key) == {query.query[i].from : i \in {j \in DOMAIN query.query : query.query[j].key = key}}
    IN  /\ query.built <=> ~query.warned
        /\ query.built =>
             /\ sources("$query") = {"filter"}
             /\ given.args["sort"] # Absent => sources("$orderby") = {"sort"}
             /\ query.selector <=> given.args["projection"] # Absent
             /\ given.args["modifiers"] # Absent =>
                  \A i \in DOMAIN given.keys : sources(given.keys[i]) # {}

=============================================================================
