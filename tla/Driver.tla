------------------------------- MODULE Driver -------------------------------
(***************************************************************************)
(* The objects of one PHP request and the libmongoc memory behind them:    *)
(* constructors, the methods that follow pointers, and what is released    *)
(* when a script drops an object or the request ends.                      *)
(*                                                                         *)
(* An object is its class and the fields that are not NULL.  Only clients  *)
(* have identities: a cursor keeps a pointer to the client that made it,   *)
(* and no reference.  Following NULL, handing it to libmongoc, or          *)
(* following a pointer to a destroyed client ends the script (undefined    *)
(* behaviour, taken as a crash); only of a bulk operation without a client *)
(* libmongoc makes an error.  "made" is history: how an object came to be. *)
(* Methods that only read, or do nothing yet, are steps only where they    *)
(* can end the script.                                                     *)
(*                                                                         *)
(* unserialize, which makes an object without its constructor too, is left *)
(* out.  What executions do otherwise is in WriteExecution and             *)
(* ResultIteration.                                                        *)
(***************************************************************************)
EXTENDS Classes, Integers, FiniteSets, Functions

CONSTANTS
  Handles,     (* Those of the objects alive at one time.                   *)
  MaxClients,  (* Bound on the clients of a request.                        *)
  MaxIdle      (* Bound on the objects of classes that do nothing here.     *)

ASSUME BoundAssumption == IsFiniteSet(Handles) /\ MaxClients \in Nat /\ MaxIdle \in Nat

VARIABLES
  objects,  (* The objects of the script, by handle.                        *)
  clients,  (* mongoc_client_t, and the class of the object that made it.   *)
  crash,    (* What ended the script, if anything did.                      *)
  over      (* Whether the request has ended.                               *)

vars == <<objects, clients, crash, over>>

ClientIds == 1..MaxClients

Object(class, made, set, client) ==
  [class |-> class, made |-> made, set |-> set, client |-> client]

NoObject == Object("none", "none", {}, 0)

NoClient == [state |-> "none", maker |-> "none"]

NoCrash == [reason |-> "none", by |-> "none", object |-> NoObject]

Made == {"new", "again", "overridden", "mongoc", "result"}

Fields == UNION {Classes[class].fields : class \in ClassNames}

(* An object knows a client exactly when one of its fields leads there.    *)
Objects ==
  {o \in [class : ClassNames, made : Made, set : SUBSET Fields, client : ClientIds \cup {0}] :
     /\ o.set \subseteq Classes[o.class].fields
     /\ o.client # 0 <=> o.set \cap {"client", "cursor"} # {}}

(* Every variable has its type.                                            *)
TypeOK ==
  /\ objects \in [Handles -> Objects \cup {NoObject}]
  /\ clients \in [ClientIds -> [state : {"none", "live", "forgotten", "destroyed"},
                                maker : {"none", "Manager", "Server"}]]
  /\ over \in BOOLEAN
  /\ crash \in [reason : {"none", "null", "dangling", "double"},
                by : {"none", "method", "release"}, object : Objects \cup {NoObject}]

(* The classes are registered, and no object exists.                       *)
Init ==
  /\ objects = [h \in Handles |-> NoObject]
  /\ clients = [c \in ClientIds |-> NoClient]
  /\ crash = NoCrash /\ over = FALSE

Running == crash = NoCrash /\ ~over

Alive == {h \in Handles : objects[h] # NoObject}

Is(h, class) == objects[h].class = class

Has(h, field) == field \in objects[h].set

(* The handles for another object.                                         *)
Fresh == Handles \ Alive

FreshClient == {c \in ClientIds : clients[c] = NoClient /\ \A d \in 1..c - 1 : clients[d] # NoClient}

CrashBy(h, reason) ==
  /\ crash' = [reason |-> reason, by |-> "method", object |-> objects[h]]
  /\ UNCHANGED <<objects, clients, over>>

-----------------------------------------------------------------------------
(* Constructors: the fields one assigns, those it leaves not NULL, and     *)
(* whether it throws.                                                      *)

Done(assigned, set) == [assigned |-> assigned, set |-> set, throws |-> FALSE]
Thrown(assigned, set) == [Done(assigned, set) EXCEPT !.throws = TRUE]

(* The string is no URI.                                                   *)
ConstructManager == {Done({"client"}, {"client"}), Thrown({"client"}, {})}

ConstructServer == {Done({"client", "host"}, {"client", "host"}), Thrown({"client"}, {})}

ConstructCommand == {Done({"bson"}, {"bson"})}

(* With a projection and without, and with options it only warns of, after *)
(* or before the projection (QueryInit).                                   *)
ConstructQuery ==
  {Done({"query"}, {"query"}), Done({"query", "selector"}, {"query", "selector"}),
   Done({}, {}), Done({"selector"}, {"selector"})}

(* The mode is none, or the tags do not go with it.                        *)
ConstructReadPreference ==
  {Done({"read_preference"}, {"read_preference"}), Thrown({}, {}),
   Thrown({"read_preference"}, {"read_preference"})}

ConstructWriteConcern == {Done({"write_concern"}, {"write_concern"})}

ConstructWriteBatch == {Done({"batch"}, {"batch"})}

(* The string is no id.                                                    *)
ConstructObjectID == {Done({"oid"}, {"oid"}), Thrown({}, {})}

(* Those of results only look at their arguments.                          *)
ConstructResult == {Done({}, {})}

Constructors ==
  [Manager |-> ConstructManager, Server |-> ConstructServer, Command |-> ConstructCommand,
   Query |-> ConstructQuery, ReadPreference |-> ConstructReadPreference,
   WriteConcern |-> ConstructWriteConcern, WriteBatch |-> ConstructWriteBatch,
   ObjectID |-> ConstructObjectID, QueryResult |-> ConstructResult,
   CommandResult |-> ConstructResult]

(* Other classes have none, or one that does nothing.  That a constructor  *)
(* throws for its arguments before it does anything is left out.           *)
OutcomesOf(class) == IF class \in DOMAIN Constructors THEN Constructors[class] ELSE {Done({}, {})}

(* A client that a constructor has just made, or none.                     *)
ClientFor(outcome) == IF "client" \in outcome.set THEN FreshClient ELSE {0}

Connect(st, c, class) ==
  IF c = 0 THEN st ELSE [st EXCEPT ![c] = [state |-> "live", maker |-> class]]

(* The client of h when its pointer is assigned again.                     *)
Forget(st, h, outcome) ==
  IF "client" \in outcome.assigned /\ Has(h, "client")
  THEN [st EXCEPT ![objects[h].client].state = "forgotten"] ELSE st

Idle == ClassNames \ {"Command", "CommandResult", "Manager", "ObjectID", "Query", "QueryResult",
                      "Server", "WriteBatch", "WriteError", "WriteResult"}

IdleRoom(class) ==
  class \in Idle => Cardinality({h \in Alive : objects[h].class \in Idle}) < MaxIdle

(* new.  An object whose constructor throws is released at once.           *)
New(class) ==
  /\ Running /\ IdleRoom(class)
  /\ \E outcome \in OutcomesOf(class), h \in Fresh : \E c \in ClientFor(outcome) :
       /\ clients' = Connect(clients, c, class)
       /\ IF outcome.throws
          THEN objects' = objects
          ELSE objects' = [objects EXCEPT ![h] = Object(class, "new", outcome.set, c)]
  /\ UNCHANGED <<crash, over>>

(* A subclass whose constructor does not call that of its parent.          *)
NewOverridden(class) ==
  /\ Running /\ ~Classes[class].final /\ Classes[class].fields # {}
  /\ \E h \in Fresh : objects' = [objects EXCEPT ![h] = Object(class, "overridden", {}, 0)]
  /\ UNCHANGED <<clients, crash, over>>

(* __construct called as a method: what its fields pointed to is neither   *)
(* released nor known any more.                                            *)
ConstructAgain(h) ==
  /\ Running /\ h \in Alive /\ objects[h].class \in DOMAIN Constructors
  /\ \E outcome \in OutcomesOf(objects[h].class) : \E c \in ClientFor(outcome) :
       /\ clients' = Connect(Forget(clients, h, outcome), c, objects[h].class)
       /\ objects' = [objects EXCEPT ![h] =
            Object(@.class, IF outcome.assigned = {} THEN @.made ELSE "again",
                   (@.set \ outcome.assigned) \cup outcome.set,
                   IF "client" \in outcome.assigned THEN c ELSE @.client)]
  /\ UNCHANGED <<crash, over>>

-----------------------------------------------------------------------------
(* Executions.                                                             *)

IsResult(h) == objects[h].class \in {"QueryResult", "CommandResult"}

(* What a Manager or a Server takes to a server.                           *)
Argument == [Query |-> "query", Command |-> "bson", WriteBatch |-> "batch"]

(* The client of h is NULL, or was destroyed.                              *)
NoUseOf(h, field) ==
  IF ~Has(h, field) THEN "null"
  ELSE IF clients[objects[h].client].state = "destroyed" THEN "dangling" ELSE "none"

(* executeQuery and executeCommand.  An execution fails, or its result is  *)
(* used; the cursor of any other is never destroyed.  Without a document   *)
(* mongoc_cursor_next leaves NULL in the pointer for firstBatch, which     *)
(* phongo_execute_command has not initialised (ResultIteration).           *)
ExecuteRead(h, arg) ==
  /\ Running /\ objects[h].class \in {"Manager", "Server"}
  /\ objects[arg].class \in {"Query", "Command"}
  /\ IF NoUseOf(h, "client") # "none" THEN CrashBy(h, NoUseOf(h, "client"))
     ELSE IF ~Has(arg, Argument[objects[arg].class]) THEN CrashBy(arg, "null")
     ELSE /\ \/ objects' = objects
             \/ \E r \in Fresh, set \in {{"cursor"}, {"cursor", "firstBatch"}} :
                  objects' = [objects EXCEPT ![r] =
                    Object(IF Is(arg, "Query") THEN "QueryResult" ELSE "CommandResult",
                           "mongoc", set, objects[h].client)]
          /\ UNCHANGED <<clients, crash, over>>

(* What phongo_writeresult_init and phongo_writeerror_init find in a reply.*)
WriteResults ==
  {Object("WriteResult", "mongoc", set, 0) : set \in SUBSET {"writeErrors"}}

WriteErrors == {Object("WriteError", "mongoc", set, 0) : set \in SUBSET {"message"}}

(* What a WriteResult, or the exception that holds it, gives a script: the *)
(* result, with a WriteError if there is room for it here.                 *)
Returns(result) ==
  /\ \E r \in Fresh :
       \/ objects' = [objects EXCEPT ![r] = result]
       \/ /\ "writeErrors" \in result.set
          /\ \E e \in Fresh \ {r}, error \in WriteErrors :
               objects' = [objects EXCEPT ![r] = result, ![e] = error]
  /\ UNCHANGED <<clients, crash, over>>

(* phongo_writeresult_init appends a write concern error of the reply to   *)
(* writeConcernErrors, which is NULL; the array it has made is in          *)
(* writeErrors.                                                            *)
CrashWith(result) ==
  /\ "writeErrors" \in result.set
  /\ crash' = [reason |-> "null", by |-> "method", object |-> result]
  /\ UNCHANGED <<objects, clients, over>>

(* A write with an answer: the return value is ignored, or a result is     *)
(* made for it.                                                            *)
Written ==
  \/ UNCHANGED vars
  \/ \E result \in WriteResults : Returns(result) \/ CrashWith(result)

(* Without a client mongoc fails, and the result in the exception is of an *)
(* empty reply.                                                            *)
Refused ==
  UNCHANGED vars \/ Returns(Object("WriteResult", "mongoc", {}, 0))

(* phongo_execute_write with the client of h.                              *)
Write(h) ==
  LET use == NoUseOf(h, "client")
  IN  \/ use = "dangling" /\ CrashBy(h, use)
      \/ use = "null" /\ Refused
      \/ use = "none" /\ Written

(* executeWriteBatch.                                                      *)
ExecuteWrite(h, arg) ==
  /\ Running /\ objects[h].class \in {"Manager", "Server"} /\ Is(arg, "WriteBatch")
  /\ IF ~Has(arg, "batch") THEN CrashBy(arg, "null") ELSE Write(h)

(* Manager::executeInsert, executeUpdate and executeDelete.                *)
ExecuteOne(h) == Running /\ Is(h, "Manager") /\ Write(h)

-----------------------------------------------------------------------------
(* Methods of results, servers and ids.                                    *)

(* A loop over a result asks the server for more in the end.               *)
Iterate(h) ==
  /\ Running /\ IsResult(h) /\ NoUseOf(h, "cursor") # "none"
  /\ CrashBy(h, NoUseOf(h, "cursor"))

(* CommandResult::getResponseDocument.  The document is in the memory of   *)
(* the cursor, which outlives the client.                                  *)
GetResponseDocument(h) ==
  /\ Running /\ Is(h, "CommandResult") /\ ~Has(h, "firstBatch")
  /\ CrashBy(h, "null")

(* Defect: the new Server knows the client of the result.                  *)
ServerOfWithClient(h) ==
  Object("Server", "result", IF IsResult(h) THEN {"host"} ELSE {}, objects[h].client)

(* phongo_server_init: with the host of the cursor, or without one; never  *)
(* with a client.                                                          *)
ServerOf(h) == Object("Server", "result", IF IsResult(h) THEN {"host"} ELSE {}, 0)

(* getServer of the three kinds of results.                                *)
GetServer(h) ==
  /\ Running /\ (IsResult(h) \/ Is(h, "WriteResult"))
  /\ IF IsResult(h) /\ NoUseOf(h, "cursor") # "none" THEN CrashBy(h, NoUseOf(h, "cursor"))
     ELSE /\ \E s \in Fresh : objects' = [objects EXCEPT ![s] = ServerOf(h)]
          /\ UNCHANGED <<clients, crash, over>>

(* Server::getHost puts a host of its own in the place of the server's.    *)
GetHost(h) ==
  /\ Running /\ Is(h, "Server")
  /\ objects' = [objects EXCEPT ![h].set = @ \cup {"host"}]
  /\ UNCHANGED <<clients, crash, over>>

GetPort(h) ==
  /\ Running /\ Is(h, "Server") /\ ~Has(h, "host")
  /\ CrashBy(h, "null")

(* Appending to a WriteBatch; reading, comparing or encoding an ObjectID;  *)
(* getMessage of a WriteError.                                             *)
UseField(h, class, field) ==
  /\ Running /\ Is(h, class) /\ ~Has(h, field)
  /\ CrashBy(h, "null")

-----------------------------------------------------------------------------
(* Releasing.                                                              *)

(* free_object of o, in the state st of the clients.                       *)
Release(st, o) ==
  IF o = NoObject \/ st.crash # NoCrash THEN st
  ELSE LET released == o.set \cap Classes[o.class].released
           reason == IF released \cap {"client", "cursor"} = {} \/ st.clients[o.client].state # "destroyed"
                     THEN "none"
                     ELSE IF "client" \in released THEN "double" ELSE "dangling"
       IN  [clients |-> IF "client" \in released
                        THEN [st.clients EXCEPT ![o.client].state = "destroyed"] ELSE st.clients,
            crash |-> IF reason = "none" THEN NoCrash
                      ELSE [reason |-> reason, by |-> "release", object |-> o]]

Now == [clients |-> clients, crash |-> crash]

(* The last reference of the script is gone.                               *)
Unset(h) ==
  /\ Running /\ h \in Alive
  /\ LET st == Release(Now, objects[h])
     IN  clients' = st.clients /\ crash' = st.crash
  /\ objects' = [objects EXCEPT ![h] = NoObject]
  /\ UNCHANGED over

Orders == Bijection(1..Cardinality(Handles), Handles)

ReleaseAll(order) ==
  LET released[n \in 0..Cardinality(Handles)] ==
        IF n = 0 THEN Now ELSE Release(released[n - 1], objects[order[n]])
  IN  released[Cardinality(Handles)]

(* Objects that are left are released in the order of their handles, which *)
(* are used again and so in any order; then the memory of the request,     *)
(* which all that libbson and libmongoc allocate comes from.               *)
EndRequest ==
  /\ Running
  /\ \E order \in Orders : crash' = ReleaseAll(order).crash
  /\ clients' = [c \in ClientIds |-> NoClient]
  /\ objects' = [h \in Handles |-> NoObject]
  /\ over' = TRUE

Next ==
  \/ \E class \in ClassNames : New(class) \/ NewOverridden(class)
  \/ \E h \in Handles :
       \/ ConstructAgain(h)
       \/ ExecuteOne(h)
       \/ \E arg \in Handles : ExecuteRead(h, arg) \/ ExecuteWrite(h, arg)
       \/ Iterate(h) \/ GetResponseDocument(h) \/ GetServer(h) \/ GetHost(h) \/ GetPort(h)
       \/ UseField(h, "WriteBatch", "batch") \/ UseField(h, "ObjectID", "oid")
       \/ UseField(h, "WriteError", "message")
       \/ Unset(h)
  \/ EndRequest

Spec == Init /\ [][Next]_vars

-----------------------------------------------------------------------------
(* Properties.                                                             *)

(* Objects can be released in any order, by the script or at the end of    *)
(* the request: no free_object releases twice what another one has         *)
(* released, or follows a pointer to it.                                   *)
ReleaseIsSafe == crash.by # "release"

(* A destroyed client is used only through the result of a Manager that    *)
(* the script has dropped (php_phongo_manager_free_object); the results of *)
(* a Server can be used as long as the script has them, since a Server     *)
(* never destroys its client.                                              *)
DanglesOnlyWithoutManager ==
  crash.reason = "dangling" =>
    /\ crash.object.class \in {"QueryResult", "CommandResult"}
    /\ clients[crash.object.client].maker = "Manager"
    /\ \A h \in Alive : Has(h, "client") => objects[h].client # crash.object.client

(* NULL is followed only in an object whose constructor did not run, did   *)
(* nothing, or failed: a WriteBatch or ObjectID of a subclass, a result    *)
(* that a script has made itself, a Query that warned, a Manager or Server *)
(* constructed again in vain; in a Server that came from a result, which   *)
(* has no client and, without a cursor, no host; in the response to a      *)
(* command that has none; in the message of a WriteError without one; and  *)
(* in a WriteResult while it is made, when the reply has a write concern   *)
(* error (final classes, the constructors, phongo_server_init,             *)
(* phongo_writeresult_init).                                               *)
NullIsExplained ==
  crash.reason = "null" =>
    LET o == crash.object
    IN  \/ o.made = "overridden" /\ o.class \in {"WriteBatch", "ObjectID"}
        \/ o.made = "new" /\ o.class \in {"QueryResult", "CommandResult"}
        \/ o.made \in {"new", "again"} /\ o.class = "Query"
        \/ o.made = "again" /\ o.class \in {"Manager", "Server"} /\ ~("client" \in o.set)
        \/ o.made = "result" \/ o.class = "WriteError"
        \/ o.made = "mongoc" /\ o.class = "CommandResult" /\ ~("firstBatch" \in o.set)
        \/ o.made = "mongoc" /\ o.class = "WriteResult" /\ "writeErrors" \in o.set

(* The client of a Manager lives exactly as long as the Manager: no other  *)
(* object owns it, and none is left behind, but for those a Manager forgot *)
(* when it was constructed again (php_phongo_manager_free_object).         *)
EachClientHasItsManager ==
  \A c \in ClientIds :
    clients[c].state = "live" /\ clients[c].maker = "Manager" =>
      Cardinality({h \in Alive : Is(h, "Manager") /\ objects[h].client = c}) = 1

=============================================================================
