----------------------------- MODULE DriverProofs -----------------------------
(***************************************************************************)
(* Proofs about Driver: for any number of objects alive at one time, and   *)
(* with no bound on the clients but that there is one.                     *)
(***************************************************************************)
EXTENDS Driver, LeastNaturals, FiniteSetTheorems, TLAPS

-----------------------------------------------------------------------------
(* What the proofs need of the classes.                                    *)

ResultClasses == {"QueryResult", "CommandResult"}

(* Managers and Servers know a client, results a cursor; a client belongs  *)
(* to Managers; the classes to extend that have fields are two.            *)
IsKnownClass(c) ==
  /\ "client" \in Classes[c].fields <=> c \in {"Manager", "Server"}
  /\ "cursor" \in Classes[c].fields <=> c \in ResultClasses
  /\ "client" \in Classes[c].released <=> c = "Manager"
  /\ "cursor" \notin Classes[c].released
  /\ ~Classes[c].final /\ Classes[c].fields # {} => c \in {"WriteBatch", "ObjectID"}
  /\ c = "Server" => "host" \in Classes[c].fields
  /\ c \in ResultClasses => "firstBatch" \in Classes[c].fields
  /\ c = "WriteError" => "message" \in Classes[c].fields
  /\ c = "WriteResult" => "writeErrors" \in Classes[c].fields

LEMMA ClassIsKnown == \A c \in ClassNames : IsKnownClass(c)
<1> DEFINE Bson == {"Binary", "DBRef", "Int32", "Int64", "Javascript", "Log", "MaxKey", "MinKey",
                    "Pool", "Regex", "Timestamp", "UTCDatetime"}
<1>1. IsKnownClass("Command")
  BY DEF IsKnownClass, ResultClasses, Classes, CommandClass, Final
<1>2. IsKnownClass("CommandResult")
  BY DEF IsKnownClass, ResultClasses, Classes, CommandResultClass, Final
<1>3. IsKnownClass("Cursor")
  BY DEF IsKnownClass, ResultClasses, Classes, CursorClass, Open, Final
<1>4. IsKnownClass("CursorId")
  BY DEF IsKnownClass, ResultClasses, Classes, CursorIdClass, Final
<1>5. IsKnownClass("GeneratedId")
  BY DEF IsKnownClass, ResultClasses, Classes, GeneratedIdClass, Final
<1>6. IsKnownClass("Manager")
  BY DEF IsKnownClass, ResultClasses, Classes, ManagerClass, Final
<1>7. IsKnownClass("Query")
  BY DEF IsKnownClass, ResultClasses, Classes, QueryClass, Final
<1>8. IsKnownClass("QueryResult")
  BY DEF IsKnownClass, ResultClasses, Classes, QueryResultClass, Final
<1>9. IsKnownClass("ReadPreference")
  BY DEF IsKnownClass, ResultClasses, Classes, ReadPreferenceClass, Final
<1>10. IsKnownClass("Server")
  BY DEF IsKnownClass, ResultClasses, Classes, ServerClass, Final
<1>11. IsKnownClass("WriteBatch")
  BY DEF IsKnownClass, ResultClasses, Classes, WriteBatchClass, Open, Final
<1>12. IsKnownClass("WriteConcern")
  BY DEF IsKnownClass, ResultClasses, Classes, WriteConcernClass, Final
<1>13. IsKnownClass("WriteConcernError")
  BY DEF IsKnownClass, ResultClasses, Classes, WriteConcernErrorClass, Final
<1>14. IsKnownClass("WriteError")
  BY DEF IsKnownClass, ResultClasses, Classes, WriteErrorClass, Final
<1>15. IsKnownClass("WriteException")
  BY DEF IsKnownClass, ResultClasses, Classes, WriteExceptionClass, Final
<1>16. IsKnownClass("WriteResult")
  BY DEF IsKnownClass, ResultClasses, Classes, WriteResultClass, Final
<1>17. IsKnownClass("ObjectID")
  BY DEF IsKnownClass, ResultClasses, Classes, ObjectIDClass, BsonType, Open, Final
<1>18. \A c \in Bson : IsKnownClass(c)
  <2>1. \A c \in Bson : Classes[c] = BsonType({})
    BY DEF Classes, BinaryClass, DBRefClass, Int32Class, Int64Class, JavascriptClass, LogClass,
           MaxKeyClass, MinKeyClass, PoolClass, RegexClass, TimestampClass, UTCDatetimeClass
  <2>2. /\ BsonType({}).fields = {}
        /\ BsonType({}).released = {}
    BY DEF BsonType, Open, Final
  <2>. QED
    BY <2>1, <2>2 DEF IsKnownClass, ResultClasses
<1>19. ClassNames = Bson \cup {"Command", "CommandResult", "Cursor", "CursorId", "GeneratedId", "Manager", "Query", "QueryResult", "ReadPreference", "Server", "WriteBatch", "WriteConcern", "WriteConcernError", "WriteError", "WriteException", "WriteResult", "ObjectID"}
  BY DEF ClassNames, Classes
<1>. QED
  BY <1>1, <1>2, <1>3, <1>4, <1>5, <1>6, <1>7, <1>8, <1>9, <1>10, <1>11, <1>12, <1>13, <1>14, <1>15, <1>16, <1>17, <1>18, <1>19, Zenon

(* The names of the classes the proofs speak of.                           *)
LEMMA SomeClasses ==
  /\ {"Command", "CommandResult", "Manager", "ObjectID", "Query", "QueryResult", "Server",
      "WriteBatch", "WriteError", "WriteResult"} \subseteq ClassNames
  /\ "none" \notin ClassNames
  BY DEF ClassNames, Classes

-----------------------------------------------------------------------------
(* Constructors.                                                           *)

(* What an outcome of the constructor of a class may be: it sets only what *)
(* it assigns, which the class has; one that throws leaves no client.      *)
IsKnownOutcome(c, outcome) ==
  /\ outcome.set \subseteq outcome.assigned
  /\ outcome.assigned \subseteq Classes[c].fields
  /\ outcome.throws => "client" \notin outcome.set
  /\ c \in {"Manager", "Server"} =>
       /\ "client" \in outcome.assigned
       /\ ~outcome.throws => "client" \in outcome.set
       /\ c = "Server" /\ "client" \in outcome.set => "host" \in outcome.set
  /\ c = "Command" => "bson" \in outcome.set
  /\ c = "WriteBatch" => "batch" \in outcome.set
  /\ c = "ObjectID" => /\ ~outcome.throws => "oid" \in outcome.set
                       /\ outcome.assigned # {} => "oid" \in outcome.set
  /\ c \in ResultClasses => outcome.assigned = {}

LEMMA OutcomeIsKnown ==
  \A c \in ClassNames : \A outcome \in OutcomesOf(c) : IsKnownOutcome(c, outcome)
<1>1. /\ DOMAIN Constructors = {"Manager", "Server", "Command", "Query", "ReadPreference", "WriteConcern", "WriteBatch", "ObjectID", "QueryResult", "CommandResult"}
      /\ Constructors["Manager"] = ConstructManager
      /\ Constructors["Server"] = ConstructServer
      /\ Constructors["Command"] = ConstructCommand
      /\ Constructors["Query"] = ConstructQuery
      /\ Constructors["ReadPreference"] = ConstructReadPreference
      /\ Constructors["WriteConcern"] = ConstructWriteConcern
      /\ Constructors["WriteBatch"] = ConstructWriteBatch
      /\ Constructors["ObjectID"] = ConstructObjectID
      /\ Constructors["QueryResult"] = ConstructResult
      /\ Constructors["CommandResult"] = ConstructResult
  BY DEF Constructors
<1>2. \A outcome \in ConstructManager : IsKnownOutcome("Manager", outcome)
  BY DEF IsKnownOutcome, ResultClasses, Done, Thrown, Classes, ManagerClass, Final, ConstructManager
<1>3. \A outcome \in ConstructServer : IsKnownOutcome("Server", outcome)
  BY DEF IsKnownOutcome, ResultClasses, Done, Thrown, Classes, ServerClass, Final, ConstructServer
<1>4. \A outcome \in ConstructCommand : IsKnownOutcome("Command", outcome)
  BY DEF IsKnownOutcome, ResultClasses, Done, Thrown, Classes, CommandClass, Final, ConstructCommand
<1>5. \A outcome \in ConstructQuery : IsKnownOutcome("Query", outcome)
  BY DEF IsKnownOutcome, ResultClasses, Done, Thrown, Classes, QueryClass, Final, ConstructQuery
<1>6. \A outcome \in ConstructReadPreference : IsKnownOutcome("ReadPreference", outcome)
  BY DEF IsKnownOutcome, ResultClasses, Done, Thrown, Classes, ReadPreferenceClass, Final, ConstructReadPreference
<1>7. \A outcome \in ConstructWriteConcern : IsKnownOutcome("WriteConcern", outcome)
  BY DEF IsKnownOutcome, ResultClasses, Done, Thrown, Classes, WriteConcernClass, Final, ConstructWriteConcern
<1>8. \A outcome \in ConstructWriteBatch : IsKnownOutcome("WriteBatch", outcome)
  BY DEF IsKnownOutcome, ResultClasses, Done, Thrown, Classes, WriteBatchClass, Open, Final, ConstructWriteBatch
<1>9. \A outcome \in ConstructObjectID : IsKnownOutcome("ObjectID", outcome)
  BY DEF IsKnownOutcome, ResultClasses, Done, Thrown, Classes, ObjectIDClass, BsonType, Open, Final, ConstructObjectID
<1>10. \A outcome \in ConstructResult : IsKnownOutcome("QueryResult", outcome)
  BY DEF IsKnownOutcome, ResultClasses, Done, Thrown, Classes, QueryResultClass, Final, ConstructResult
<1>11. \A outcome \in ConstructResult : IsKnownOutcome("CommandResult", outcome)
  BY DEF IsKnownOutcome, ResultClasses, Done, Thrown, Classes, CommandResultClass, Final, ConstructResult
<1>12. ASSUME NEW c \in ClassNames, c \notin DOMAIN Constructors, NEW outcome \in OutcomesOf(c)
       PROVE  IsKnownOutcome(c, outcome)
  <2>1. outcome = [assigned |-> {}, set |-> {}, throws |-> FALSE]
    BY <1>12 DEF OutcomesOf, Done
  <2>. QED
    BY <1>1, <1>12, <2>1 DEF IsKnownOutcome, ResultClasses
<1>13. ASSUME NEW c \in DOMAIN Constructors
       PROVE  \A outcome \in OutcomesOf(c) : IsKnownOutcome(c, outcome)
  <2>1. OutcomesOf(c) = Constructors[c]
    BY DEF OutcomesOf
  <2>. QED
    BY <2>1, <1>1, <1>2, <1>3, <1>4, <1>5, <1>6, <1>7, <1>8, <1>9, <1>10, <1>11
<1>. QED
  BY <1>12, <1>13

-----------------------------------------------------------------------------
(* The inductive invariant.                                                *)

(* Which fields an object has, by its class and how it came to be.         *)
IsShaped(o) ==
  /\ o.made = "overridden" => o.class \in {"WriteBatch", "ObjectID"}
  /\ o.class = "Manager" => /\ o.made \in {"new", "again"}
                            /\ o.made = "new" => "client" \in o.set
  /\ o.class = "Server" =>
       /\ o.made \in {"new", "again", "result"}
       /\ o.made = "new" => "client" \in o.set
       /\ o.made # "result" /\ "client" \in o.set => "host" \in o.set
  /\ o.class = "Command" => "bson" \in o.set
  /\ o.class = "Query" => o.made \in {"new", "again"}
  /\ o.class = "WriteBatch" /\ o.made # "overridden" => "batch" \in o.set
  /\ o.class = "ObjectID" /\ o.made # "overridden" => "oid" \in o.set
  /\ o.class \in ResultClasses => /\ o.made \in {"new", "mongoc"}
                                  /\ o.made = "mongoc" => "cursor" \in o.set

ObjectsAreShaped == \A h \in Alive : IsShaped(objects[h])

(* No object knows a client that was never made, and only Managers destroy *)
(* clients.                                                                *)
ClientsAreKnown ==
  /\ \A h \in Alive : objects[h].client # 0 => clients[objects[h].client].state # "none"
  /\ \A c \in ClientIds : clients[c].state = "none" => clients[c] = NoClient
  /\ \A c \in ClientIds : clients[c].state = "destroyed" => clients[c].maker = "Manager"

(* A Manager or a Server has the client it made itself, and it is there.   *)
OwnersKeepTheirClients ==
  \A h \in Alive : Has(h, "client") =>
    clients[objects[h].client] = [state |-> "live", maker |-> objects[h].class]

(* No two of them have the same.                                           *)
OwnersAreAlone ==
  \A g \in Alive : \A h \in Alive :
    Has(g, "client") /\ Has(h, "client") /\ objects[g].client = objects[h].client => g = h

(* A client that a Manager made and that is left has its Manager.          *)
ManagersAreKept ==
  \A c \in ClientIds : clients[c].state = "live" /\ clients[c].maker = "Manager" =>
    \E h \in Alive : Is(h, "Manager") /\ objects[h].client = c

(* What the heap looks like while the script runs.                         *)
HeapIsSound ==
  /\ TypeOK
  /\ ObjectsAreShaped
  /\ ClientsAreKnown
  /\ OwnersKeepTheirClients
  /\ OwnersAreAlone
  /\ ManagersAreKept

(* And what can have ended it.                                             *)
CrashIsExplained ==
  /\ ReleaseIsSafe
  /\ DanglesOnlyWithoutManager
  /\ NullIsExplained

IInv == HeapIsSound /\ CrashIsExplained

-----------------------------------------------------------------------------
(* Objects and clients.                                                    *)

(* An object of the script is no empty place; it knows a client when it    *)
(* has a client or a cursor, and Managers and Servers have no cursor.      *)
LEMMA ObjectFacts ==
  /\ NoObject \notin Objects
  /\ NoObject.client = 0 /\ NoObject.set = {} /\ NoObject.class = "none"
  /\ \A o \in Objects :
       /\ o.class \in ClassNames
       /\ o.client \in ClientIds \cup {0}
       /\ o.set \subseteq Classes[o.class].fields
       /\ o.client # 0 <=> "client" \in o.set \/ "cursor" \in o.set
       /\ "client" \in o.set => o.class \in {"Manager", "Server"}
       /\ "cursor" \in o.set => o.class \in ResultClasses
<1>1. /\ NoObject \notin Objects
      /\ NoObject.client = 0 /\ NoObject.set = {} /\ NoObject.class = "none"
  BY SomeClasses DEF NoObject, Object, Objects
<1>2. ASSUME NEW o \in Objects
      PROVE  /\ o.class \in ClassNames
             /\ o.client \in ClientIds \cup {0}
             /\ o.set \subseteq Classes[o.class].fields
             /\ o.client # 0 <=> "client" \in o.set \/ "cursor" \in o.set
  BY DEF Objects
<1>3. ASSUME NEW o \in Objects
      PROVE  /\ "client" \in o.set => o.class \in {"Manager", "Server"}
             /\ "cursor" \in o.set => o.class \in ResultClasses
  BY <1>2, ClassIsKnown DEF IsKnownClass
<1>. QED
  BY <1>1, <1>2, <1>3

(* The same of the objects a script has at one time.                       *)
LEMMA AliveFacts ==
  ASSUME TypeOK
  PROVE  /\ \A h \in Alive : h \in Handles /\ objects[h] \in Objects
         /\ \A h \in Handles : h \notin Alive => objects[h] = NoObject
         /\ \A h \in Handles : objects[h].class \in ClassNames => h \in Alive
<1>1. \A h \in Handles : objects[h] \in Objects \cup {NoObject}
  BY DEF TypeOK
<1>2. \A h \in Handles : h \notin Alive <=> objects[h] = NoObject
  BY DEF Alive
<1>. QED
  BY <1>1, <1>2, ObjectFacts, SomeClasses DEF Alive

(* A new object.                                                           *)
LEMMA ObjectIsWellMade ==
  ASSUME NEW class \in ClassNames, NEW made \in Made, NEW set, set \subseteq Classes[class].fields,
         NEW client \in ClientIds \cup {0},
         client # 0 <=> "client" \in set \/ "cursor" \in set
  PROVE  /\ Object(class, made, set, client) \in Objects
         /\ Object(class, made, set, client).class = class
         /\ Object(class, made, set, client).made = made
         /\ Object(class, made, set, client).set = set
         /\ Object(class, made, set, client).client = client
<1>1. set \in SUBSET Fields
  BY DEF Fields
<1>. QED
  BY <1>1 DEF Objects, Object


(* One that knows no client.                                               *)
LEMMA ObjectWithoutClient ==
  ASSUME NEW class \in ClassNames, NEW made \in Made, NEW set, set \subseteq Classes[class].fields,
         "client" \notin set, "cursor" \notin set
  PROVE  /\ Object(class, made, set, 0) \in Objects
         /\ Object(class, made, set, 0).class = class
         /\ Object(class, made, set, 0).made = made
         /\ Object(class, made, set, 0).set = set
         /\ Object(class, made, set, 0).client = 0
<1>1. PICK none \in ClientIds \cup {0} : none = 0
  OBVIOUS
<1>. QED
  BY <1>1, ObjectIsWellMade

(* Nothing is to be explained of a script that runs on.                    *)
LEMMA NoCrashIsExplained ==
  /\ crash = NoCrash => CrashIsExplained
  /\ (crash = NoCrash => CrashIsExplained)'
  /\ NoCrash \in [reason : {"none", "null", "dangling", "double"},
                  by : {"none", "method", "release"}, object : Objects \cup {NoObject}]
  BY DEF NoCrash, CrashIsExplained, ReleaseIsSafe, DanglesOnlyWithoutManager, NullIsExplained

-----------------------------------------------------------------------------
(* Steps that only add objects without a client of their own.              *)

IsHarmless(o) ==
  /\ o \in Objects
  /\ IsShaped(o)
  /\ "client" \notin o.set
  /\ o.client # 0 => clients[o.client].state # "none"

LEMMA AddingKeepsTheHeap ==
  ASSUME HeapIsSound, Running, UNCHANGED <<clients, crash, over>>,
         objects' \in [Handles -> Objects \cup {NoObject}],
         \A h \in Handles : \/ objects'[h] = objects[h]
                            \/ h \notin Alive /\ IsHarmless(objects'[h])
  PROVE  IInv'
<1>1. /\ TypeOK /\ ObjectsAreShaped /\ ClientsAreKnown
      /\ OwnersKeepTheirClients /\ OwnersAreAlone /\ ManagersAreKept
  BY DEF HeapIsSound
<1>2. /\ \A h \in Alive' : \/ h \in Alive /\ objects'[h] = objects[h]
                           \/ h \in Handles /\ IsHarmless(objects'[h])
      /\ \A h \in Alive : h \in Alive' /\ objects'[h] = objects[h]
  BY DEF Alive
<1>3. TypeOK'
  BY <1>1 DEF TypeOK
<1>4. ObjectsAreShaped'
  BY <1>1, <1>2 DEF ObjectsAreShaped, IsHarmless
<1>5. ClientsAreKnown'
  BY <1>1, <1>2 DEF ClientsAreKnown, IsHarmless
<1>6. \A h \in Alive' : Has(h, "client")' =>
        h \in Alive /\ objects'[h] = objects[h] /\ Has(h, "client")
  BY <1>2 DEF IsHarmless, Has
<1>7. OwnersKeepTheirClients'
  BY <1>1, <1>6 DEF OwnersKeepTheirClients
<1>8. OwnersAreAlone'
  BY <1>1, <1>6 DEF OwnersAreAlone
<1>9. ManagersAreKept'
  BY <1>1, <1>2 DEF ManagersAreKept, Is
<1>10. CrashIsExplained'
  BY NoCrashIsExplained DEF Running
<1>. QED
  BY <1>3, <1>4, <1>5, <1>7, <1>8, <1>9, <1>10 DEF IInv, HeapIsSound

(* Adding one such object, or none.                                        *)
LEMMA AddingOneKeepsTheHeap ==
  ASSUME HeapIsSound, Running, UNCHANGED <<clients, crash, over>>,
         NEW h \in Fresh, NEW o, IsHarmless(o), objects' = [objects EXCEPT ![h] = o]
  PROVE  IInv'
<1>1. objects \in [Handles -> Objects \cup {NoObject}]
  BY DEF HeapIsSound, TypeOK
<1>2. h \in Handles /\ h \notin Alive
  BY DEF Fresh
<1>3. o \in Objects
  BY DEF IsHarmless
<1>4. /\ objects' \in [Handles -> Objects \cup {NoObject}]
      /\ objects'[h] = o
      /\ \A g \in Handles : g # h => objects'[g] = objects[g]
  BY <1>1, <1>2, <1>3
<1>5. \A g \in Handles : \/ objects'[g] = objects[g]
                         \/ g \notin Alive /\ IsHarmless(objects'[g])
  BY <1>2, <1>4
<1>. QED
  BY <1>4, <1>5, AddingKeepsTheHeap

LEMMA AddingNoneKeepsTheHeap ==
  ASSUME HeapIsSound, Running, UNCHANGED <<objects, clients, crash, over>>
  PROVE  IInv'
<1>1. objects' \in [Handles -> Objects \cup {NoObject}]
  BY DEF HeapIsSound, TypeOK
<1>. QED
  BY <1>1, AddingKeepsTheHeap

(* The client of a Manager or a Server is there.                           *)
LEMMA OwnersHaveLiveClients ==
  ASSUME HeapIsSound
  PROVE  \A h \in Alive : Has(h, "client") =>
           /\ clients[objects[h].client].state = "live"
           /\ clients[objects[h].client].maker = objects[h].class
<1>1. SUFFICES ASSUME NEW h \in Alive, Has(h, "client")
               PROVE  /\ clients[objects[h].client].state = "live"
                      /\ clients[objects[h].client].maker = objects[h].class
  OBVIOUS
<1>2. clients[objects[h].client] = [state |-> "live", maker |-> objects[h].class]
  BY <1>1 DEF HeapIsSound, OwnersKeepTheirClients
<1>. QED
  BY <1>2

-----------------------------------------------------------------------------
(* Steps that end the script.                                              *)

LEMMA CrashKeepsTheHeap ==
  ASSUME HeapIsSound, NEW h \in Alive, NEW reason \in {"null", "dangling"}, CrashBy(h, reason),
         reason = "null" =>
           LET o == objects[h]
           IN  \/ o.made = "overridden" /\ o.class \in {"WriteBatch", "ObjectID"}
               \/ o.made = "new" /\ o.class \in {"QueryResult", "CommandResult"}
               \/ o.made \in {"new", "again"} /\ o.class = "Query"
               \/ o.made = "again" /\ o.class \in {"Manager", "Server"} /\ ~("client" \in o.set)
               \/ o.made = "result" \/ o.class = "WriteError"
               \/ o.made = "mongoc" /\ o.class = "CommandResult" /\ ~("firstBatch" \in o.set)
               \/ o.made = "mongoc" /\ o.class = "WriteResult" /\ "writeErrors" \in o.set,
         reason = "dangling" => clients[objects[h].client].state = "destroyed" /\ Has(h, "cursor")
  PROVE  IInv'
<1>1. /\ TypeOK /\ ObjectsAreShaped /\ ClientsAreKnown
      /\ OwnersKeepTheirClients /\ OwnersAreAlone /\ ManagersAreKept
  BY DEF HeapIsSound
<1>2. UNCHANGED <<objects, clients, over>>
  BY DEF CrashBy
<1>3. objects[h] \in Objects
  BY <1>1, AliveFacts
<1>4. /\ crash'.reason = reason /\ crash'.by = "method" /\ crash'.object = objects[h]
      /\ crash' \in [reason : {"none", "null", "dangling", "double"},
                     by : {"none", "method", "release"}, object : Objects \cup {NoObject}]
  BY <1>3 DEF CrashBy
<1>5. HeapIsSound'
  <2>1. TypeOK'
    BY <1>1, <1>2, <1>4 DEF TypeOK
  <2>2. Alive' = Alive
    BY <1>2 DEF Alive
  <2>3. ObjectsAreShaped' /\ ClientsAreKnown'
    BY <1>1, <1>2, <2>2 DEF ObjectsAreShaped, ClientsAreKnown
  <2>4. OwnersKeepTheirClients' /\ OwnersAreAlone' /\ ManagersAreKept'
    BY <1>1, <1>2, <2>2 DEF OwnersKeepTheirClients, OwnersAreAlone, ManagersAreKept, Has, Is
  <2>. QED
    BY <2>1, <2>3, <2>4 DEF HeapIsSound
<1>6. ReleaseIsSafe'
  BY <1>4 DEF ReleaseIsSafe
<1>7. DanglesOnlyWithoutManager'
  <2>1. SUFFICES ASSUME reason = "dangling"
                 PROVE  /\ objects[h].class \in {"QueryResult", "CommandResult"}
                        /\ clients[objects[h].client].maker = "Manager"
                        /\ \A g \in Alive : Has(g, "client") => objects[g].client # objects[h].client
    BY <1>2, <1>4 DEF DanglesOnlyWithoutManager, Alive, Has
  <2>2. "cursor" \in objects[h].set /\ clients[objects[h].client].state = "destroyed"
    BY <2>1 DEF Has
  <2>3. objects[h].class \in ResultClasses /\ objects[h].client \in ClientIds
    BY <1>3, <2>2, ObjectFacts
  <2>4. clients[objects[h].client].maker = "Manager"
    BY <1>1, <2>2, <2>3 DEF ClientsAreKnown
  <2>5. \A g \in Alive : Has(g, "client") => clients[objects[g].client].state = "live"
    BY OwnersHaveLiveClients
  <2>. QED
    BY <2>2, <2>3, <2>4, <2>5 DEF ResultClasses
<1>8. NullIsExplained'
  BY <1>4 DEF NullIsExplained
<1>. QED
  BY <1>5, <1>6, <1>7, <1>8 DEF IInv, CrashIsExplained

(* Neither a Manager nor a Server ever has a client that was destroyed.    *)
LEMMA OwnersNeverDangle ==
  ASSUME HeapIsSound, NEW h \in Alive
  PROVE  NoUseOf(h, "client") = IF Has(h, "client") THEN "none" ELSE "null"
  BY OwnersHaveLiveClients DEF NoUseOf


(* A Manager or a Server without a client was constructed again in vain,   *)
(* or is the Server of a result.                                           *)
LEMMA UnmadeOwnerKeepsTheHeap ==
  ASSUME HeapIsSound, NEW h \in Handles, objects[h].class \in {"Manager", "Server"},
         NoUseOf(h, "client") # "none", CrashBy(h, NoUseOf(h, "client"))
  PROVE  IInv'
<1>1. h \in Alive /\ IsShaped(objects[h])
  BY AliveFacts, SomeClasses DEF HeapIsSound, ObjectsAreShaped
<1>2. NoUseOf(h, "client") = "null" /\ "client" \notin objects[h].set
  BY <1>1, OwnersNeverDangle DEF Has
<1>3. \/ objects[h].made = "again" /\ objects[h].class \in {"Manager", "Server"}
      \/ objects[h].made = "result"
  BY <1>1, <1>2 DEF IsShaped
<1>. QED
  BY <1>1, <1>2, <1>3, CrashKeepsTheHeap

-----------------------------------------------------------------------------
(* Executions.                                                             *)

LEMMA ExecuteReadStep ==
  ASSUME HeapIsSound, NEW h \in Handles, NEW arg \in Handles, ExecuteRead(h, arg)
  PROVE  IInv'
<1>1. /\ Running
      /\ objects[h].class \in {"Manager", "Server"}
      /\ objects[arg].class \in {"Query", "Command"}
  BY DEF ExecuteRead
<1>2. h \in Alive /\ arg \in Alive
  BY <1>1, AliveFacts, SomeClasses DEF HeapIsSound
<1>3. CASE NoUseOf(h, "client") # "none"
  BY <1>1, <1>3, UnmadeOwnerKeepsTheHeap DEF ExecuteRead
<1>4. CASE NoUseOf(h, "client") = "none" /\ ~Has(arg, Argument[objects[arg].class])
  <2>1. CrashBy(arg, "null")
    BY <1>4 DEF ExecuteRead
  <2>2. IsShaped(objects[arg])
    BY <1>2 DEF HeapIsSound, ObjectsAreShaped
  <2>3. objects[arg].class = "Query" /\ objects[arg].made \in {"new", "again"}
    BY <1>1, <1>4, <2>2 DEF IsShaped, Argument, Has
  <2>. QED
    BY <1>2, <2>1, <2>3, CrashKeepsTheHeap
<1>5. CASE NoUseOf(h, "client") = "none" /\ Has(arg, Argument[objects[arg].class])
  <2>1. UNCHANGED <<clients, crash, over>>
    BY <1>5 DEF ExecuteRead
  <2>2. CASE objects' = objects
    BY <1>1, <2>1, <2>2, AddingNoneKeepsTheHeap
  <2>3. CASE objects' # objects
    <3> DEFINE class == IF Is(arg, "Query") THEN "QueryResult" ELSE "CommandResult"
    <3>1. PICK r \in Fresh, set \in {{"cursor"}, {"cursor", "firstBatch"}} :
            objects' = [objects EXCEPT ![r] = Object(class, "mongoc", set, objects[h].client)]
      BY <1>5, <2>3 DEF ExecuteRead
    <3>2. class \in ResultClasses /\ class \in ClassNames
      BY SomeClasses DEF ResultClasses
    <3>3. Has(h, "client") /\ objects[h] \in Objects
      BY <1>2, <1>5, AliveFacts DEF NoUseOf, HeapIsSound
    <3>4. /\ objects[h].client \in ClientIds
          /\ objects[h].client # 0
          /\ clients[objects[h].client].state = "live"
      BY <1>2, <3>3, ObjectFacts, OwnersHaveLiveClients DEF Has
    <3> HIDE DEF class
    <3>5. PICK c \in ClientIds : c = objects[h].client
      BY <3>4
    <3>6. PICK o : o = Object(class, "mongoc", set, c)
      OBVIOUS
    <3>7. /\ set \subseteq Classes[class].fields
          /\ "cursor" \in set /\ "client" \notin set /\ "mongoc" \in Made
      BY <3>2, ClassIsKnown DEF IsKnownClass, Made
    <3>8. o \in Objects /\ o.class = class /\ o.made = "mongoc" /\ o.set = set /\ o.client = c
      BY <3>2, <3>4, <3>5, <3>6, <3>7, ObjectIsWellMade
    <3>9. IsHarmless(o)
      BY <3>2, <3>4, <3>5, <3>7, <3>8 DEF IsHarmless, IsShaped, ResultClasses
    <3>. QED
      BY <1>1, <2>1, <3>1, <3>5, <3>6, <3>9, AddingOneKeepsTheHeap
  <2>. QED
    BY <2>2, <2>3
<1>. QED
  BY <1>3, <1>4, <1>5

(* A WriteResult and a WriteError know no client.                          *)
LEMMA WritesAreHarmless ==
  ASSUME NEW class \in {"WriteResult", "WriteError"}, NEW set, set \subseteq Classes[class].fields
  PROVE  IsHarmless(Object(class, "mongoc", set, 0))
<1>1. "client" \notin set /\ "cursor" \notin set /\ class \in ClassNames
  BY ClassIsKnown, SomeClasses DEF IsKnownClass, ResultClasses
<1>2. PICK made \in Made : made = "mongoc"
  BY DEF Made
<1>3. PICK o : o = Object(class, made, set, 0)
  OBVIOUS
<1>4. o \in Objects /\ o.class = class /\ o.made = made /\ o.set = set /\ o.client = 0
  BY <1>1, <1>3, ObjectWithoutClient
<1>5. IsHarmless(o)
  BY <1>1, <1>2, <1>4 DEF IsHarmless, IsShaped, ResultClasses
<1>. QED
  BY <1>2, <1>3, <1>5

(* The results of writes.                                                  *)
LEMMA WriteResultsAreHarmless ==
  ASSUME NEW result \in WriteResults
  PROVE  IsHarmless(result)
  BY WritesAreHarmless, ClassIsKnown, SomeClasses DEF WriteResults, IsKnownClass

(* What a write returns is harmless.                                       *)
LEMMA ReturnsStep ==
  ASSUME HeapIsSound, Running, NEW result, IsHarmless(result), Returns(result)
  PROVE  IInv'
<1>1. \A error \in WriteErrors : IsHarmless(error)
  BY WritesAreHarmless, ClassIsKnown, SomeClasses DEF WriteErrors, IsKnownClass
<1>2. UNCHANGED <<clients, crash, over>>
  BY DEF Returns
<1>3. CASE \E r \in Fresh : objects' = [objects EXCEPT ![r] = result]
  BY <1>2, <1>3, AddingOneKeepsTheHeap
<1>4. CASE \E r \in Fresh : \E e \in Fresh \ {r}, error \in WriteErrors :
             objects' = [objects EXCEPT ![r] = result, ![e] = error]
  <2>1. PICK r \in Fresh : \E e \in Fresh \ {r}, error \in WriteErrors :
             objects' = [objects EXCEPT ![r] = result, ![e] = error]
    BY <1>4
  <2>2. PICK e \in Fresh \ {r}, error \in WriteErrors :
             objects' = [objects EXCEPT ![r] = result, ![e] = error]
    BY <2>1
  <2>3. IsHarmless(result) /\ IsHarmless(error)
    BY <1>1
  <2>4. result \in Objects /\ error \in Objects
    BY <2>3 DEF IsHarmless
  <2>5. r \in Handles /\ e \in Handles /\ r # e /\ r \notin Alive /\ e \notin Alive
    BY DEF Fresh
  <2>6. objects \in [Handles -> Objects \cup {NoObject}]
    BY DEF HeapIsSound, TypeOK
  <2>7. /\ objects' \in [Handles -> Objects \cup {NoObject}]
        /\ objects'[r] = result /\ objects'[e] = error
        /\ \A g \in Handles : g # r /\ g # e => objects'[g] = objects[g]
    BY <2>2, <2>4, <2>5, <2>6
  <2>8. \A g \in Handles : \/ objects'[g] = objects[g]
                           \/ g \notin Alive /\ IsHarmless(objects'[g])
    BY <2>3, <2>5, <2>7
  <2>. QED
    BY <1>2, <2>7, <2>8, AddingKeepsTheHeap
<1>. QED
  BY <1>3, <1>4 DEF Returns

(* A crash with a WriteResult that the script never gets.                  *)
LEMMA CrashWithStep ==
  ASSUME HeapIsSound, NEW result \in WriteResults, CrashWith(result)
  PROVE  IInv'
<1>1. /\ TypeOK /\ ObjectsAreShaped /\ ClientsAreKnown
      /\ OwnersKeepTheirClients /\ OwnersAreAlone /\ ManagersAreKept
  BY DEF HeapIsSound
<1>2. /\ UNCHANGED <<objects, clients, over>> /\ "writeErrors" \in result.set
      /\ crash' = [reason |-> "null", by |-> "method", object |-> result]
  BY DEF CrashWith
<1>3. result \in Objects
  BY WriteResultsAreHarmless DEF IsHarmless
<1>4. /\ crash'.reason = "null" /\ crash'.by = "method" /\ crash'.object = result
      /\ crash' \in [reason : {"none", "null", "dangling", "double"},
                     by : {"none", "method", "release"}, object : Objects \cup {NoObject}]
  BY <1>2, <1>3
<1>5. HeapIsSound'
  <2>1. TypeOK'
    BY <1>1, <1>2, <1>4 DEF TypeOK
  <2>2. Alive' = Alive
    BY <1>2 DEF Alive
  <2>3. ObjectsAreShaped' /\ ClientsAreKnown'
    BY <1>1, <1>2, <2>2 DEF ObjectsAreShaped, ClientsAreKnown
  <2>4. OwnersKeepTheirClients' /\ OwnersAreAlone' /\ ManagersAreKept'
    BY <1>1, <1>2, <2>2 DEF OwnersKeepTheirClients, OwnersAreAlone, ManagersAreKept, Has, Is
  <2>. QED
    BY <2>1, <2>3, <2>4 DEF HeapIsSound
<1>6. ReleaseIsSafe' /\ DanglesOnlyWithoutManager'
  BY <1>4 DEF ReleaseIsSafe, DanglesOnlyWithoutManager
<1>7. result.made = "mongoc" /\ result.class = "WriteResult"
  BY DEF WriteResults, Object
<1>8. NullIsExplained'
  BY <1>2, <1>4, <1>7 DEF NullIsExplained
<1>. QED
  BY <1>5, <1>6, <1>8 DEF IInv, CrashIsExplained

(* phongo_execute_write: a client is never dangling, and without one there *)
(* is only an exception.                                                   *)
LEMMA WriteStep ==
  ASSUME HeapIsSound, Running, NEW h \in Handles, objects[h].class \in {"Manager", "Server"}, Write(h)
  PROVE  IInv'
<1>1. h \in Alive
  BY AliveFacts, SomeClasses DEF HeapIsSound
<1>2. NoUseOf(h, "client") \in {"none", "null"}
  BY <1>1, OwnersNeverDangle
<1>3. CASE UNCHANGED vars
  <2>1. objects' = objects /\ UNCHANGED <<clients, crash, over>>
    BY <1>3 DEF vars
  <2>. QED
    BY <2>1, AddingNoneKeepsTheHeap
<1>4. CASE Refused
  <2>1. PICK result : result = Object("WriteResult", "mongoc", {}, 0)
    OBVIOUS
  <2>2. IsHarmless(result)
    BY <2>1, WritesAreHarmless
  <2>. QED
    BY <1>3, <1>4, <2>1, <2>2, ReturnsStep DEF Refused
<1>5. CASE Written
  <2>1. CASE \E result \in WriteResults : Returns(result)
    BY <2>1, WriteResultsAreHarmless, ReturnsStep
  <2>2. CASE \E result \in WriteResults : CrashWith(result)
    BY <2>2, CrashWithStep
  <2>. QED
    BY <1>3, <1>5, <2>1, <2>2 DEF Written
<1>. QED
  BY <1>2, <1>4, <1>5 DEF Write

LEMMA ExecuteWriteStep ==
  ASSUME HeapIsSound, NEW h \in Handles, NEW arg \in Handles, ExecuteWrite(h, arg)
  PROVE  IInv'
<1>1. Running /\ objects[h].class \in {"Manager", "Server"} /\ objects[arg].class = "WriteBatch"
  BY DEF ExecuteWrite, Is
<1>2. CASE ~Has(arg, "batch")
  <2>1. arg \in Alive
    BY <1>1, AliveFacts, SomeClasses DEF HeapIsSound
  <2>2. IsShaped(objects[arg])
    BY <2>1 DEF HeapIsSound, ObjectsAreShaped
  <2>3. objects[arg].made = "overridden"
    BY <1>1, <1>2, <2>2 DEF IsShaped, Has
  <2>. QED
    BY <1>1, <1>2, <2>1, <2>3, CrashKeepsTheHeap DEF ExecuteWrite
<1>3. CASE Has(arg, "batch")
  BY <1>1, <1>3, WriteStep DEF ExecuteWrite
<1>. QED
  BY <1>2, <1>3

LEMMA ExecuteOneStep ==
  ASSUME HeapIsSound, NEW h \in Handles, ExecuteOne(h)
  PROVE  IInv'
<1>1. Running /\ objects[h].class \in {"Manager", "Server"}
  BY DEF ExecuteOne, Is
<1>. QED
  BY <1>1, WriteStep DEF ExecuteOne


-----------------------------------------------------------------------------
(* Methods of results, servers and ids.                                    *)

(* A result without a cursor was made by a script, and its client is       *)
(* unknown or was there.                                                   *)
LEMMA UnusableResultKeepsTheHeap ==
  ASSUME HeapIsSound, NEW h \in Handles, IsResult(h),
         NoUseOf(h, "cursor") # "none", CrashBy(h, NoUseOf(h, "cursor"))
  PROVE  IInv'
<1>1. h \in Alive /\ IsShaped(objects[h]) /\ objects[h].class \in {"QueryResult", "CommandResult"}
  BY AliveFacts, SomeClasses DEF HeapIsSound, ObjectsAreShaped, IsResult
<1>2. CASE ~Has(h, "cursor")
  <2>1. NoUseOf(h, "cursor") = "null"
    BY <1>2 DEF NoUseOf
  <2>2. objects[h].made = "new"
    BY <1>1, <1>2 DEF IsShaped, Has, ResultClasses
  <2>. QED
    BY <1>1, <2>1, <2>2, CrashKeepsTheHeap
<1>3. CASE Has(h, "cursor")
  <2>1. NoUseOf(h, "cursor") = "dangling" /\ clients[objects[h].client].state = "destroyed"
    BY <1>3 DEF NoUseOf
  <2>. QED
    BY <1>1, <1>3, <2>1, CrashKeepsTheHeap
<1>. QED
  BY <1>2, <1>3

LEMMA IterateStep ==
  ASSUME HeapIsSound, NEW h \in Handles, Iterate(h)
  PROVE  IInv'
  BY UnusableResultKeepsTheHeap DEF Iterate

LEMMA GetResponseDocumentStep ==
  ASSUME HeapIsSound, NEW h \in Handles, GetResponseDocument(h)
  PROVE  IInv'
<1>1. objects[h].class = "CommandResult" /\ ~Has(h, "firstBatch") /\ CrashBy(h, "null")
  BY DEF GetResponseDocument, Is
<1>2. h \in Alive /\ IsShaped(objects[h])
  BY <1>1, AliveFacts, SomeClasses DEF HeapIsSound, ObjectsAreShaped
<1>3. objects[h].made \in {"new", "mongoc"}
  BY <1>1, <1>2 DEF IsShaped, ResultClasses
<1>. QED
  BY <1>1, <1>2, <1>3, CrashKeepsTheHeap DEF Has

LEMMA GetServerStep ==
  ASSUME HeapIsSound, NEW h \in Handles, GetServer(h)
  PROVE  IInv'
<1>1. CASE IsResult(h) /\ NoUseOf(h, "cursor") # "none"
  BY <1>1, UnusableResultKeepsTheHeap DEF GetServer
<1>2. CASE ~(IsResult(h) /\ NoUseOf(h, "cursor") # "none")
  <2>1. /\ Running
        /\ UNCHANGED <<clients, crash, over>>
        /\ \E s \in Fresh : objects' = [objects EXCEPT ![s] = ServerOf(h)]
    BY <1>2 DEF GetServer
  <2>2. IsHarmless(ServerOf(h))
    <3>1. PICK class \in ClassNames, made \in Made : class = "Server" /\ made = "result"
      BY SomeClasses DEF Made
    <3>2. PICK set : set = IF IsResult(h) THEN {"host"} ELSE {}
      OBVIOUS
    <3>3. "client" \notin set /\ "cursor" \notin set /\ set \subseteq Classes[class].fields
      BY <3>1, <3>2, ClassIsKnown DEF IsKnownClass
    <3>4. PICK o : o = Object(class, made, set, 0)
      OBVIOUS
    <3>5. o \in Objects /\ o.class = class /\ o.made = made /\ o.set = set /\ o.client = 0
      BY <3>3, <3>4, ObjectWithoutClient
    <3>6. IsHarmless(o)
      BY <3>1, <3>3, <3>5 DEF IsHarmless, IsShaped, ResultClasses
    <3>. QED
      BY <3>1, <3>2, <3>4, <3>6 DEF ServerOf
  <2>. QED
    BY <2>1, <2>2, AddingOneKeepsTheHeap
<1>. QED
  BY <1>1, <1>2

LEMMA GetHostStep ==
  ASSUME HeapIsSound, NEW h \in Handles, GetHost(h)
  PROVE  IInv'
<1>1. /\ TypeOK /\ ObjectsAreShaped /\ ClientsAreKnown
      /\ OwnersKeepTheirClients /\ OwnersAreAlone /\ ManagersAreKept
  BY DEF HeapIsSound
<1>2. /\ Running
      /\ objects[h].class = "Server"
      /\ objects' = [objects EXCEPT ![h].set = @ \cup {"host"}]
      /\ UNCHANGED <<clients, crash, over>>
  BY DEF GetHost, Is
<1>3. h \in Alive /\ objects[h] \in Objects /\ IsShaped(objects[h])
  BY <1>1, <1>2, AliveFacts, SomeClasses DEF ObjectsAreShaped
<1>4. PICK o : o = [objects[h] EXCEPT !.set = @ \cup {"host"}]
  OBVIOUS
<1>5. /\ o \in [class : ClassNames, made : Made, set : SUBSET Fields, client : ClientIds \cup {0}]
      /\ o.class = "Server" /\ o.made = objects[h].made /\ o.client = objects[h].client
      /\ o.set = objects[h].set \cup {"host"}
  <2>1. "host" \in Classes["Server"].fields /\ "Server" \in ClassNames
    BY ClassIsKnown, SomeClasses DEF IsKnownClass
  <2>2. "host" \in Fields
    BY <2>1 DEF Fields
  <2>. QED
    BY <1>2, <1>3, <1>4, <2>2 DEF Objects
<1>6. /\ o.set \subseteq Classes["Server"].fields
      /\ "client" \in o.set <=> "client" \in objects[h].set
      /\ "cursor" \in o.set <=> "cursor" \in objects[h].set
  BY <1>2, <1>3, <1>5, ObjectFacts, ClassIsKnown, SomeClasses DEF IsKnownClass
<1>7. o \in Objects
  <2>1. o.client # 0 <=> o.set \cap {"client", "cursor"} # {}
    BY <1>3, <1>5, <1>6, ObjectFacts
  <2>. QED
    BY <1>5, <1>6, <2>1 DEF Objects
<1>8. IsShaped(o)
  BY <1>2, <1>3, <1>5, <1>6 DEF IsShaped, ResultClasses
<1>9. /\ objects' \in [Handles -> Objects \cup {NoObject}]
      /\ objects'[h] = o
      /\ \A g \in Handles : g # h => objects'[g] = objects[g]
  BY <1>1, <1>2, <1>4, <1>7 DEF TypeOK
<1>10. Alive' = Alive
  BY <1>3, <1>7, <1>9, ObjectFacts DEF Alive
<1>11. \A g \in Alive :
         /\ objects'[g].class = objects[g].class
         /\ objects'[g].client = objects[g].client
         /\ "client" \in objects'[g].set <=> "client" \in objects[g].set
         /\ IsShaped(objects'[g])
  BY <1>1, <1>2, <1>5, <1>6, <1>8, <1>9 DEF Alive, ObjectsAreShaped
<1>12. TypeOK'
  BY <1>1, <1>2, <1>9 DEF TypeOK
<1>13. ObjectsAreShaped' /\ ClientsAreKnown'
  BY <1>1, <1>2, <1>10, <1>11 DEF ObjectsAreShaped, ClientsAreKnown
<1>14. OwnersKeepTheirClients'
  BY <1>1, <1>2, <1>10, <1>11 DEF OwnersKeepTheirClients, Has
<1>15. OwnersAreAlone'
  BY <1>1, <1>2, <1>10, <1>11 DEF OwnersAreAlone, Has
<1>16. ManagersAreKept'
  BY <1>1, <1>2, <1>10, <1>11 DEF ManagersAreKept, Is
<1>. QED
  BY <1>2, <1>12, <1>13, <1>14, <1>15, <1>16, NoCrashIsExplained DEF IInv, HeapIsSound, Running

LEMMA GetPortStep ==
  ASSUME HeapIsSound, NEW h \in Handles, GetPort(h)
  PROVE  IInv'
<1>1. objects[h].class = "Server" /\ ~Has(h, "host") /\ CrashBy(h, "null")
  BY DEF GetPort, Is
<1>2. h \in Alive /\ IsShaped(objects[h])
  BY <1>1, AliveFacts, SomeClasses DEF HeapIsSound, ObjectsAreShaped
<1>3. \/ objects[h].made = "result"
      \/ objects[h].made = "again" /\ ~("client" \in objects[h].set)
  BY <1>1, <1>2 DEF IsShaped, Has
<1>. QED
  BY <1>1, <1>2, <1>3, CrashKeepsTheHeap

LEMMA UseFieldStep ==
  ASSUME HeapIsSound, NEW h \in Handles,
         \/ UseField(h, "WriteBatch", "batch")
         \/ UseField(h, "ObjectID", "oid")
         \/ UseField(h, "WriteError", "message")
  PROVE  IInv'
<1>1. /\ CrashBy(h, "null")
      /\ \/ objects[h].class = "WriteBatch" /\ ~("batch" \in objects[h].set)
         \/ objects[h].class = "ObjectID" /\ ~("oid" \in objects[h].set)
         \/ objects[h].class = "WriteError"
  BY DEF UseField, Is, Has
<1>2. h \in Alive /\ IsShaped(objects[h])
  BY <1>1, AliveFacts, SomeClasses DEF HeapIsSound, ObjectsAreShaped
<1>3. \/ objects[h].made = "overridden" /\ objects[h].class \in {"WriteBatch", "ObjectID"}
      \/ objects[h].class = "WriteError"
  BY <1>1, <1>2 DEF IsShaped
<1>. QED
  BY <1>1, <1>2, <1>3, CrashKeepsTheHeap


-----------------------------------------------------------------------------
(* Constructors.                                                           *)

(* The client that h has is forgotten.                                     *)
Forgotten(h) ==
  IF Has(h, "client") THEN [clients EXCEPT ![objects[h].client].state = "forgotten"] ELSE clients

(* An object that is made, or made again, with a new client or with none.  *)
LEMMA MakingKeepsTheHeap ==
  ASSUME HeapIsSound, Running, UNCHANGED <<crash, over>>,
         NEW h \in Handles, NEW o \in Objects, IsShaped(o), objects' = [objects EXCEPT ![h] = o],
         NEW c, clients' = Connect(Forgotten(h), c, o.class),
         \/ c \in FreshClient /\ "client" \in o.set /\ o.client = c
         \/ /\ c = 0 /\ "client" \notin o.set
            /\ o.client # 0 => clients[o.client].state # "none"
  PROVE  IInv'
<1>1. /\ TypeOK /\ ObjectsAreShaped /\ ClientsAreKnown
      /\ OwnersKeepTheirClients /\ OwnersAreAlone /\ ManagersAreKept
  BY DEF HeapIsSound
<1>2. clients \in [ClientIds -> [state : {"none", "live", "forgotten", "destroyed"},
                                 maker : {"none", "Manager", "Server"}]]
  BY <1>1 DEF TypeOK
<1>3. c \in ClientIds \cup {0} /\ 0 \notin ClientIds
  BY DEF FreshClient, ClientIds
<1>4. /\ c # 0 => clients[c].state = "none"
      /\ \A g \in Alive : c # 0 => objects[g].client # c
  BY <1>1, <1>3 DEF FreshClient, NoClient, ClientsAreKnown
<1>5. /\ objects' \in [Handles -> Objects \cup {NoObject}]
      /\ objects'[h] = o
      /\ \A g \in Handles : g # h => objects'[g] = objects[g]
  BY <1>1 DEF TypeOK
<1>6. /\ \A g \in Alive' : g \in Handles /\ (g # h => g \in Alive)
      /\ \A g \in Alive : g \in Alive'
      /\ h \in Alive'
  BY <1>5, ObjectFacts DEF Alive
<1>7. \A d \in ClientIds :
        Forgotten(h)[d] = IF Has(h, "client") /\ d = objects[h].client
                          THEN [state |-> "forgotten", maker |-> clients[d].maker]
                          ELSE clients[d]
  BY <1>2 DEF Forgotten
<1>8. Forgotten(h) \in [ClientIds -> [state : {"none", "live", "forgotten", "destroyed"},
                                      maker : {"none", "Manager", "Server"}]]
  BY <1>2 DEF Forgotten
<1>9. c # 0 => o.class \in {"Manager", "Server"}
  BY <1>3, ObjectFacts DEF FreshClient
<1>10. /\ clients' \in [ClientIds -> [state : {"none", "live", "forgotten", "destroyed"},
                                      maker : {"none", "Manager", "Server"}]]
       /\ \A d \in ClientIds :
            clients'[d] = IF d = c THEN [state |-> "live", maker |-> o.class] ELSE Forgotten(h)[d]
  BY <1>3, <1>8, <1>9 DEF Connect
<1>11. \A d \in ClientIds :
         /\ d = c => clients'[d].state = "live" /\ clients'[d].maker = o.class
         /\ d # c /\ Has(h, "client") /\ d = objects[h].client =>
              clients'[d].state = "forgotten" /\ clients'[d].maker = clients[d].maker
         /\ d # c /\ ~(Has(h, "client") /\ d = objects[h].client) => clients'[d] = clients[d]
  <2>1. SUFFICES ASSUME NEW d \in ClientIds
                 PROVE  /\ d = c => clients'[d].state = "live" /\ clients'[d].maker = o.class
                        /\ d # c /\ Has(h, "client") /\ d = objects[h].client =>
                             clients'[d].state = "forgotten" /\ clients'[d].maker = clients[d].maker
                        /\ d # c /\ ~(Has(h, "client") /\ d = objects[h].client) =>
                             clients'[d] = clients[d]
    OBVIOUS
  <2>2. CASE d = c
    <3>1. clients'[d] = [state |-> "live", maker |-> o.class]
      BY <1>10, <2>2
    <3>. QED
      BY <2>2, <3>1
  <2>3. CASE d # c /\ Has(h, "client") /\ d = objects[h].client
    <3>1. clients'[d] = [state |-> "forgotten", maker |-> clients[d].maker]
      BY <1>7, <1>10, <2>3, Zenon
    <3>. QED
      BY <2>3, <3>1
  <2>4. CASE d # c /\ ~(Has(h, "client") /\ d = objects[h].client)
    BY <1>7, <1>10, <2>4, Zenon
  <2>. QED
    BY <2>2, <2>3, <2>4
<1>12. TypeOK'
  BY <1>1, <1>5, <1>10 DEF TypeOK
<1>13. ObjectsAreShaped'
  BY <1>1, <1>5, <1>6 DEF ObjectsAreShaped
<1>14. \A g \in Alive : objects[g].client \in ClientIds \cup {0}
  BY <1>1, AliveFacts, ObjectFacts
<1>15. ClientsAreKnown'
  <2>1. ASSUME NEW g \in Alive', g # h, objects'[g].client # 0
        PROVE  clients'[objects'[g].client].state # "none"
    <3>1. /\ objects'[g] = objects[g] /\ g \in Alive
          /\ objects[g].client \in ClientIds /\ objects[g].client # c
      BY <1>3, <1>4, <1>5, <1>6, <1>14, <2>1 DEF FreshClient
    <3>2. clients[objects[g].client].state # "none"
      BY <1>1, <2>1, <3>1 DEF ClientsAreKnown
    <3>. QED
      BY <1>11, <3>1, <3>2
  <2>2. ASSUME o.client # 0
        PROVE  clients'[o.client].state # "none"
    <3>1. o.client \in ClientIds
      BY <2>2, ObjectFacts
    <3>2. o.client # c => clients[o.client].state # "none"
      BY <2>2
    <3>. QED
      BY <1>11, <3>1, <3>2
  <2>3. ASSUME NEW d \in ClientIds, clients'[d].state = "none"
        PROVE  clients'[d] = NoClient
    <3>1. clients'[d] = clients[d]
      BY <1>11, <2>3
    <3>. QED
      BY <1>1, <2>3, <3>1 DEF ClientsAreKnown
  <2>4. ASSUME NEW d \in ClientIds, clients'[d].state = "destroyed"
        PROVE  clients'[d].maker = "Manager"
    <3>1. clients'[d] = clients[d]
      BY <1>11, <2>4
    <3>. QED
      BY <1>1, <2>4, <3>1 DEF ClientsAreKnown
  <2>. QED
    BY <1>5, <2>1, <2>2, <2>3, <2>4 DEF ClientsAreKnown
<1>16. \A g \in Alive' : Has(g, "client")' /\ g # h =>
         /\ g \in Alive /\ Has(g, "client")
         /\ objects'[g] = objects[g]
         /\ objects[g].client \in ClientIds
         /\ objects[g].client # c
         /\ clients'[objects[g].client] = clients[objects[g].client]
  <2>1. SUFFICES ASSUME NEW g \in Alive', Has(g, "client")', g # h
                 PROVE  /\ g \in Alive /\ Has(g, "client")
                        /\ objects'[g] = objects[g]
                        /\ objects[g].client \in ClientIds
                        /\ objects[g].client # c
                        /\ clients'[objects[g].client] = clients[objects[g].client]
    OBVIOUS
  <2>2. g \in Alive /\ objects'[g] = objects[g] /\ "client" \in objects[g].set
    BY <1>5, <1>6, <2>1 DEF Has
  <2>3. objects[g].client \in ClientIds /\ objects[g].client # c
    BY <1>1, <1>3, <1>4, <2>2, AliveFacts, ObjectFacts
  <2>4. Has(h, "client") => h \in Alive /\ objects[h].client # objects[g].client
    <3>1. Has(h, "client") => h \in Alive
      BY <1>1, AliveFacts, ObjectFacts DEF Has
    <3>. QED
      BY <1>1, <2>1, <2>2, <3>1 DEF OwnersAreAlone, Has
  <2>. QED
    BY <1>11, <2>2, <2>3, <2>4 DEF Has
<1>17. OwnersKeepTheirClients'
  <2>1. \A g \in Alive' : Has(g, "client")' /\ g # h =>
          clients'[objects'[g].client] = [state |-> "live", maker |-> objects'[g].class]
    BY <1>1, <1>16 DEF OwnersKeepTheirClients
  <2>2. Has(h, "client")' => clients'[objects'[h].client] = [state |-> "live", maker |-> objects'[h].class]
    BY <1>3, <1>5, <1>10 DEF Has, FreshClient
  <2>. QED
    BY <2>1, <2>2 DEF OwnersKeepTheirClients
<1>18. OwnersAreAlone'
  <2>1. Has(h, "client")' => objects'[h].client = c
    BY <1>5 DEF Has
  <2>2. SUFFICES ASSUME NEW f \in Alive', NEW g \in Alive', Has(f, "client")', Has(g, "client")',
                        objects'[f].client = objects'[g].client
                 PROVE  f = g
    BY DEF OwnersAreAlone
  <2>3. CASE f = h \/ g = h
    BY <1>16, <2>1, <2>2, <2>3
  <2>4. CASE f # h /\ g # h
    <3>1. f \in Alive /\ g \in Alive /\ Has(f, "client") /\ Has(g, "client")
          /\ objects[f].client = objects[g].client
      BY <1>16, <2>2, <2>4
    <3>. QED
      BY <1>1, <3>1 DEF OwnersAreAlone
  <2>. QED
    BY <2>3, <2>4
<1>19. ManagersAreKept'
  <2>1. SUFFICES ASSUME NEW d \in ClientIds, clients'[d].state = "live", clients'[d].maker = "Manager"
                 PROVE  \E g \in Alive' : objects'[g].class = "Manager" /\ objects'[g].client = d
    BY DEF ManagersAreKept, Is
  <2>2. CASE d = c
    BY <1>3, <1>5, <1>6, <1>11, <2>1, <2>2
  <2>3. CASE d # c
    <3>1. clients'[d] = clients[d] /\ ~(Has(h, "client") /\ d = objects[h].client)
      BY <1>11, <2>1, <2>3
    <3>2. PICK g \in Alive : objects[g].class = "Manager" /\ objects[g].client = d
      BY <1>1, <2>1, <3>1 DEF ManagersAreKept, Is
    <3>3. g # h
      <4>1. "Manager" \notin ResultClasses /\ d # 0
        BY <1>3 DEF ResultClasses
      <4>2. objects[g] \in Objects
        BY <1>1, AliveFacts
      <4>3. "client" \in objects[g].set
        BY <3>2, <4>1, <4>2, ObjectFacts
      <4>. QED
        BY <3>1, <3>2, <4>3 DEF Has
    <3>. QED
      BY <1>5, <1>6, <3>2, <3>3 DEF Alive
  <2>. QED
    BY <2>2, <2>3
<1>. QED
  BY <1>12, <1>13, <1>15, <1>17, <1>18, <1>19, NoCrashIsExplained DEF IInv, HeapIsSound, Running


(* Constructors assign no cursor, and a client only in Managers and        *)
(* Servers; the client is new.                                             *)
LEMMA OutcomeFacts ==
  ASSUME NEW class \in ClassNames, NEW outcome \in OutcomesOf(class), NEW c \in ClientFor(outcome)
  PROVE  /\ "cursor" \notin outcome.assigned /\ "cursor" \notin outcome.set
         /\ "client" \in outcome.assigned <=> class \in {"Manager", "Server"}
         /\ outcome.set \subseteq Classes[class].fields
         /\ \/ c \in FreshClient /\ "client" \in outcome.set /\ c # 0 /\ c \in ClientIds
            \/ c = 0 /\ "client" \notin outcome.set
<1>1. IsKnownClass(class) /\ IsKnownOutcome(class, outcome)
  BY ClassIsKnown, OutcomeIsKnown
<1>2. \/ c \in FreshClient /\ "client" \in outcome.set /\ c # 0 /\ c \in ClientIds
      \/ c = 0 /\ "client" \notin outcome.set
  BY DEF ClientFor, FreshClient, ClientIds
<1>. QED
  BY <1>1, <1>2 DEF IsKnownClass, IsKnownOutcome

LEMMA NewStep ==
  ASSUME HeapIsSound, NEW class \in ClassNames, New(class)
  PROVE  IInv'
<1>1. Running /\ UNCHANGED <<crash, over>>
  BY DEF New
<1>2. PICK outcome \in OutcomesOf(class), h \in Fresh : \E c \in ClientFor(outcome) :
        /\ clients' = Connect(clients, c, class)
        /\ IF outcome.throws
           THEN objects' = objects
           ELSE objects' = [objects EXCEPT ![h] = Object(class, "new", outcome.set, c)]
  BY DEF New
<1>3. PICK c \in ClientFor(outcome) :
        /\ clients' = Connect(clients, c, class)
        /\ IF outcome.throws
           THEN objects' = objects
           ELSE objects' = [objects EXCEPT ![h] = Object(class, "new", outcome.set, c)]
  BY <1>2
<1>4. /\ "cursor" \notin outcome.set
      /\ outcome.set \subseteq Classes[class].fields
      /\ \/ c \in FreshClient /\ "client" \in outcome.set /\ c # 0 /\ c \in ClientIds
         \/ c = 0 /\ "client" \notin outcome.set
  BY OutcomeFacts
<1>5. IsKnownOutcome(class, outcome)
  BY OutcomeIsKnown
<1>6. CASE outcome.throws
  <2>1. c = 0
    BY <1>4, <1>5, <1>6 DEF IsKnownOutcome
  <2>2. UNCHANGED <<objects, clients>>
    BY <1>3, <1>6, <2>1 DEF Connect
  <2>. QED
    BY <1>1, <2>2, AddingNoneKeepsTheHeap
<1>7. CASE ~outcome.throws
  <2>1. h \in Handles /\ objects[h] = NoObject
    BY AliveFacts DEF Fresh, HeapIsSound
  <2>2. Forgotten(h) = clients
    BY <2>1, ObjectFacts DEF Forgotten, Has
  <2>3. PICK made \in Made : made = "new"
    BY DEF Made
  <2>4. PICK set : set = outcome.set
    OBVIOUS
  <2>5. PICK client \in ClientIds \cup {0} : client = c
    BY <1>4
  <2>6. PICK o : o = Object(class, made, set, client)
    OBVIOUS
  <2>7. /\ set \subseteq Classes[class].fields
        /\ client # 0 <=> "client" \in set \/ "cursor" \in set
    BY <1>4, <2>4, <2>5
  <2>8. o \in Objects /\ o.class = class /\ o.made = made /\ o.set = set /\ o.client = client
    BY <2>6, <2>7, ObjectIsWellMade
  <2>9. IsShaped(o)
    BY <1>5, <1>7, <2>3, <2>4, <2>8, SomeClasses DEF IsShaped, IsKnownOutcome
  <2>10. /\ objects' = [objects EXCEPT ![h] = o]
         /\ clients' = Connect(Forgotten(h), c, o.class)
         /\ \/ c \in FreshClient /\ "client" \in o.set /\ o.client = c
            \/ c = 0 /\ "client" \notin o.set /\ o.client = 0
    BY <1>3, <1>4, <1>7, <2>2, <2>3, <2>4, <2>5, <2>6, <2>8
  <2>. QED
    BY <1>1, <2>1, <2>8, <2>9, <2>10, MakingKeepsTheHeap
<1>. QED
  BY <1>6, <1>7

LEMMA NewOverriddenStep ==
  ASSUME HeapIsSound, NEW class \in ClassNames, NewOverridden(class)
  PROVE  IInv'
<1>1. /\ Running /\ UNCHANGED <<clients, crash, over>>
      /\ ~Classes[class].final /\ Classes[class].fields # {}
  BY DEF NewOverridden
<1>2. PICK h \in Fresh : objects' = [objects EXCEPT ![h] = Object(class, "overridden", {}, 0)]
  BY DEF NewOverridden
<1>3. PICK made \in Made : made = "overridden"
  BY DEF Made
<1>4. PICK set : set = {}
  OBVIOUS
<1>5. PICK o : o = Object(class, made, set, 0)
  OBVIOUS
<1>6. o \in Objects /\ o.class = class /\ o.made = made /\ o.set = set /\ o.client = 0
  BY <1>4, <1>5, ObjectWithoutClient
<1>7. class \in {"WriteBatch", "ObjectID"}
  BY <1>1, ClassIsKnown DEF IsKnownClass
<1>8. IsHarmless(o)
  BY <1>3, <1>4, <1>6, <1>7 DEF IsHarmless, IsShaped, ResultClasses
<1>. QED
  BY <1>1, <1>2, <1>3, <1>4, <1>5, <1>8, AddingOneKeepsTheHeap

LEMMA ConstructAgainStep ==
  ASSUME HeapIsSound, NEW h \in Handles, ConstructAgain(h)
  PROVE  IInv'
<1>1. Running /\ UNCHANGED <<crash, over>> /\ h \in Alive
  BY DEF ConstructAgain
<1>2. objects[h] \in Objects /\ IsShaped(objects[h])
  BY <1>1, AliveFacts DEF HeapIsSound, ObjectsAreShaped
<1>3. PICK old \in Objects : old = objects[h]
  BY <1>2
<1>4. PICK class \in ClassNames : class = old.class
  BY ObjectFacts
<1>5. PICK outcome \in OutcomesOf(class) : \E c \in ClientFor(outcome) :
        /\ clients' = Connect(Forget(clients, h, outcome), c, class)
        /\ objects' = [objects EXCEPT ![h] =
             Object(@.class, IF outcome.assigned = {} THEN @.made ELSE "again",
                    (@.set \ outcome.assigned) \cup outcome.set,
                    IF "client" \in outcome.assigned THEN c ELSE @.client)]
  BY <1>3, <1>4 DEF ConstructAgain
<1>6. PICK c \in ClientFor(outcome) :
        /\ clients' = Connect(Forget(clients, h, outcome), c, class)
        /\ objects' = [objects EXCEPT ![h] =
             Object(@.class, IF outcome.assigned = {} THEN @.made ELSE "again",
                    (@.set \ outcome.assigned) \cup outcome.set,
                    IF "client" \in outcome.assigned THEN c ELSE @.client)]
  BY <1>5
<1>7. /\ "cursor" \notin outcome.assigned /\ "cursor" \notin outcome.set
      /\ "client" \in outcome.assigned <=> class \in {"Manager", "Server"}
      /\ outcome.set \subseteq Classes[class].fields
      /\ \/ c \in FreshClient /\ "client" \in outcome.set /\ c # 0 /\ c \in ClientIds
         \/ c = 0 /\ "client" \notin outcome.set
  BY OutcomeFacts
<1>8. IsKnownOutcome(class, outcome)
  BY OutcomeIsKnown
<1>9. /\ old.client \in ClientIds \cup {0}
      /\ old.made \in Made
      /\ old.set \subseteq Classes[class].fields
      /\ old.client # 0 <=> "client" \in old.set \/ "cursor" \in old.set
      /\ "client" \in old.set => class \in {"Manager", "Server"}
      /\ "cursor" \in old.set => class \in ResultClasses
  BY <1>4, ObjectFacts DEF Objects
<1>10. PICK made \in Made : made = IF outcome.assigned = {} THEN old.made ELSE "again"
  BY <1>9 DEF Made
<1>11. PICK set : set = (old.set \ outcome.assigned) \cup outcome.set
  OBVIOUS
<1>12. PICK client \in ClientIds \cup {0} :
         client = IF "client" \in outcome.assigned THEN c ELSE old.client
  BY <1>7, <1>9
<1>13. PICK o : o = Object(class, made, set, client)
  OBVIOUS
<1>14. /\ set \subseteq Classes[class].fields
       /\ "client" \in set <=> "client" \in outcome.set
       /\ "cursor" \in set <=> "cursor" \in old.set
  BY <1>7, <1>8, <1>9, <1>11 DEF IsKnownOutcome
<1>15. client # 0 <=> "client" \in set \/ "cursor" \in set
  BY <1>7, <1>8, <1>9, <1>12, <1>14 DEF IsKnownOutcome, ResultClasses
<1>16. o \in Objects /\ o.class = class /\ o.made = made /\ o.set = set /\ o.client = client
  BY <1>13, <1>14, <1>15, ObjectIsWellMade
<1>17. objects' = [objects EXCEPT ![h] = o]
  BY <1>3, <1>4, <1>6, <1>10, <1>11, <1>12, <1>13
<1>18. Forget(clients, h, outcome) = Forgotten(h)
  BY <1>3, <1>7, <1>9 DEF Forget, Forgotten, Has
<1>19. \/ c \in FreshClient /\ "client" \in o.set /\ o.client = c
       \/ /\ c = 0 /\ "client" \notin o.set
          /\ o.client # 0 => clients[o.client].state # "none"
  <2>1. CASE "client" \in outcome.set
    BY <1>7, <1>8, <1>12, <1>14, <1>16, <2>1 DEF IsKnownOutcome
  <2>2. CASE "client" \notin outcome.set
    <3>1. c = 0 /\ "client" \notin o.set
      BY <1>7, <1>14, <1>16, <2>2
    <3>2. o.client # 0 => o.client = old.client
      BY <1>12, <1>16, <3>1
    <3>3. old.client # 0 => clients[old.client].state # "none"
      BY <1>1, <1>3 DEF HeapIsSound, ClientsAreKnown
    <3>. QED
      BY <3>1, <3>2, <3>3
  <2>. QED
    BY <2>1, <2>2
<1>20. IsShaped(o)
  <2>1. IsShaped(old)
    BY <1>2, <1>3
  <2>2. CASE outcome.assigned = {}
    <3>1. made = old.made /\ class \notin {"Manager", "Server"}
      BY <1>7, <1>10, <2>2
    <3>2. \A field \in old.set : field \in set
      BY <1>11, <2>2
    <3>3. class = "Command" => "bson" \in set
      BY <1>4, <2>1, <3>2 DEF IsShaped
    <3>. QED
      BY <1>4, <1>16, <2>1, <3>1, <3>2 DEF IsShaped, ResultClasses
  <2>3. CASE outcome.assigned # {}
    <3>1. made = "again" /\ class \notin ResultClasses
      BY <1>8, <1>10, <2>3 DEF IsKnownOutcome
    <3>2. \A field \in outcome.set : field \in set
      BY <1>11
    <3>3. class = "Server" /\ "client" \in set => "host" \in set
      BY <1>8, <1>14, <3>2 DEF IsKnownOutcome
    <3>4. class = "Command" => "bson" \in set
      BY <1>8, <3>2 DEF IsKnownOutcome
    <3>5. class = "WriteBatch" => "batch" \in set
      BY <1>8, <3>2 DEF IsKnownOutcome
    <3>6. class = "ObjectID" => "oid" \in set
      BY <1>8, <2>3, <3>2 DEF IsKnownOutcome
    <3>. QED
      BY <1>16, <3>1, <3>3, <3>4, <3>5, <3>6 DEF IsShaped
  <2>. QED
    BY <2>2, <2>3
<1>. QED
  BY <1>1, <1>6, <1>16, <1>17, <1>18, <1>19, <1>20, MakingKeepsTheHeap


-----------------------------------------------------------------------------
(* Releasing.                                                              *)

(* A Manager that is released destroys its client; nothing else destroys   *)
(* one.  st is what is left after other objects have been released.        *)
LEMMA ReleaseFacts ==
  ASSUME HeapIsSound, NEW h \in Handles, NEW st, st.crash = NoCrash,
         Has(h, "client") => st.clients[objects[h].client].state # "destroyed"
  PROVE  /\ Release(st, objects[h]).crash = NoCrash
         /\ Release(st, objects[h]).clients =
              IF Is(h, "Manager") /\ Has(h, "client")
              THEN [st.clients EXCEPT ![objects[h].client].state = "destroyed"]
              ELSE st.clients
<1>1. CASE objects[h] = NoObject
  BY <1>1, ObjectFacts DEF Release, Is
<1>2. CASE objects[h] # NoObject
  <2>1. PICK o \in Objects : o = objects[h]
    BY <1>2, AliveFacts DEF HeapIsSound, Alive
  <2>2. PICK released : released = o.set \cap Classes[o.class].released
    OBVIOUS
  <2>3. /\ "cursor" \notin released
        /\ "client" \in released <=> Is(h, "Manager") /\ Has(h, "client")
    BY <2>1, <2>2, ClassIsKnown, ObjectFacts DEF IsKnownClass, Is, Has
  <2>4. released \cap {"client", "cursor"} = {} \/ st.clients[o.client].state # "destroyed"
    BY <2>1, <2>3
  <2>5. Release(st, o) =
          [clients |-> IF "client" \in released
                       THEN [st.clients EXCEPT ![o.client].state = "destroyed"] ELSE st.clients,
           crash |-> NoCrash]
    BY <1>2, <2>1, <2>2, <2>4 DEF Release
  <2>. QED
    BY <2>1, <2>3, <2>5
<1>. QED
  BY <1>1, <1>2

LEMMA UnsetStep ==
  ASSUME HeapIsSound, NEW h \in Handles, Unset(h)
  PROVE  IInv'
<1>1. /\ TypeOK /\ ObjectsAreShaped /\ ClientsAreKnown
      /\ OwnersKeepTheirClients /\ OwnersAreAlone /\ ManagersAreKept
  BY DEF HeapIsSound
<1>2. /\ Running /\ h \in Alive /\ UNCHANGED over
      /\ clients' = Release(Now, objects[h]).clients
      /\ crash' = Release(Now, objects[h]).crash
      /\ objects' = [objects EXCEPT ![h] = NoObject]
  BY DEF Unset
<1>3. Now.crash = NoCrash /\ Now.clients = clients
  BY <1>2 DEF Now, Running
<1>4. Has(h, "client") => clients[objects[h].client].state # "destroyed"
  BY <1>2, OwnersHaveLiveClients
<1>5. /\ crash' = NoCrash
      /\ clients' = IF Is(h, "Manager") /\ Has(h, "client")
                    THEN [clients EXCEPT ![objects[h].client].state = "destroyed"]
                    ELSE clients
  <2>1. PICK st : st = Now
    OBVIOUS
  <2>2. st.crash = NoCrash /\ st.clients = clients
    BY <1>3, <2>1
  <2>. QED
    BY <1>2, <1>4, <2>1, <2>2, ReleaseFacts
<1>6. /\ objects' \in [Handles -> Objects \cup {NoObject}]
      /\ objects'[h] = NoObject
      /\ \A g \in Handles : g # h => objects'[g] = objects[g]
  BY <1>1, <1>2 DEF TypeOK
<1>7. /\ \A g \in Alive' : g \in Alive /\ g # h /\ objects'[g] = objects[g]
      /\ \A g \in Alive : g # h => g \in Alive'
  BY <1>6 DEF Alive
<1>8. clients \in [ClientIds -> [state : {"none", "live", "forgotten", "destroyed"},
                                 maker : {"none", "Manager", "Server"}]]
  BY <1>1 DEF TypeOK
<1>9. clients' \in [ClientIds -> [state : {"none", "live", "forgotten", "destroyed"},
                                  maker : {"none", "Manager", "Server"}]]
  BY <1>5, <1>8
<1>10. \A d \in ClientIds :
         \/ clients'[d] = clients[d] /\ ~(Is(h, "Manager") /\ Has(h, "client") /\ d = objects[h].client)
         \/ /\ d = objects[h].client /\ Has(h, "client") /\ Is(h, "Manager")
            /\ clients'[d].state = "destroyed"
            /\ clients'[d].maker = clients[d].maker
  BY <1>5, <1>8
<1>11. Is(h, "Manager") /\ Has(h, "client") => clients[objects[h].client].maker = "Manager"
  BY <1>2, OwnersHaveLiveClients DEF Is
<1>12. \A g \in Alive : objects[g].client \in ClientIds \cup {0}
  BY <1>1, AliveFacts, ObjectFacts
<1>13. TypeOK'
  BY <1>1, <1>2, <1>5, <1>6, <1>9, NoCrashIsExplained DEF TypeOK
<1>14. ObjectsAreShaped'
  BY <1>1, <1>7 DEF ObjectsAreShaped
<1>15. ClientsAreKnown'
  <2>1. ASSUME NEW g \in Alive', objects'[g].client # 0
        PROVE  clients'[objects'[g].client].state # "none"
    <3>1. g \in Alive /\ objects'[g] = objects[g] /\ objects[g].client \in ClientIds
      BY <1>7, <1>12, <2>1
    <3>2. clients[objects[g].client].state # "none"
      BY <1>1, <2>1, <3>1 DEF ClientsAreKnown
    <3>. QED
      BY <1>10, <3>1, <3>2
  <2>2. ASSUME NEW d \in ClientIds
        PROVE  /\ clients'[d].state = "none" => clients'[d] = NoClient
               /\ clients'[d].state = "destroyed" => clients'[d].maker = "Manager"
    BY <1>1, <1>10, <1>11 DEF ClientsAreKnown
  <2>. QED
    BY <2>1, <2>2 DEF ClientsAreKnown
<1>16. OwnersKeepTheirClients'
  <2>1. SUFFICES ASSUME NEW g \in Alive', Has(g, "client")'
                 PROVE  clients'[objects'[g].client] =
                          [state |-> "live", maker |-> objects'[g].class]
    BY DEF OwnersKeepTheirClients
  <2>2. g \in Alive /\ g # h /\ objects'[g] = objects[g] /\ Has(g, "client")
    BY <1>7, <2>1 DEF Has
  <2>3. objects[g].client \in ClientIds
    BY <1>1, <2>2, AliveFacts, ObjectFacts DEF Has, ClientIds
  <2>4. Has(h, "client") => objects[g].client # objects[h].client
    BY <1>1, <1>2, <2>2 DEF OwnersAreAlone
  <2>5. clients'[objects[g].client] = clients[objects[g].client]
    BY <1>10, <2>3, <2>4
  <2>. QED
    BY <1>1, <2>2, <2>5 DEF OwnersKeepTheirClients
<1>17. OwnersAreAlone'
  BY <1>1, <1>7 DEF OwnersAreAlone, Has
<1>18. ManagersAreKept'
  <2>1. SUFFICES ASSUME NEW d \in ClientIds, clients'[d].state = "live", clients'[d].maker = "Manager"
                 PROVE  \E g \in Alive' : objects'[g].class = "Manager" /\ objects'[g].client = d
    BY DEF ManagersAreKept, Is
  <2>2. clients'[d] = clients[d] /\ ~(Is(h, "Manager") /\ Has(h, "client") /\ d = objects[h].client)
    BY <1>10, <2>1
  <2>3. PICK g \in Alive : objects[g].class = "Manager" /\ objects[g].client = d
    BY <1>1, <2>1, <2>2 DEF ManagersAreKept, Is
  <2>4. "client" \in objects[g].set
    <3>1. "Manager" \notin ResultClasses /\ d # 0 /\ objects[g] \in Objects
      BY <1>1, AliveFacts DEF ResultClasses, ClientIds
    <3>. QED
      BY <2>3, <3>1, ObjectFacts
  <2>5. g # h
    BY <2>2, <2>3, <2>4 DEF Is, Has
  <2>. QED
    BY <1>7, <2>3, <2>5
<1>. QED
  BY <1>5, <1>13, <1>14, <1>15, <1>16, <1>17, <1>18, NoCrashIsExplained DEF IInv, HeapIsSound


(* f is what is left after 0, 1, ... n of the objects have been released,  *)
(* as in ReleaseAll.                                                       *)
Releases(f, order, n) ==
  f = [k \in 0..n |-> IF k = 0 THEN Now ELSE Release(f[k - 1], objects[order[k]])]

(* There is such an f for any number of objects.                           *)
LEMMA ReleasesExist ==
  ASSUME NEW order, NEW N \in Nat
  PROVE  \E f : Releases(f, order, N)
<1> DEFINE T == {n \in 0..N : ~ \E f : Releases(f, order, n)}
<1>1. SUFFICES ASSUME T # {} PROVE FALSE
  OBVIOUS
<1>2. PICK n \in T : \A k \in T : n <= k
  <2>1. T \subseteq Nat
    OBVIOUS
  <2> HIDE DEF T
  <2>. QED
    BY <1>1, <2>1, LeastNatural
<1>3. n \in 0..N /\ n \in Nat
  OBVIOUS
<1>4. n # 0
  <2> DEFINE f == [k \in 0..0 |-> Now]
  <2>1. Releases(f, order, 0)
    BY DEF Releases
  <2>. QED
    BY <2>1
<1>5. n - 1 \in 0..N /\ n - 1 \notin T
  BY <1>2, <1>3, <1>4
<1>6. PICK f : Releases(f, order, n - 1)
  BY <1>5
<1>7. f = [k \in 0..n - 1 |-> IF k = 0 THEN Now ELSE Release(f[k - 1], objects[order[k]])]
  BY <1>6 DEF Releases
<1> DEFINE g == [k \in 0..n |-> IF k = n THEN Release(f[n - 1], objects[order[n]]) ELSE f[k]]
<1>8. ASSUME NEW k \in 0..n
      PROVE  g[k] = IF k = 0 THEN Now ELSE Release(g[k - 1], objects[order[k]])
  <2>1. CASE k = n
    <3>1. g[k] = Release(f[n - 1], objects[order[n]]) /\ g[n - 1] = f[n - 1]
      BY <1>3, <1>4, <2>1
    <3>. QED
      BY <1>4, <2>1, <3>1
  <2>2. CASE k = 0
    BY <1>3, <1>4, <1>7, <2>2
  <2>3. CASE k # 0 /\ k # n
    <3>1. k \in 0..n - 1 /\ k - 1 \in 0..n - 1
      BY <1>3, <2>3
    <3>2. g[k] = f[k] /\ g[k - 1] = f[k - 1]
      BY <1>3, <2>3, <3>1
    <3>3. f[k] = Release(f[k - 1], objects[order[k]])
      BY <1>7, <2>3, <3>1
    <3>. QED
      BY <2>3, <3>2, <3>3
  <2>. QED
    BY <2>1, <2>2, <2>3
<1>9. Releases(g, order, n)
  BY <1>8 DEF Releases
<1>. QED
  BY <1>9

(* A release that is safe leaves the clients what they are,                *)
LEMMA ReleaseKeepsItsState ==
  ASSUME HeapIsSound, NEW h \in Handles, NEW st, st.crash = NoCrash,
         DOMAIN st.clients = ClientIds,
         Has(h, "client") => st.clients[objects[h].client].state # "destroyed"
  PROVE  /\ Release(st, objects[h]).crash = NoCrash
         /\ DOMAIN Release(st, objects[h]).clients = ClientIds
  BY ReleaseFacts

(* and destroys none that another object has.                              *)
LEMMA ReleaseSparesOthers ==
  ASSUME HeapIsSound, NEW h \in Handles, NEW st, st.crash = NoCrash,
         DOMAIN st.clients = ClientIds,
         Has(h, "client") => st.clients[objects[h].client].state # "destroyed",
         NEW g \in Handles, g # h, Has(g, "client"),
         st.clients[objects[g].client].state # "destroyed"
  PROVE  Release(st, objects[h]).clients[objects[g].client].state # "destroyed"
<1>1. g \in Alive /\ (Has(h, "client") => h \in Alive)
  BY AliveFacts, ObjectFacts DEF HeapIsSound, Has
<1>2. Has(h, "client") => objects[g].client # objects[h].client
  BY <1>1 DEF HeapIsSound, OwnersAreAlone
<1>3. objects[g].client \in ClientIds
  BY <1>1, AliveFacts, ObjectFacts DEF HeapIsSound, Has
<1>4. Release(st, objects[h]).clients =
        IF Is(h, "Manager") /\ Has(h, "client")
        THEN [st.clients EXCEPT ![objects[h].client].state = "destroyed"]
        ELSE st.clients
  BY ReleaseFacts
<1>. QED
  BY <1>2, <1>3, <1>4

(* st is what is left after k of N objects, and those that are still to be *)
(* released can be.                                                        *)
SafelyLeft(st, order, k, N) ==
  /\ st.crash = NoCrash
  /\ DOMAIN st.clients = ClientIds
  /\ \A m \in 1..N : m > k /\ Has(order[m], "client") =>
       st.clients[objects[order[m]].client].state # "destroyed"

(* Whatever the order, no release finds its client destroyed: by then only *)
(* the Managers before it have destroyed theirs, and no two have the same. *)
LEMMA ReleaseAllIsSafe ==
  ASSUME HeapIsSound, Running, NEW order \in Orders
  PROVE  ReleaseAll(order).crash = NoCrash
<1>1. PICK N \in Nat : N = Cardinality(Handles)
  BY BoundAssumption, FS_CardinalityType
<1>2. PICK released : Releases(released, order, N) /\ ReleaseAll(order) = released[N]
  <2>1. \E f : Releases(f, order, N)
    BY ReleasesExist
  <2>2. ReleaseAll(order) = (CHOOSE f : Releases(f, order, N))[N]
    BY <1>1 DEF ReleaseAll, Releases
  <2>. QED
    BY <2>1, <2>2
<1>3. /\ order \in [1..N -> Handles]
      /\ \A a \in 1..N : \A b \in 1..N : order[a] = order[b] => a = b
  BY <1>1 DEF Orders, Bijection, Injection, IsInjective
<1>4. /\ released[0] = Now
      /\ \A k \in 1..N : released[k] = Release(released[k - 1], objects[order[k]])
  BY <1>2 DEF Releases
<1> DEFINE T == {k \in 0..N : ~SafelyLeft(released[k], order, k, N)}
<1>5. SUFFICES ASSUME T # {} PROVE FALSE
  <2>1. N \in 0..N
    OBVIOUS
  <2>2. T = {} => SafelyLeft(released[N], order, N, N)
    BY <2>1
  <2>. QED
    BY <1>2, <2>2 DEF SafelyLeft
<1>6. PICK k \in T : \A i \in T : k <= i
  <2>1. T \subseteq Nat
    OBVIOUS
  <2> HIDE DEF T
  <2>. QED
    BY <1>5, <2>1, LeastNatural
<1>7. k \in 0..N /\ ~SafelyLeft(released[k], order, k, N)
  OBVIOUS
<1>8. SafelyLeft(released[0], order, 0, N)
  <2>1. released[0].crash = NoCrash /\ released[0].clients = clients
    BY <1>4 DEF Now, Running
  <2>2. DOMAIN clients = ClientIds
    BY DEF HeapIsSound, TypeOK
  <2>3. \A m \in 1..N : Has(order[m], "client") =>
          clients[objects[order[m]].client].state # "destroyed"
    BY <1>3, OwnersHaveLiveClients, AliveFacts, ObjectFacts DEF HeapIsSound, Has
  <2>. QED
    BY <2>1, <2>2, <2>3 DEF SafelyLeft
<1>9. k # 0 /\ k \in 1..N /\ k - 1 \in 0..N
  <2>1. k # 0
    BY <1>7, <1>8
  <2>. QED
    BY <1>7, <2>1
<1>10. SafelyLeft(released[k - 1], order, k - 1, N)
  <2>1. k - 1 \notin T
    <3>1. ~(k <= k - 1)
      BY <1>9
    <3> HIDE DEF T
    <3>. QED
      BY <1>6, <3>1
  <2>. QED
    BY <1>9, <2>1
<1>11. PICK st : st = released[k - 1]
  OBVIOUS
<1>12. released[k] = Release(st, objects[order[k]])
  BY <1>4, <1>9, <1>11
<1>13. /\ order[k] \in Handles
       /\ st.crash = NoCrash
       /\ DOMAIN st.clients = ClientIds
       /\ Has(order[k], "client") => st.clients[objects[order[k]].client].state # "destroyed"
  <2>1. order[k] \in Handles
    BY <1>3, <1>9
  <2>2. SafelyLeft(st, order, k - 1, N)
    BY <1>10, <1>11
  <2>3. k > k - 1
    BY <1>9
  <2>. HIDE DEF T
  <2>. QED
    BY <1>9, <2>1, <2>2, <2>3, Zenon DEF SafelyLeft
<1>14. ASSUME NEW m \in 1..N, m > k, Has(order[m], "client")
       PROVE  released[k].clients[objects[order[m]].client].state # "destroyed"
  <2>1. order[m] \in Handles /\ order[m] # order[k]
    BY <1>3, <1>9, <1>14
  <2>2. st.clients[objects[order[m]].client].state # "destroyed"
    <3>1. m > k - 1
      BY <1>9, <1>14
    <3>. QED
      BY <1>10, <1>11, <1>14, <3>1, Zenon DEF SafelyLeft
  <2>. QED
    BY <1>12, <1>13, <1>14, <2>1, <2>2, ReleaseSparesOthers
<1>15. released[k].crash = NoCrash /\ DOMAIN released[k].clients = ClientIds
  BY <1>12, <1>13, ReleaseKeepsItsState
<1>. QED
  BY <1>7, <1>14, <1>15 DEF SafelyLeft

LEMMA EndRequestStep ==
  ASSUME HeapIsSound, EndRequest
  PROVE  IInv'
<1>1. /\ Running
      /\ clients' = [c \in ClientIds |-> NoClient]
      /\ objects' = [h \in Handles |-> NoObject]
      /\ over' = TRUE
  BY DEF EndRequest
<1>2. crash' = NoCrash
  BY <1>1, ReleaseAllIsSafe DEF EndRequest
<1>3. Alive' = {}
  BY <1>1 DEF Alive
<1>4. TypeOK'
  BY <1>1, <1>2, NoCrashIsExplained DEF TypeOK, NoClient
<1>5. \A c \in ClientIds : clients'[c] = NoClient /\ clients'[c].state = "none"
  BY <1>1 DEF NoClient
<1>6. ObjectsAreShaped' /\ ClientsAreKnown'
  BY <1>3, <1>5 DEF ObjectsAreShaped, ClientsAreKnown
<1>7. OwnersKeepTheirClients' /\ OwnersAreAlone' /\ ManagersAreKept'
  BY <1>3, <1>5 DEF OwnersKeepTheirClients, OwnersAreAlone, ManagersAreKept
<1>. QED
  BY <1>2, <1>4, <1>6, <1>7, NoCrashIsExplained DEF IInv, HeapIsSound

-----------------------------------------------------------------------------
(* Every step keeps the invariant; one that ends the script has explained  *)
(* why, and there is no step after it.                                     *)
LEMMA NextKeepsIInv ==
  ASSUME IInv, Next
  PROVE  IInv'
<1>1. HeapIsSound
  BY DEF IInv
<1>2. CASE \E class \in ClassNames : New(class) \/ NewOverridden(class)
  BY <1>1, <1>2, NewStep, NewOverriddenStep
<1>3. CASE EndRequest
  BY <1>1, <1>3, EndRequestStep
<1>4. CASE \E h \in Handles :
             \/ ConstructAgain(h)
             \/ ExecuteOne(h)
             \/ \E arg \in Handles : ExecuteRead(h, arg) \/ ExecuteWrite(h, arg)
             \/ Iterate(h) \/ GetResponseDocument(h) \/ GetServer(h) \/ GetHost(h) \/ GetPort(h)
             \/ UseField(h, "WriteBatch", "batch") \/ UseField(h, "ObjectID", "oid")
             \/ UseField(h, "WriteError", "message")
             \/ Unset(h)
  BY <1>1, <1>4, ConstructAgainStep, ExecuteOneStep, ExecuteReadStep, ExecuteWriteStep,
     IterateStep, GetResponseDocumentStep, GetServerStep, GetHostStep, GetPortStep,
     UseFieldStep, UnsetStep
<1>. QED
  BY <1>2, <1>3, <1>4 DEF Next

LEMMA InitSatisfiesIInv ==
  ASSUME Init
  PROVE  IInv
<1>1. /\ crash = NoCrash /\ over = FALSE
      /\ Alive = {}
      /\ \A c \in ClientIds : clients[c] = NoClient /\ clients[c].state = "none"
  BY DEF Init, Alive, NoClient
<1>2. TypeOK
  BY <1>1, NoCrashIsExplained DEF Init, TypeOK, NoClient
<1>3. ObjectsAreShaped /\ ClientsAreKnown
  BY <1>1 DEF ObjectsAreShaped, ClientsAreKnown
<1>4. OwnersKeepTheirClients /\ OwnersAreAlone /\ ManagersAreKept
  BY <1>1 DEF OwnersKeepTheirClients, OwnersAreAlone, ManagersAreKept
<1>. QED
  BY <1>1, <1>2, <1>3, <1>4, NoCrashIsExplained DEF IInv, HeapIsSound

LEMMA StutteringKeepsIInv ==
  ASSUME IInv, UNCHANGED vars
  PROVE  IInv'
<1>1. UNCHANGED <<objects, clients, crash, over>>
  BY DEF vars
<1>2. Alive' = Alive
  BY <1>1 DEF Alive
<1>3. TypeOK' /\ ObjectsAreShaped' /\ ClientsAreKnown'
  BY <1>1, <1>2 DEF IInv, HeapIsSound, TypeOK, ObjectsAreShaped, ClientsAreKnown
<1>4. OwnersKeepTheirClients' /\ OwnersAreAlone' /\ ManagersAreKept'
  BY <1>1, <1>2 DEF IInv, HeapIsSound, OwnersKeepTheirClients, OwnersAreAlone, ManagersAreKept, Has, Is
<1>5. CrashIsExplained'
  BY <1>1, <1>2 DEF IInv, CrashIsExplained, ReleaseIsSafe, DanglesOnlyWithoutManager,
                    NullIsExplained, Has
<1>. QED
  BY <1>3, <1>4, <1>5 DEF IInv, HeapIsSound

(* The inductive invariant holds of every request: the heap is sound while *)
(* the script runs, and what ended it is one of the things listed.         *)
THEOREM Invariance == Spec => []IInv
<1>1. Init => IInv
  BY InitSatisfiesIInv
<1>2. IInv /\ [Next]_vars => IInv'
  BY NextKeepsIInv, StutteringKeepsIInv
<1>. QED
  BY <1>1, <1>2, PTL DEF Spec

-----------------------------------------------------------------------------
(* The properties, for any number of objects, clients and classes that do  *)
(* nothing here.                                                           *)

(* Every variable always has its type.                                     *)
THEOREM TypeCorrect == Spec => []TypeOK
<1>1. IInv => TypeOK
  BY DEF IInv, HeapIsSound
<1>. QED
  BY <1>1, Invariance, PTL

(* Objects can be released in any order, by the script or when the request *)
(* ends: no free_object releases what another one has released.            *)
THEOREM ReleasesAreSafe == Spec => []ReleaseIsSafe
<1>1. IInv => ReleaseIsSafe
  BY DEF IInv, CrashIsExplained
<1>. QED
  BY <1>1, Invariance, PTL

(* Only the result of a Manager that is gone can follow a pointer to a     *)
(* destroyed client (php_phongo_manager_free_object).                      *)
THEOREM OnlyResultsOutliveManagers == Spec => []DanglesOnlyWithoutManager
<1>1. IInv => DanglesOnlyWithoutManager
  BY DEF IInv, CrashIsExplained
<1>. QED
  BY <1>1, Invariance, PTL

(* NULL is followed only in the objects whose constructors did not make    *)
(* them, in those of results and errors that have less than is asked of    *)
(* them, and in a WriteResult of a reply with a write concern error.       *)
THEOREM NullsAreExplained == Spec => []NullIsExplained
<1>1. IInv => NullIsExplained
  BY DEF IInv, CrashIsExplained
<1>. QED
  BY <1>1, Invariance, PTL

(* A client that a Manager made and has not forgotten has exactly one      *)
(* Manager (php_phongo_manager_free_object).                               *)
THEOREM ClientsAreKept == Spec => []EachClientHasItsManager
<1>1. ASSUME IInv
      PROVE  EachClientHasItsManager
  <2>1. TypeOK /\ OwnersAreAlone /\ ManagersAreKept
    BY <1>1 DEF IInv, HeapIsSound
  <2>2. SUFFICES ASSUME NEW c \in ClientIds, clients[c].state = "live", clients[c].maker = "Manager"
                 PROVE  Cardinality({h \in Alive : Is(h, "Manager") /\ objects[h].client = c}) = 1
    BY DEF EachClientHasItsManager
  <2>3. \A h \in Alive : Is(h, "Manager") /\ objects[h].client = c => Has(h, "client")
    <3>1. "Manager" \notin ResultClasses /\ c # 0
      BY DEF ResultClasses, ClientIds
    <3>. QED
      BY <2>1, <3>1, AliveFacts, ObjectFacts DEF Is, Has
  <2>4. PICK h \in Alive : Is(h, "Manager") /\ objects[h].client = c
    BY <2>1, <2>2 DEF ManagersAreKept
  <2>5. \A g \in Alive : Is(g, "Manager") /\ objects[g].client = c => g = h
    BY <2>1, <2>3, <2>4 DEF OwnersAreAlone
  <2>6. {g \in Alive : Is(g, "Manager") /\ objects[g].client = c} = {h}
    BY <2>4, <2>5
  <2>. QED
    BY <2>6, FS_Singleton
<1>. QED
  BY <1>1, Invariance, PTL

=============================================================================
