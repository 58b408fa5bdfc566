------------------------------ MODULE Classes -------------------------------
(***************************************************************************)
(* The classes the extension registers (src/MongoDB, src/BSON).            *)
(*                                                                         *)
(* An instance is allocated by create_object with every field NULL.  What  *)
(* is told of a class is the fields that point to memory of their own      *)
(* ("fields"), those of them that its free_object releases ("released"),   *)
(* and whether scripts may extend it.  Numbers and flags are left out; so  *)
(* are the iterator of results (see ResultIteration) and the properties of *)
(* WriteException.                                                         *)
(***************************************************************************)

Final(fields, released) ==
  [final |-> TRUE, fields |-> fields, released |-> released]

Open(fields, released) == [Final(fields, released) EXCEPT !.final = FALSE]

(* The interface BSON\Type; the classes that implement it are not final,   *)
(* and their free_object releases nothing.                                 *)
BsonType(fields) == Open(fields, {})

-----------------------------------------------------------------------------
(* MongoDB.                                                                *)

CommandClass == Final({"bson"}, {"bson"})

CommandResultClass == Final({"cursor", "firstBatch"}, {})

CursorClass == Open({}, {})

CursorIdClass == Final({}, {})

GeneratedIdClass == Final({}, {})

(* Defect: free_object does not destroy the client.                        *)
ManagerClassKeepsClient == Final({"client"}, {})

ManagerClass == Final({"client"}, {"client"})

(* Defect: the class may be extended.                                      *)
QueryClassOpen == Open({"query", "selector"}, {})

QueryClass == Final({"query", "selector"}, {})

(* Defect: free_object destroys the cursor.                                *)
QueryResultClassOwnsCursor == Final({"cursor", "firstBatch"}, {"cursor"})

QueryResultClass == Final({"cursor", "firstBatch"}, {})

ReadPreferenceClass == Final({"read_preference"}, {})

(* Defect: free_object destroys the client, as that of Manager does.       *)
ServerClassOwnsClient == Final({"host", "client"}, {"client"})

ServerClass == Final({"host", "client"}, {})

WriteBatchClass == Open({"batch"}, {"batch"})

WriteConcernClass == Final({"write_concern"}, {"write_concern"})

WriteConcernErrorClass == Final({"message", "info"}, {"message", "info"})

WriteErrorClass == Final({"message"}, {"message"})

WriteExceptionClass == Final({}, {})

WriteResultClass ==
  LET own == {"info", "upsertedIds", "writeErrors", "writeConcernErrors"}
  IN  Final(own, own)

-----------------------------------------------------------------------------
(* BSON.                                                                   *)

BinaryClass == BsonType({})

DBRefClass == BsonType({})

Int32Class == BsonType({})

Int64Class == BsonType({})

JavascriptClass == BsonType({})

LogClass == BsonType({})

MaxKeyClass == BsonType({})

MinKeyClass == BsonType({})

ObjectIDClass == BsonType({"oid"})

PoolClass == BsonType({})

RegexClass == BsonType({})

TimestampClass == BsonType({})

UTCDatetimeClass == BsonType({})

-----------------------------------------------------------------------------
Classes ==
  [Command |-> CommandClass, CommandResult |-> CommandResultClass, Cursor |-> CursorClass,
   CursorId |-> CursorIdClass, GeneratedId |-> GeneratedIdClass, Manager |-> ManagerClass,
   Query |-> QueryClass, QueryResult |-> QueryResultClass,
   ReadPreference |-> ReadPreferenceClass, Server |-> ServerClass,
   WriteBatch |-> WriteBatchClass, WriteConcern |-> WriteConcernClass,
   WriteConcernError |-> WriteConcernErrorClass, WriteError |-> WriteErrorClass,
   WriteException |-> WriteExceptionClass, WriteResult |-> WriteResultClass,
   Binary |-> BinaryClass, DBRef |-> DBRefClass, Int32 |-> Int32Class, Int64 |-> Int64Class,
   Javascript |-> JavascriptClass, Log |-> LogClass, MaxKey |-> MaxKeyClass,
   MinKey |-> MinKeyClass, ObjectID |-> ObjectIDClass, Pool |-> PoolClass,
   Regex |-> RegexClass, Timestamp |-> TimestampClass, UTCDatetime |-> UTCDatetimeClass]

ClassNames == DOMAIN Classes

=============================================================================
