# phongo in TLA+

phongo is a PHP 5 extension: thin glue between PHP objects and libmongoc, the
MongoDB C driver.  It is single threaded.  What is hard about it is not
parallelism but *sequences*: objects of a script that share one C object and
are used in any order, calls into libmongoc that succeed in part, results that
point into memory of something else, and a socket that delivers bytes in any
portions.  This directory models those parts, checks them with TLC and proves
what it can with TLAPS.

libmongoc and libbson are not part of the repository.  They are modelled from
how the code here uses them, and marked external in `PROJECT.json`.

## The system

| component | code | state | operations |
|---|---|---|---|
| stream | `php_phongo.c` 620-721 | the PHP stream, its timeout; iov array of a call | `readv`, `writev`, `set_timeout`, `setsockopt`, `destroy`, `close` |
| initiator | `php_phongo.c` 723-781 | PHP's list of persistent streams | `phongo_stream_initiator` |
| Manager | `MongoDB/Manager.c` | a mongoc client | `execute*`, construction, destruction |
| Server | `MongoDB/Server.c` | client, host, hint (not all of them set) | `execute*`, `getHost`, `getPort`, comparison |
| WriteBatch | `MongoDB/WriteBatch.c` | a mongoc bulk operation: operations, hint | `insert`, `update`, `delete` |
| write execution | `php_phongo.c` 440-557 | - | `phongo_execute_write` and the single operations |
| WriteResult, WriteException | `php_phongo.c` 237-435 | counters, errors, hint | made from a reply, then only read |
| results | `php_phongo.c` 209-223, 559-615 | a mongoc cursor, a pointer `firstBatch`, reference count | `phongo_execute_query`, `phongo_execute_command` |
| iterators | `php_phongo.c` 887-1001 | the current document, a pointer to the result | `rewind`, `valid`, `move_forward`, destructor |
| Query | `php_phongo.c` 805-873 | encoded query, selector, options | `phongo_query_init` |
| BSON codec | `bson.c` | - | `zval_to_bson`, `bson_to_zval` and the visitors |
| ReadPreference, WriteConcern | `MongoDB/*.c` | a mongoc object | construction |
| the rest | `MongoDB/Cursor.c`, `BSON/*.c`, ... | - | generated stubs and value holders |

A script calls a Manager or a Server; these call `phongo_execute_*`, which call
libmongoc with the object's client; libmongoc calls back into the stream for
every byte it sends and receives.  A query's result keeps the mongoc cursor,
and each `foreach` over it pulls documents from that cursor through an iterator
of its own.  A result's `getServer` makes a Server from the hint of the server
that answered; a batch executed through that Server gets the hint.

What makes each part correct:

* stream: the bytes of the stream are in the caller's buffers in order, however
  they arrive, and the caller is never told of bytes that are not there;
* results: no document is lost or handed out twice between the first one taken
  at execution, the loops and the cursor; a result lives as long as its loops;
  loops end, and end with an exception if the cursor failed;
* writes: no exception means that everything was done; a partial failure is
  reported; executing a batch again does not store a document twice; a write
  goes to the server that can take it;
* connections: a stream belongs to one host and one client, and what is read is
  the answer to what was sent;
* queries: a query is complete or was not built;
* codec: every value stands at its path in the document, whatever the keys are;
  decoding a document and encoding the result gives it back, and an element that
  is corrupt takes no more along than it must; encoding ends;
* objects: they can be dropped in any order, and what is NULL or gone is
  followed only where the class allows it.

`PROJECT.json` lists the places where this can go wrong ("hazards"), each with
the properties that would catch it.

## Modules

### StreamRead, refining AtomicRead

`StreamRead` is `phongo_stream_readv` statement by statement.  `BeginReadv` is
the call; `ReadSome` and `ReadNothing` are the two outcomes of
`php_stream_read`; `NextEntry` is one turn of the inner `while`; `ReturnBytes`
and `ReadOn` are what follows it.  `PeerSends` happens between any two of them.
A byte is represented by its position in the stream, so "in order, without gap"
is visible in `mem`, the contents of the buffers; a buffer is modelled longer
than it is, so that an overrun would be visible too.

`AtomicRead` is what a caller relies on: one step that hands over the next n
bytes, or fails having lost fewer than `min_bytes` of them.  `ImplementsAtomicRead`
says that the loop is such a read, and is both checked and proved.

All of it rests on an assumption about the caller: `min_bytes` is no more than
the buffers hold together.  The code does not check that.  With a larger
`min_bytes` the loop would stop at the end of the buffers and return less than
was asked for.

### ResultIteration

Query and command results, their reference counts and the loops over them.
`Execute`, `ExecuteThrows` and `ExecuteIgnored` are the outcomes of executing a
query or a command: the first document is taken off the cursor at once and its
address kept in `firstBatch`.  Where there is no document the two differ in what
the pointer was before the call of `mongoc_cursor_next` (`Pointers`): NULL for a
query, whatever was on the stack for a command.  That `mongoc_cursor_next` sets
it to NULL in either case is an assumption about libmongoc (`PointerAtEnd`),
without which a loop over such a command result would follow it; `Driver` makes
the same one.  `GetIterator`, `Rewind`, `MoveForward` and
`Destroy` are the iterator's functions, in the order in which `foreach` calls
them; `Valid` is part of the two that move, as PHP calls it right after.  Loops
interleave freely: nested loops and generators do that.  The mongoc cursor is
external: `NextYields`, `NextEnds` and `NextFails`.  A read through `firstBatch`
after another call of `mongoc_cursor_next` is undefined in C, and yields any
document or garbage here.

A namespace that is refused changes nothing and is left out.  The iterator class
that `IteratorIterator` could set is left out: `getIterator` is an empty stub,
so a result is only ever iterated by `foreach`, which rewinds once.

### WriteExecution

WriteBatch objects, the single operations of the Manager, and
`phongo_execute_write`.  `Fill` is what `insert`, `update` and `delete` add;
`ExecuteWriteBatch` executes a batch through a Manager, through a Server the
script made, or through a Server of a result; `ExecuteOne` is `executeInsert`,
`executeUpdate` and `executeDelete`; `InvalidNamespace` is the early return.
`Conclude` is the end of `phongo_execute_write`: which exception or result the
script gets.  Three kinds of documents are told apart, by what `zval_to_bson`
does about their `_id`.  An update or a delete keeps the options it was made of;
`BatchUpdate`, `SingleUpdate`, `BatchDelete` and `SingleDelete` are the ways from
the options to a kind of operation, two of them through flags of libmongoc.

`MongocExecute` is the external part: an answer with any write errors and write
concern errors the kind of batch allows, a lost connection after any part was
done, or a refusal by a server that cannot take writes.  That libmongoc keeps a
bulk operation's operations after an execution, and sends them again at the
next, is an assumption about it; the code here neither prevents it nor relies
on it.  A constructed Server is assumed to be of the Manager's deployment.

Upserts are left out, and with them the option `upsert` and `getUpsertedIds`.

### Connection

The initiator, `php_phongo_set_timeout` and `phongo_stream_writev`, over PHP's
list of persistent streams.  A node is one server as one mongoc client sees it.
`Initiate` gives a node a stream: `Reuse` takes the persistent one if it is
alive, `Open` closes a dead one (`Pclose`) and opens another, `OpenFails` is the
early return.  `Writev` sets the timeout and starts a call, `WriteBuffer` is one
turn of the loop over the iov array, which may be short, and `WritevReturns` is
what mongoc makes of the sum.  `ReadReply` and `ReadFails` are a whole
`phongo_stream_readv`, whose detail `StreamRead` has.  A read gets a timeout of
its own (`call.wait`), which the code does not look at: the stream's timeout,
set by writes and kept over calls, nodes and requests, is what counts.
`asked` is a history of the timeouts that a stream was told.  `ServerTakes` and
`PeerCloses` happen at any time.  `EndRequest` may come in the middle of a call:
the memory of the request is gone, the stream and what is in it are not.

A message is a sequence of positions; a reply carries the request it answers;
so "in step" and "whole" can be said.  A node whose stream another node's
reconnect has freed is *dangling*: a write on it is undefined, and either
crashes (`WritevCrashes`) or finds the stream that took its place
(`DanglingFindsAnother`).  How short a write is, the liveness check
and the reaction of mongoc to a failed call (`GiveUp`) are external.

### BsonCodec, Encoder and Decoder

`BsonCodec` has the data of `bson.c`.  A PHP value is a node of a heap of arrays
and objects with ordered entries, so values can share parts and contain
themselves; `applied` is the recursion counter of each hash table.  A BSON
document is the sequence of its elements, those of nested documents included,
each of which names the element it is in.  Scalars are one kind; what matters of
an integer key is kept: that it is cut to 32 bits, here to `Wrap`.  Keys and
names are integers of either sign: PHP makes an integer key of a name like `-5`
when it is put into an array (`PhpKey`), and encoding cuts it.

`Encoder` is `zval_to_bson`, one entry of a value at a time.  `frames` is the
stack of its recursive calls.  `ZvalToBson` is a call, with the check of the
counter; `AppendLeaf`, `SkipLeaf`, `ListToBson` and `ObjectToBson` are the cases
of `phongo_bson_append`; `Return` is the end of the loop over a hash table, and
the lowering of the counter by the caller.  Recursion that no counter stops runs
into a bound on the stack, `StackSize`.

`Decoder` is `bson_to_zval`, one element at a time.  `iters` is the stack of the
calls of `bson_iter_visit_all`, which the visitors of nested documents make.
`VisitLeaf`, `VisitNested` and `VisitOther` are the visitors and the types that
have none; `VisitCorrupt`, `VisitInvalid` and `EndOfDocument` are the ways an
iteration ends, after which `VisitAllReturns` is what its caller does:
`php_phongo_bson_visit_document` keeps the object or drops it, `bson_to_zval`
reads the next document of the string or returns.  `ReadDocument` is one turn of
its loop over these documents.

Three variables are histories, which no action reads: `origins` (the entry an
element was written from), `made` and `placed` (the node and the entry an
element was decoded to).  The properties speak of them.

### QueryInit, Queries and Documents

`QueryInit` is `phongo_query_init` as a pipeline of its statements over a record
of the query under construction; every `Warn` is one of its early returns.
The counts of the references to the arguments are left out.
`Queries` is a script that constructs queries with any arguments
(`ConstructQuery`).

`Documents` composes the three: a script builds a value (`Assign`), encodes it
(`FromArray`, then `Encode` as long as it takes), gets strings from elsewhere
(`Receive`), decodes them (`ToArray`, then `Decode`) and encodes the result
again, turns one into the other form (`ToJSON`, `FromJSON`), or constructs a
query (`NewQuery`).  PHP runs nothing of the script during these calls, so no
other step comes between the steps of a call.

### Classes and Driver

`Classes` has one definition per class that the extension registers: the fields
that point to memory, those that `free_object` releases, and whether a script
may extend the class.  Most of `BSON/*.c` is generated and has no fields.

`Driver` is a request: up to a number of objects of these classes, the mongoc
clients they made, and every order of `New`, `NewOverridden` (a subclass whose
constructor does not call the parent's), `ConstructAgain`, executions, methods
that follow a pointer, and `Unset`; `EndRequest` releases what is left in any
order.  The constructors are sets of outcomes, which say what is assigned, what
is not NULL afterwards and whether it throws.  Executions are reduced to what
they do to pointers; `ResultIteration` and `WriteExecution` have the rest.
Methods that only read appear as steps that end the script where they would
follow NULL or a destroyed client; a NULL client given to a read is taken for
that.  A write with a NULL client (`Refused`) fails in libmongoc, and
`phongo_execute_write` throws, as `WriteExecution` has it for the Server of a
failed write.  Making a WriteResult follows NULL when the reply has a write
concern error (`CrashWith`).

### Definitions called a defect

Some definitions have a comment that begins with "Defect".  No specification
uses them.  Each is a plausible mistake in the operation that follows it, and
`PROJECT.json` ("mutants") pairs each with a property: with the mistake in place
of the operation, TLC finds the property violated.

## Runs

Runs that hold:

| run | instance | shows |
|---|---|---|
| `stream_read` | 1 or 3 buffers of 0 to 3 bytes, `min_bytes` 0 to 4, 7 bytes from the peer; 16 thousand states | every split of the stream over reads: `BuffersHoldTheStream`, `ReadsIntoTheFirstGap`, `ImplementsAtomicRead`; `CallReturns` |
| `result_iteration` | 1 result of 0 to 3 documents, 3 loops; 117 thousand states | lifetimes (`ResultOutlivesItsLoops`, `FreedWithItsLastUser`), documents (`NothingLost`, `NextGivesEachDocumentOnce`, `SoleLoopSeesEverything`, `EarlyLoopsStartAtTheFirst`), `LoopsEnd` |
| `write_execution` | 1 batch of up to 2 operations, 2 servers, 2 executions, updates with the option `limit`, `multi` or neither; 240 thousand states | what the script is told (`NoExceptionMeansAllDone`, `PartialFailureIsReported`, `ResultNamesTheServer`), where writes go (`OnlyAHintLeadsAstray`), `RetryStoresOnce`, `OptionsMeanTheSame` |
| `connection` | 2 nodes at 2 hosts, 2 streams, 2 messages of 2 buffers, 4 timeouts; 238 thousand states | `OnlyOthersTakeTheStream`, `WaitsAsLastAsked`, `SentMeansWhole`, `RepliesStayInStep`; `CallsEnd` |
| `documents` | 2 nodes of up to 3 entries in all, 6 keys, 8 received documents, numbers cut to 4 values and keys to 3; 556 thousand states | the encoder (`EncodesUnlessEndless`, `ArraysAscend`, `LeavesKeepTheirPaths`, `NamesClashOnlyWhenCut`), the decoder (`DecodingIsUndone`, `CorruptionIsLocal`), queries (`BuiltMeansComplete`) |
| `driver` | 3 objects of any of 29 classes, 2 clients; 735 thousand states | `ReleaseIsSafe`, `DanglesOnlyWithoutManager`, `NullIsExplained`, `EachClientHasItsManager` |

Why these bounds are enough.  The loop of `readv` looks at one entry and its
successor and treats an empty, a partly filled and a full entry differently:
three entries with an empty one in the middle or in front or at the end have
every neighbourhood, and seven bytes make two calls on one stream.  Results do
not interact, so one is enough; what a loop sees depends on whether another was
entered before, between or after its steps, which takes three; three documents
are a first, a middle and a last.  Batches do not interact except through hints,
which the model lets come from anywhere; two operations can fail together or one
of them; two executions are a first one and a repeated one; of the options of an
update, `limit` is the one the code reads and `multi` the one the documentation
has.  Two nodes
can take the stream from each other, and with two hosts a stream can lead to the
wrong one; two messages are one that fails and one that finds what it left; the
timeouts lie below and above a second, and are 0 and negative, and a read may be
given any of them whatever the write before it was; buffers of 1 and
2 bytes can be short in the first, in the second, or in both.  Integer
keys are cut to `Wrap`, which is 2^32 in the code and 3 in the run; one of the
keys is not below it and one is negative.  `ArraysAscend` speaks of lists that have no more than
`Wrap` entries, as those of the code have: a hash table of PHP 5 counts its
entries in 32 bits.  Two nodes make every cycle of
length one and two, with and without a list in it; a document that is received
has up to six elements, with two levels of nesting, and corrupt ones at each
level.  Three objects are an owner,
an argument and a result; one of them may be of a class that does nothing
(`MaxIdle`); a second client is needed to construct a Manager again.  Handles
are symmetric: nothing compares them.  Deadlock is not checked where a script
may stop.

Fairness.  `StreamRead`: the function's own steps; `php_stream_read` returns
because a PHP stream has a timeout.  `ResultIteration`: a loop that has been
entered rewinds, moves on after its body and leaves when it has run out; it need
not break, and the script need not start anything.  `Connection`: the
loop of `writev` goes on and returns, and a read ends in a reply or in failure
because a stream has a timeout; neither the peer nor the script is fair.  The
other modules have no liveness property.

Runs that show the code to disagree with its documentation, each with the
quotation under "findings":

| run | property | what happens |
|---|---|---|
| `shared_socket` | `SingleSocketToItsServer` | the messages for one host are written to the socket of another |
| `getmore_error_swallowed` | `EndMeansNoError` | a loop whose getMore fails ends like a complete one |
| `stale_hint` | `SelectsWriteableServer` | a hint stays in the batch and directs later writes through a Manager |
| `concern_errors` | `WriteConcernErrorsAreDelivered` | write concern errors crash the script, or at least hide the write errors |
| `update_multi` | `UpdatesOneUnlessMulti` | the option `multi` is ignored: an update without `limit` changes every document it matches |
| `bare_exception` | `ExceptionCarriesResult` | the exception of a write whose return value is ignored has no result |

Three more disagreements were read off single lines of the code and have no
run.  `WriteBatch::insert` (line 101) returns an `_id` only if the driver made
it, and `docs/api/MongoDB/WriteBatch.php:26-27` says that of the document too.
`ReadPreference` (line 153) exchanges the modes of two of its constants.
`phongo_stream_readv` ignores its timeout, of which no document says anything.

## Proofs

Each of these modules EXTENDS the one it is about, and proves its theorems for
every value of the constants that the named assumptions allow.  Each has one
inductive invariant, `IInv`, one lemma per action (`...Preserves` or `...Step`)
that shows what the action does to each conjunct, and one `THEOREM` per
property.  `Invariance` is `Spec => []IInv`; the others follow from it.

| module | proved of the specification |
|---|---|
| `StreamReadProofs` | `TypeOK`, `BuffersHoldTheStream`, `ReadsIntoTheFirstGap`, `ImplementsAtomicRead` |
| `ResultIterationProofs` | `TypeOK`, `CountsItsUsers`, `ResultOutlivesItsLoops`, `FreedWithItsLastUser`, `NothingLost`, `NextGivesEachDocumentOnce`, `EarlyLoopsStartAtTheFirst`, `SoleLoopSeesEverything` |
| `ConnectionProofs` | `TypeOK`, `OnlyOthersTakeTheStream`, `WaitsAsLastAsked`, `SentMeansWhole`, `RepliesStayInStep`; a call keeps its stream |
| `WriteExecutionProofs` | `TypeOK`, `NoExceptionMeansAllDone`, `PartialFailureIsReported`, `ResultNamesTheServer`, `OnlyAHintLeadsAstray`, `RetryStoresOnce`, `OptionsMeanTheSame` |
| `QueriesProofs` | `QueryTypeOK`, `BuiltMeansComplete` |
| `DocumentsProofs` | `TypeOK`, `EncodesUnlessEndless`, `ArraysAscend`, `LeavesKeepTheirPaths`, `NamesClashOnlyWhenCut`, `DecodingIsUndone`; `QueriesSpec` |
| `DriverProofs` | `TypeOK`, `ReleaseIsSafe`, `DanglesOnlyWithoutManager`, `NullIsExplained`, `EachClientHasItsManager` |

`LeastNaturals` has the one lemma by which the others do induction.

### StreamReadProofs

For every set of buffer layouts, every `min_bytes` and every length of the
stream; the assumptions are that layouts are layouts and that the bounds and
`min_bytes` are natural numbers.  The inductive invariant adds
`AccountsForEveryByte`, which says of the states inside the inner loop what the
properties say outside it: there `read` holds bytes that are already in memory
but not yet charged to an entry, so without it nothing is known of the entry
the next read goes to.  `EntryOrder` (the buffers lie one after the other) and
`ScatterExtends` (a read at the first gap extends the scattered prefix) carry
the argument; the refinement follows from the invariant, a step of the loop
being a stutter and a return being `Deliver` or `Fail`.

### ResultIterationProofs

For any number of results, loops and documents; the only assumption is that
`MaxDocs` is a number, and the loops need not be finitely many: finitely many
run over a result at any time.  `CountsItsUsers` says that `refs` is the
variable of the script, if it is there, and the loops; adding and removing a
loop changes that cardinality by one, and both lifetime properties follow.  For
the documents the invariant relates the cursor to what was taken
(`CursorIsInStep`), the three states of `firstBatch` to what was shown
(`BatchIsInStep`), and each loop's phase to what it was shown
(`BodiesComeAfterTheFirst`, `ShownWasTaken`): a stale `firstBatch` implies that
the first document was shown already, which is why nothing is lost although the
pointer is not valid any more.  `SoleLoopSeesEverything` speaks of the end of a
loop only and needs `SoleLoopIsInStep` for its whole course.

### ConnectionProofs

For any nodes, hosts, buffers and timeouts; the assumptions say only that
`HostOf` maps nodes to hosts and that a message has a buffer and its buffers are
not empty.  `OnlyThePersistentIsLeft` says that every stream but the one in PHP's
list has been freed.  `LastTryHasItsStream` and `CrashHasACause` give
`OnlyOthersTakeTheStream`.  `CallHasItsStream` says that nothing takes the stream
of a call away before it is over: a call in progress excludes `Initiate`, which
needs the script; this is where the theorem would fail if two calls could
overlap.  `WrittenInOrder` is the invariant of the loop of `writev`: as long as
the sum of what was sent is the offset of the next buffer, everything before it
was written; after one short write the sum stays behind for good, so it can
reach the length of the message only if no write was short.  `HoldsOnlyTheCall`
says what is in a stream on which no call ended early, and `RepliesStayInStep`
is its consequence when a reply is read.  `TimeoutsAreAsked` says of every stream
what `WaitsAsLastAsked` says of the one that is read from; the seconds and
microseconds that the timeout is taken apart into are proved to add up for every
number of milliseconds.

### WriteExecutionProofs

For any batches, kinds of documents and servers.  What is told to the script is
a matter of one step, so the invariant of `last` is mostly the properties
themselves; they are proved from what `MongocExecute` may answer.  Two of them
need more.  `OnlyAHintLeadsAstray` needs `HintsCameThrough`: the hint of a batch
is that of a Server it was executed through.  `RetryStoresOnce` needs
`InsertsKeepTheirIds` and `IdsAreStoredOnce`, that the `_id` is chosen when the
document is added and kept over executions, and `CopiesAreCounted`.

### QueriesProofs

For any arguments, any modifiers and any numbers, whatever these are cut to; the
assumptions are that the width is positive, that numbers are integers and that
the keys of the modifiers are those of a hash table: in an order, and distinct.
The work is in the stages of `phongo_query_init`.  `IsPartial` is what every
stage before the last keeps, and there is one lemma per stage.
`AddAssocFacts` is the lemma about the document: with distinct keys, which the
modifiers have and `AddAssoc` preserves, an entry that is replaced leaves no
second entry with its key, so nothing of a `$query` or an `$orderby` among the
modifiers remains.  That is also why `IsPartial` includes the distinct keys.
`PhongoQueryInitFacts` joins the stages.  The theorems are about `QueriesSpec`,
which `Documents` implements (`ScriptConstructsQueries`).

### DocumentsProofs

For any number of nodes with any entries, any documents that are BSON, and
whatever integer keys are cut to; the assumptions are that a script's nodes are
arrays and objects, that its keys and leaves are those of PHP and that what is
received is BSON.  There is no bound on sizes or depth: the recursion of the
code is a stack, so that what holds of values of any depth is an invariant of
the steps and needs no induction over data.

The encoder.  `FramesNest` describes the stack: each call writes the document of
the element its caller has written, for the node of that element's entry.
`EveryElementShows` and `EntriesInOrder` say of what is written that it is right,
and `NothingLeftOut` that everything before the place each call has got to is
there.  At the end, with no call left, they are `LeavesKeepTheirPaths`; the two
properties about names follow from it by arithmetic on `Wrap`.
`AppliedMeansOpen` ties the counters to the stack, without which a list could be
cut that is not in itself.  For `EncodesUnlessEndless`: each list is on the
stack once, but for the first call, so of (n + 1)^2 calls for n nodes
two are for the same node with no list between them, and the nodes from the one
to the other are a cycle.
Conversely a node of such a cycle is never cut, so
each of them that is written has another written within it, and there is no
last one.

The decoder.  `ItersNest` describes its stack, `MadeOnce` that each element has a
node of its own, `PlacedRight` that what is placed stands at the key and with the
value of its element, in order, and that nothing else is there, and
`VisitedIsPlaced` that what was visited is placed, unless its own document is
still open.  The last two hold of documents with distinct names only: a second
element of a name takes the place of the first.

`EncodingUndoesDecoding` joins the two.  The nodes that are decoded refer to each
other as the elements contain each other (`MadeRefers`), upwards in the
document, so there is no cycle (`DecodedIsNotEndless`).  `Finds` relates an
element that is encoded again to the one its entry was decoded from; that
it is a bijection is shown by `LeastNatural`: an element that is not found, or
found twice, is in a document that is not, and a first one cannot be.

### DriverProofs

For any finite set of handles and any bounds; that the set is finite is what
lets a request end.  `ClassIsKnown` and `OutcomeIsKnown` collect, once for each
of the 29 classes and 10 constructors, what the rest needs of them: who has a
client, who releases it, and that a constructor that throws leaves no client.
The invariant is `HeapIsSound`, of a script that runs, and `CrashIsExplained`.
`OwnersKeepTheirClients` (a Manager or a Server has the client it made, and that
is live) is inductive only together with `OwnersAreAlone` (no two have the same
client): otherwise dropping one could destroy the client of the other.  With
both, no `free_object` finds its client destroyed, and so `ReleaseIsSafe`.  For
the end of the request the same is shown by induction over the objects released
so far, for every order: `SafelyLeft` says that the owners still to come have
clients that are not destroyed.  `ManagersAreKept` and `OwnersAreAlone` give
`EachClientHasItsManager`.  `ObjectsAreShaped` says which fields an object can
lack, given how it was made, from which `NullIsExplained` follows.

### What the proofs found about the model

* A `CASE` of `MongocExecute` had arms that overlap, which TLA+ leaves open and
  TLC resolves by taking the first; it is now an `IF` that says the same.
* Type invariants that only tested fields allowed a state to be no record; they
  now say to which set of records each variable belongs.
* The codec was a set of recursive operators, about which nothing can be proved;
  it is now the two stacks of `Encoder` and `Decoder`, which are closer to the
  code.
* `ArraysAscend` is false for a list of more than `Wrap` entries, whose last
  numbers are cut.  No run would have shown it; the property now says so.

### Only model-checked

* `CallReturns`, `LoopsEnd` and `CallsEnd`: liveness under fairness is out of
  the prover's reach.
* `CorruptionIsLocal`.  `EncodingUndoesDecoding` is about documents that are
  read to the end; the invariants of the decoder would have to say what a
  corrupt element has taken along.

The six runs that show a violation are of TLC's only, as there is nothing to
prove.  The prover has no induction over data, and none over recursive
operators.  Induction over natural numbers is possible, and used for the
recursive functions of `Connection` and `Driver` and for what is found in a
document, through `LeastNatural`: what fails for some number fails for a least
one.

## Plan

What is left is a refinement for `ResultIteration`, an abstract cursor that
hands each document to one loop, with the proof that results implement it; and
a proof of `CorruptionIsLocal`.

## Not modelled

* `unserialize`, which makes an object without its constructor, as a subclass
  does in `NewOverridden`;
* reads through an outdated `firstBatch` in `getResponseDocument` after a loop:
  the pointer is modelled in `ResultIteration`, where loops read it;
* the counts of the references to the arguments of a query.  The code loses one
  of the filter (line 866) and one of the sort (line 862) in every call, and one
  of modifiers or a projection that it has to convert (line 834); nothing says
  how many it may lose;
* upserts and the identifiers they return;
* names with a zero byte, and everything about a scalar but its place;
* the accessors of `php_array.h` that the driver does not use, and the numeric
  modes of `ReadPreference` and `WriteConcern`, which are translated and passed
  on;
* logging.  `php_phongo_log` throws a RuntimeException for an error or a critical
  message of libmongoc (lines 153-156), in the middle of whatever called it, and
  prints the other levels; which messages there are is a matter of libmongoc;
* methods that are generated stubs, `phpinfo`, INI entries, and the
  table from error domains to exception classes: output, registration and
  constants without behaviour.
