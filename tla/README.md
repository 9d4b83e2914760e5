# Formal model of the Apache Pinot ODBC driver

TLA+ modules, TLC configurations and TLAPS proofs for the driver under `src/src`.
Paths below are relative to `src/src` unless they say otherwise.

## 1. The system

The driver is a shared library an application calls through the ODBC API. Every
call names a handle, an address of a C++ object, and runs to its end on the
caller's thread. The driver talks HTTP to a Pinot broker (queries, health) and to a
controller (catalog).

| Component | Source | State it keeps | Operations | What must hold |
|---|---|---|---|---|
| Handle tree | `handles.h`, `odbc_handles.cpp` 27-136 | live objects, parent pointers, containers of children | allocate, free, drop | containers and parent pointers agree; a free takes the descendants and nothing else |
| Connection | `odbc_connect.cpp`, `config.cpp` | `connected`, `cfg`, `client`, `loginTimeout` | connect, disconnect, attributes | a client exactly while open; live statements have one; a failed connect leaves none |
| Statement | `odbc_stmt.cpp`, `odbc_handles.cpp`, `api_helpers.cpp` | text, result set, cursor, bindings, parameters, chunk offsets, row limit, diagnostics | prepare, execute, fetch, SQLGetData, bind, close, attributes | the cursor and the offsets belong to the result and row at hand; failures keep or close the old result; diagnostics agree with the return code |
| Conversion | `convert.cpp` | none (the offset of a column is the statement's) | `convertCell`, `copyChunked` | chunks join without gap or repetition; lengths are of the rest; nothing beyond the buffer |
| Catalog functions | `odbc_catalog.cpp` | none | SQLTables, SQLColumns, SQLPrimaryKeys and static results | result installed whole or not at all |
| Client | `pinot_client.cpp` | a curl handle, its mutex, a copy of the Config | query, health, tables, schema | one request at a time; every failure is a SQLSTATE |
| SQL text | `api_helpers.cpp` | none | marker scan, substitution, LIKE, timestamps | both scans agree; no marker left |
| Configuration | `config.cpp` | `Config` | parse, merge DSN, echo | aliases and defaults; round trip |
| Wide entry points | `odbc_unicode.cpp`, `unicode_conv.cpp` | none | transcode and forward | lengths in the right units |
| Diagnostics | `diag.h`, `odbc_handles.cpp` 382-494 | records of a handle | clear, add, read | describe the last call |
| Information tables | `odbc_connect.cpp` 146-441, `types.cpp` | constants | SQLGetInfo, SQLGetFunctions, type metadata | - |

Interactions. A statement reaches its connection's client and configuration
through `stmt->dbc`; a connection frees its statements; the client is shared by
all statements of a connection and serialises their requests with a mutex.
Conversion reads and writes the statement's offsets. The catalog functions and
`executeStatement` replace the statement's result.

What is hard: the statement's result state is spread over five fields that ten
functions touch; a fetch converts several bindings that fail separately; SQLGetData
keeps a position per column across calls; a query can fail before or after the old
result has been given up; containers hold raw pointers; frees do not take the locks
that allocations take, and the test of a handle precedes its lock; one curl handle
serves requests of two kinds in turn; SQLColumns asks a controller whose tables change
several times; texts are scanned, quoted and transcoded in loops that look ahead;
integers go through doubles and narrower types. `PROJECT.json` lists these hazards line
by line with the property that covers each, or the reason why none does.

## 2. Modules

| Module | Models | EXTENDS / INSTANCE |
|---|---|---|
| `Convert` | `convertCell` and what it calls, as operators without state: return code, diagnostic, indicator, bytes copied, offset left | |
| `Statement` | one statement handle and every entry point that reads or changes it | `Convert`; INSTANCE `Cursor` |
| `Cursor` | abstract: what a forward-only cursor promises | |
| `Drain` | an application that fetches all rows and reads all columns in chunks | `Statement` |
| `Handles` | the handle tree and the life of connections | |
| `HandleThreads` | the same calls as the steps of concurrent threads, with the mutexes | INSTANCE `Handles` |
| `Catalog` | statements of one connection that share the client, catalog functions, a controller that changes | |
| `Like` | `likeMatch` | |
| `SqlText` | the scan for parameter markers and their replacement | |
| `ConnString` | the text of a connection string, written and parsed | |
| `Config`, `ConfigKeys` | its keys: DSN profile, aliases, defaults, endpoints, echo | |
| `WideText` | transcoding, text out through two buffers, wide arguments | |
| `Texts` | the five above as one specification | INSTANCE of each |
| `Numbers` | a cell becomes an integer of some width | |
| `Timestamps` | a cell becomes a timestamp, and that a literal | |
| `MCStatement`, `MCDrain`, `MCHandles`, `MCHandleThreads`, `MCCatalog`, `MCTexts`, `MCValues` | instances for TLC; `MCValues` composes `Numbers` and `Timestamps` | |
| `StatementProofs` | theorems about `Convert` and `Statement`, and that it implements `Cursor` | `Statement`, `TLAPS` |
| `DrainProofs` | theorems about `Drain` | `Drain`, `StatementProofs` |
| `HandlesProofs`, `HandleThreadsProofs`, `CatalogProofs` | theorems | the module and `TLAPS` |
| `Induction` | lemmas: induction over a set of numbers, recursive functions follow their rules | `TLAPS` |
| `ValuesProofs` | theorems about `Numbers` and `Timestamps` | both, `Induction` |
| `TextsProofs` | theorems about `Texts`, a section for each of its five parts | `Texts`, `Induction` |

### Convert and Statement

A cell is abstracted to the lengths of its renderings (characters, bytes when
hexadecimal, and what a conversion to a number makes of it); text is one byte per
character. C types are the three chunked ones, one that stands for all
fixed-length ones, the default, and an unknown one. A buffer is a pointer given or
not, a length and an indicator given or not.

One action of `Statement` is one call: a handler holds the statement's mutex from
its first change to its return. State variables carry the names of `PinotStmt`'s
fields; `getDataOffsets` is total, as `copyChunked` treats an absent entry and 0
alike. `diag` and `ret` are the records and the outcome of the last call. `got`
and `filled` are the application's side: what SQLGetData has delivered of each
column of the row, and which bound buffers hold the row. Nothing in the driver
reads them; they state what "delivered" means without referring to the driver's
own bookkeeping. The broker's and the controller's answers, and the application's
parameter memory, are inputs chosen with `\E`; an indicator may hold a negative number
that is no special value, which makes a text too long to exist (`std::length_error`, reported
as HY000 before the old result is given up). `ret.queried` says whether the call has sent a
query, as the SQLSTATE does not: HY000 is also what an exception in the answer becomes.

The order of the code is kept where it shows: parameters are substituted before the
old result is given up (`ExecuteStatement`), a NULL is marked consumed before the
indicator is looked at (`ConvertNull`), the indicator is written before the buffer
is examined (`CopyChunked`).

### Handles

Sets of live environments, connections and statements, the parent pointers, the
containers, and the connection's `connected`, `cfg`, `client`, `loginTimeout`.
`client` is the client's own copy of the Config. An address freed may be allocated
again. One action is one call, not interleaved with others; the application
passes live handles, of the right kind or not, or null. `StatementsHaveClient`
is what lets `Statement` leave out "08003".

### HandleThreads

`Handles` has a call as one step; here SQLAllocHandle, SQLConnect, SQLDisconnect,
SQLFreeHandle and a statement's request are the steps their code consists of: the test
of the magic number (`Enter`), the `lock_guard` (`Lock`, `Unlock`; `Locked` names the
functions that have one, and the frees have none), the body. An insertion into or an
erasure from a `std::set` is two steps, reading it and writing it back, so that two at a
time lose one, as they may in C++. A request holds the statement's mutex and then the
client's (`Ask`, `Answer`).

Nothing in the driver keeps a handle alive under a call: that is the application's duty,
and `Permitted` states it. Nobody starts a call on a handle that some running call may
be ending, and no call that may end a handle's life starts while the handle is in use;
with `FreesAlone` it also keeps frees apart from other changes of the container they erase
from. The second is an assumption that neither the code nor a document of the repository
justifies: `SQLFreeHandle` erases without a lock, and nothing tells the application so. What
the run and the theorems show is therefore for the concurrency of allocations, connects,
disconnects and requests on any handles, and for frees beside calls elsewhere in the tree;
section 5 has what happens otherwise. `Linearizable` says that the steps implement
`Handles!Spec`: each call takes effect at one of its steps. The refinement mapping
hides what is under way (a new object before its insertion, a freed one after its
erasure, the statements a disconnect is about to delete).

### Catalog

`call` is what each statement is doing, `curl` the options on the client's handle, `busy`
its mutex, `db` the controller's tables, which others create, alter and drop between any
two requests. SQLColumns lists the tables and asks for one schema after another; any
request may fail. `during` is history: what each table has been since the call began.
`FieldsAssumption`: the controller accepts no schema that has a field twice.

### Texts: Like, SqlText, ConnString, Config, WideText

Each is the loop of the code, a turn per step, over characters chosen to be told apart
by it; its reference is what the text means: the meaning of a pattern by recursion on
it, a lexer that reads one character after the other without looking ahead, the keys and
values a string was made of. `Config` has the keys without their characters and
connects twice, the second time with the string the first echoed; `ConnString!RoundTrip`
is what lets it do so. `WideText` has a character for each length in UTF-8, so that
conversions can cut one and surrogates can stand alone; the wide functions differ only
in their shape (through a buffer of their own or not, in characters or in bytes, an
argument), which `fn` names. `Config` has every key the code reads, with all its names; a
value is empty, a string, or for the endpoints a host, a host with a port, or a URL. The five
share no state: a behaviour of `Texts` is a call
of one of them.

### Numbers and Timestamps

`Numbers` has `integerFromCell` and the writers of all integer types. Widths, the
precision of a double and the limit of 9.3e18 are parameters, numbers are counted in
halves, so that at a width of 5 bits every boundary of the code is met by every value.
Casts wrap (`Wrapped`), the undefined cast of a double out of range gives one of the
values compilers produce. `Timestamps` has the division of negative milliseconds, the
reading of fractions digit by digit, `SQLSMALLINT` years, and the way back through a
parameter's literal. The calendar is the C library's and a parameter.

## 3. Runs

| Run | Module, cfg | Shows |
|---|---|---|
| `read` | MCStatement, MCRead | `OffsetsMatch`, `ChunksReassemble`, `NoDataIffConsumed`, `LengthIsWhatRemains`: chunked reads of text, wide and binary cells, NULLs, short rows and numbers, in any C type and buffer, mixed with every other call |
| `execute` | MCStatement, MCExecute | `TypeOK`, `ClosedIsClean`, `FailureKeepsOrCloses`, `RowLimitHonoured`: texts with none or two markers, parameters that fail in each way |
| `fetch` | MCStatement, MCFetch | `CursorInRange`, `DiagMatchesReturn`, `FetchConvertsEveryBinding`, and `ImplementsCursor`, the refinement of `Cursor` |
| `drain` | MCDrain, MCDrain | `RowRead`, `Terminates` (liveness) |
| `handles` | MCHandles, MCHandles | the tree invariants, what a call may free, what a failure may change, the login timeout |
| `threads` | MCHandleThreads, MCThreads | `NoDeadAccess`, `Linearizable` (refinement of `Handles`), `CallsReturn` (liveness): no order of the steps of two threads breaks the tree, if the application keeps frees apart (`FreesAlone`) |
| `catalog` | MCCatalog, MCCatalog | `PerformsOwnRequest`, `ColumnsWereThere`, `FailureKeepsRows`: requests do not mix, rows are those of some moment, failures keep the result |
| `texts` | MCTexts, MCTexts | `AnswersMeaning`, `MarkersInTheOpen`, `LiteralsStand`, `RoundTrip`, `EchoReconnects`, `StaysInBuffer`, `LossIsTold`, `ArgumentArrives`, `Returns` (liveness): the functions on text do what their texts mean, and end |
| `values` | MCValues, MCValues | `NumbersExact`, `MomentKept`, `LiteralNamesMoment`: numbers and moments arrive as they are, are refused, or their loss is told of |
| `fixed_twice` | MCStatement, MCFixedTwice | expected violation: finding 1 |
| `null_no_indicator` | MCStatement, MCNullNoIndicator | expected violation: finding 2 |
| `unsigned` | MCValues, MCUnsigned | expected violation: finding 3 |

Each property of a passing run has a mutant in `PROJECT.json`: a plausible slip in
one definition that makes TLC report it.

Bounds. Two columns let one be read while the other waits and let a binding outlive
the column it names; two rows let offsets and cursors be carried over. Values of 3 to
8 bytes and buffers of 0 to 6 give no chunk, one and several, odd
remainders of wide units included; `MaxOffset` stops reads of a column beyond
that offset. `SizeMax` is the modulus of `size_t`, far above any length. Two
parameters fail independently; where they are about, results have one column. `RowLimits` 0 and 1 meet results of 0, 1 and 2 rows.
For the tree two of each kind have siblings and reuse; handles of a kind are
interchangeable, so symmetry is sound (the run checks safety only). Timeouts 0, 5
and the default 3 meet login timeouts 0 and 2.

Two threads, two connections and two statements let a thread free, connect or disconnect
beside another that allocates in the same container or asks through the same client; the
locks nest at most two deep (statement, client), so that a cycle would need no third.
`Room` starts an allocation only if an address will be left for it. For the catalog two
tables let one change while the other is asked for, and two schemas share fields at
different places; one statement browses while the other queries, so that both kinds of
requests follow each other on the handle. Texts have up to 4 characters
(patterns, wide text), 5 (SQL) or 3 (names, values of connection strings): enough for a comment or a string to
open, close and open again, for a pattern to go back twice, and for a brace inside a
value. For every option of a connection all names it goes by meet, absent, empty and with a
value each, in the string and in the profile; options that nothing relates are tried one at a
time. The wide functions' own buffers have 8 bytes, so that they end inside two
characters; the application's go to 12. A `SQLSMALLINT` has 6 bits there. `Numbers` has
5 bits for long long and an exact double up to 4, then every second and every fourth
number. Moments lie within two milliseconds of seconds, minutes, hours, days on
both sides of 1970; fractions have up to ten digits, one more than are read.

Fairness. `drain` assumes weak fairness of the application's program, that is, that it
makes its next call. The driver never blocks it for ever: requests end by their timeout
(`CURLOPT_TIMEOUT` is always set) and everything else is in memory. Its buffers have
room for at least one unit beside the terminator (`DrainAssumption`); with less the loop of
the code does not progress. `threads` assumes weak fairness of each thread inside the driver: it runs on,
gets a mutex that stays free, and every answer or timeout arrives. `CallsReturn` is
conditional on the application to stop calling, as a mutex may be taken by
others for ever. `texts` assumes that a function that has been called runs on.
Deadlock is not checked where the modelled program ends: `drain`, `texts`, `values`.

## 4. Proofs

All theorems hold for every value of the constants under the modules' ASSUMEs.

`StatementProofs` begins with `Convert`: `copyChunked` never writes beyond the buffer,
terminator included (`CopyStaysInBuffer`); a chunk begins at the stored offset and leaves
the offset at its end, or the mark (`ChunkContinues`). The inductive invariant of
`Statement` is

    IInv == TypeOK /\ ClosedIsClean /\ CursorInRange /\ OffsetsMatch

`ChunksReassemble` is not inductive: it says what the application has, not what
offset the driver keeps, so that a stale offset would satisfy it until the next
read. `OffsetsMatch` adds the link: a column unread has offset 0, a column read with
one C type has the number of bytes received, or the mark exactly when complete. Every
step is first classified by what it does to the result (keeps it, closes it,
installs one, moves to the end, moves to a row, reads a column), with one lemma per action;
the invariant is then proved once per class. From it follow `ChunksAreWhole`,
`NoDataAfterTheLastChunk` and `LengthsAreOfTheRest`: an unread or
partly read column is never reported consumed, and the length reported is a difference
that does not wrap.

For the returns each call is classified by the function it names in `ret`,
with what it may do to the result and what it leaves in `diag`. The return code
of a fetch is the worst over the conversions of its bound columns
(`ReturnsAgree`, `EveryBindingIsConverted`). `StatementIsACursor` is the refinement: `Invariance`
supplies the range of the cursor, and each class of step is one
of `Cursor!Next` or leaves its variables alone. `FailuresKeepOrClose` (a call that fails before
a query is sent keeps the result, one whose query fails closes it) and
`RowLimitIsHonoured` follow from the same classes.

`DrainProofs`: every step of the application is a call of `Statement` or none
(`ProgramMakesCalls`), so that `Invariance` holds of it too. `RowsAreRead` then needs what
the program knows (`DrainInv`): where it is, and that every column it has left behind is
whole. `DrainAssumption`: it reads in chunks, with a pointer, an indicator, and room for a
unit beside the terminator; with a smaller buffer no chunk would ever bring anything.

`HandlesProofs`: the four invariants are inductive together. The frees meet in one
lemma (`DestroyOK`): destroying a set of live connections keeps the tree if the
remaining environments' containers lose just these. That the set is of live
connections is `HandleTree` itself: a stale pointer would break it. The three action
properties are proved from the same invariant.

`HandleThreadsProofs`: `NoDeadAccess`, `Linearizable` and the types have the hypothesis
`FreesAlone`, an assumption about the application (section 2). The
inductive invariant speaks of states in the middle of calls:

    IInv == Typed /\ Shapes /\ Alive /\ Held /\ Apart /\ Tree /\ Views /\ Open

`Shapes` says which function can be at which step, `Alive` that the handle of a call, its
parent and a new child live, `Held` who has the mutex. `Apart` is what has become of
the application's duty: `Permitted` is tested when a call begins, `Apart` holds for
as long as both calls run, since what a call may end only shrinks. `Tree` is `HandleTree` up
to what is being inserted, erased or dropped; `Views` says that what a call has read of a
container is still what is there, so that writing it back loses nothing; `Open` ties
statements and clients to open connections. `NothingDeadIsTouched` follows. For `CallsAreLinearizable` the containers under
the mapping are first shown to list exactly what lives (`ContainersList`); then each
step is hidden (`AsideIsHidden`, `AllocIsHidden`, `DropIsHidden`) or is one call
of `Handles`: insertion, the broker's answer to a connect, the start of a disconnect, the
destruction of a freed handle, a refusal.

`CatalogProofs`: `TypeOK` includes that every request has a timeout;
`RequestsDoNotMix` holds because the options are set and the request is performed under
one hold of the mutex. For `ColumnsAreOfTheCall` the invariant says what SQLColumns
has collected so far (`SoFar`): for each table already asked for, columns that `during` has, and
that `during` misses no state of a table while the call runs (`Watched`).

`Induction`: the library's induction theorems take a predicate, which the provers do not
instantiate; `SetInduction` takes the set of the numbers that have the property. From it,
a rule that looks only at arguments of lower rank has a function that follows it
(`Recursion`), and so has a rule for each number and what precedes it (`Chain`). A
recursive function of a module is thereby shown to follow its own rule, which is what a
proof about it starts from.

`ValuesProofs`: for every choice of widths, precision and limit, what is read is a long
long and what is stored is of its type, and `NumbersExact`. The invariant relates `v` to
the cell once it has been read; the lemmas are about `Trunc`, `Wrapped`, division, and
that rounding ends (`NearestIs`). `NumbersAssumption` says that the limit is beyond the
range of long long, as 9.3e18 is. The fields of every struct of `Timestamps` are in their
ranges, for any number of digits, and `MomentKept`, by the arithmetic of division towards
zero: the borrowed second makes `Seconds` the floor and `Rest` the remainder.
`LiteralIsMoment` follows the digits: after k of them the value read is what they say,
nine digits of it at most, and the three the literal writes are the first three.
`TimestampsAssumption` says that the calendar gives dates.

`TextsProofs`: each part of `Texts` has an invariant that its turns keep and the other
parts leave alone. The argument is the same in all of them: the loop has got as far as some
place, and what it has there is what the reference, a recursive function, has there.

- `ReconnectsWithEcho` (`Reconnecting`): a connection made with the echo of a `Config` uses what
  the first one did, option by option: what the echo names by the first name of an option is
  read again whatever its other names are in the profile (`TextComesBack`, `FlagComesBack`);
  the controller, whose own host and port win over its endpoint, comes back in one key
  (`PlacesAgain`). `ConfigAssumed` says that strings and profiles are texts for known keys
  which can be echoed at all (`WellFormed`).
- `LikeAnswers` (`LikeInv`, `Progress`): the pattern matches the name exactly if what follows
  the last `%` met matches from some place not yet given up. No earlier `%` need be tried
  again: whatever it would take more, the last one can take instead.
- `MarkersFound` (`ScanInv`): the region of the scan against the state of the lexer (`AtRegion`),
  which differ where the scan looks ahead: after a doubled quote, at the two characters that
  open a comment, and at an unfinished comment's last one.
- `LiteralsInPlace` (`SubstInv`): the result so far ends in the state in which the lexer is
  before the same place of the text, but that a string just closed and plain text may stand for
  each other (`Aligned`, `Same`), and each literal so far is from one open place to another and
  is not joined to a string beside it (`Placed`). A literal is read from its first
  character to its last whatever it contains: a value because `escapeSqlString` doubles its
  quotes, a number by `LiteralsAssumed`: it has neither quotes nor the other characters
  that open something, and a minus in it stands before something that is no minus. `Apart` is
  what keeps text from joining it.
- `StringReturns` (`ConnInv`): what has been parsed are the values of the keys before this
  place, and this place is where the next key was written; for values that survive, and distinct
  keys without separators in them (`StringsAssumed`).
- `CopiesStay`, `LossesTold`, `ArgumentsArrive` (`WideInv`): cutting a text in bytes and
  cutting it in units leave a prefix of its characters, and their lengths; the buffers have
  room for the terminator (`WideAssumption`).

Every safety invariant and action property of the passing runs is stated by a theorem. The
three liveness properties, `Terminates`, `CallsReturn` and `Returns`, are model-checked only:
progress under fairness and ENABLED are out of the prover's reach. No module has RECURSIVE
operators.

## 5. Findings

1. A fixed-length C type read twice with SQLGetData is delivered twice
   (`convert.cpp` 262 onwards keeps no offset), while `convert.h` 25-27 promises SQL_NO_DATA
   once a column is consumed.
2. A NULL read without an indicator fails with 22002, but the column is already marked
   (`convert.cpp` 230): a second call with an indicator gets SQL_NO_DATA and never
   learns of the NULL, while `handles.h` 100 gives the mark the meaning "fully consumed".

3. A JSON integer of 2^63 or more is delivered as a negative number with SQL_SUCCESS:
   `is_number_integer()` holds of unsigned numbers too, so the test that would refuse it
   (`convert.cpp` 82) is never reached and `get<long long>()` wraps (78), while
   `src/README.md` 24 says "integers with range checking".

Preconditions in the properties mark where the code departs from what they say. Each of
these is a counterexample TLC gives when the precondition is dropped:

- `Limit` (`convert.cpp` 90): a double between 2^63 and 9.3e18 passes and is cast,
  which is undefined. `RangeChecked` with `Kinds = {"float"}`.
- `Apart` (`api_helpers.cpp` 366): a marker after a minus that is given a negative number
  becomes the beginning of a comment, as nothing is put around a literal.
- `FreesAlone` (`odbc_handles.cpp` 99): the parent's container is erased from without the
  lock that allocations take. With FALSE two threads that free one connection of an environment
  and allocate another, as a pool does (`src/docs/nodejs.md` 48), lose each other's change, and
  TLC reports `Linearizable`. No document forbids such an application or promises it anything,
  so that this stays a hazard no property covers rather than a run of its own.
- `Survives` (`config.cpp` 64, 260): a value that begins with a brace, ends in a space, or
  has a semicolon and a closing brace is not read back.
- `Echoable` (`config.cpp` 255-288): the echo leaves out STRINGCOLUMNSIZE, and SCHEME or
  PROTOCOL beside a URL, although `config.h` 80 calls it canonical; a profile's HOST wins over a
  SERVER in the string (146).
- `FitsInside` (`odbc_unicode.cpp` 135): a text longer than the wide function's own buffer
  is cut twice, and the length of the first piece is reported as the full one.
- the length in `ArgumentArrives` (`odbc_unicode.cpp` 41): a wide argument of 32768 bytes
  or more in UTF-8 arrives cut off or empty.

In the same way outside of what the properties say: a handle freed while a call on it runs
(`handles.h` 126), which `Permitted` has no application do.

Also, with BROKER given as a URL the controller is looked for on localhost
(`config.cpp` 212), while `src/README.md` 205 gives "broker host, port 9000" as the default.

## 6. Not modelled

The digits of rendered numbers, SQL_C_FLOAT and SQL_C_DOUBLE, the cutting of a timestamp to
a date or a time, hexadecimal text; the constant columns of catalog rows; HTTP headers,
Base64 and the JSON of a query; SQLGetInfo, SQLGetFunctions and the sizes of types, which
are tables; the header fields of diagnostics; cursor names, `odbcVersion`, `autocommit`,
which nothing else depends on. The Power BI connector, tests, examples and the vendored
JSON library are not part of the driver.

Three hazards are out of a model's reach: SQL_DROP unlocks a mutex it has deleted, which has
no meaning in C++; `curl_easy_escape` outside the client's mutex does harm or not
depending on the version of curl; a JSON exception in a schema that is no object leaves the
driver through a C function. The readers of diagnostics take no lock: a model of them
would have to say what reading a vector during its change gives.

Columns read with several C types are in the model and covered by `TypeOK` and
`CursorInRange`; the chunk properties speak of one type per column and row, as
neither code nor documents say what the mixture should mean.

## 7. Plan

1. The header fields of diagnostics over the records of `Statement`.
2. The digits of rendered numbers, so that `LiteralsAssumed` is shown of
   `renderParameter` rather than assumed.
