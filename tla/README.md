# A TLA+ model of mydb

mydb (`src/mydb/`) is a relational database in one C++ process: a paged file, an
on-disk B+tree, a catalog kept in such a tree, tables with constraints, a SQL
subset, a single-threaded HTTP server and a small web app. The modules here
model how its state changes and what its texts and bytes mean, TLC checks them on
small instances, and TLAPS proves the main properties of seven parts for every
value of the constants.

## The system

| component | code | state | operations |
|---|---|---|---|
| pager | `pager.h` | the file; the header in memory (`hdr_`) | open or create, `read_page`, `write_page`, `allocate_page`, `free_page`, `set_catalog_root`, `next_table_id` |
| b-tree | `btree.h` | `root_page_id_`; its pages in the file | `create_empty`, `insert`, `find`, `update`, `remove`, `scan` |
| catalog | `catalog.h` | `by_name_`; the catalog tree and its root | load, `create_table`, `drop_table`, `save`, `sync_root` |
| table | `table.h` | a copy of one definition and its tree's root | `insert_row`, `update_row`, `delete_row`, `get_row`, `scan`, `check_constraints`, `persist` |
| row codec | `row.h` | none | `encode_row`, `decode_row`, `values_equal`, `compare_values` |
| executor | `sql_executor.h` | none of its own | one function per statement, `eval_expr` |
| parser, lexer | `sql_parser.h`, `sql_lexer.h` | none across calls | text to statement |
| JSON | `json.h` | none | text to value and back |
| HTTP server | `http.h` | the connection being served | accept, read, dispatch, answer, close |
| REST API | `server_main.cpp` | none of its own | a handler per route |
| web app | `web/app.js` | `schema`, `activeTable`, the page shown | handlers around `fetch` |

A request goes from the HTTP server through a REST handler to a statement of
the executor, or straight to a row of a `Table`; that calls its b-tree and, in
`persist`, the catalog, whose own b-tree and the table's share one pager. All
of it is one thread that runs one request to its end, so there is no
interleaving inside the process. What is hard is elsewhere:

- **Crashes.** There is no journal. `write_page` flushes before it returns, so
  the file after a crash holds a prefix of the page writes; every operation of
  several writes can be cut between any two of them.
- **Copies of state.** The catalog root is in the header on disk, in the header
  in memory and in the catalog's tree; a definition is in the tree, in
  `by_name_` and in a `Table`. Root splits must reach all of them.
- **Statements that fail half-way.** There are no transactions: INSERT and
  UPDATE check and write one row after another, and an error keeps what was
  written.
- **Answers.** The window and the server talk over connections that break off,
  and a handler of the window runs on after an await on a page that may have
  changed.
- **Limits.** Splits at the size of a page, ids that are counters, separators
  that outlive their keys because nothing is merged.
- **Forms.** Every value is written and read again several times on its way: as
  characters of SQL, as tokens, as JSON, as segments of a path, as bytes of a
  slot. Each pair of writer and reader agrees on most values only.

What makes each component correct: the pager never hands out a page twice and
never touches one in use; the b-tree is a map; the catalog in memory is the one
in the file; the rows of a table satisfy its constraints after every row
written; a crash costs no more than the operation it interrupts; a request is
handled whole and answered; the window shows what the server has; a SELECT
answers with the rows it means; and what is written in some form is read back as
it was meant.
`PROJECT.json` lists each hazard at its line with the property that covers it.

## The modules

| module | models | built on |
|---|---|---|
| `PageFile` | contents of pages, the arithmetic of allocation | |
| `Pager` | the allocator, one action per page write, with crashes | `PageFile` |
| `PagerProofs` | the pager's theorems | `Pager` |
| `BTreePages` | the b-tree's algorithms as operators on pages and header | `PageFile` |
| `Dict` | abstract: a map and the answers of its operations | |
| `BTree` | one tree, each operation one action; implements `Dict` | `BTreePages` |
| `BTreeLemmas` | what the operators of `BTreePages` return, the shape of a tree, what a split does to it, and what each operation leaves of any tree of that shape, whatever else is in the file | `BTreePages` |
| `BTreeProofs` | the b-tree's theorems | `BTree`, `BTreeLemmas` |
| `Store` | abstract: tables, rows, row ids | |
| `Engine` | catalog and table operations as sequences of page writes, with crashes and restarts; implements `Store` when none falls inside an operation | `BTreePages` |
| `EngineProofs` | the engine's theorems | `Engine`, `BTreeLemmas` |
| `Relational` | statements and constraints at the grain of rows; uses nothing but `Store` | |
| `RelationalProofs` | the theorems about constraints and the use of `Store` | `Relational` |
| `Values` | values, `values_equal`, `compare_values` | |
| `Query` | expressions, literals, SELECT, and what the other statements pick and write | `Values`, `SqlSyntax` |
| `QueryMeaning` | abstract: what a SELECT means, as a set of combinations of rows | `Query` |
| `Bytes` | strings behind a length, and slots | |
| `RowCodec`, `CatalogCodec` | rows and definitions as bytes, under the operations that store them | `Bytes` |
| `SqlSyntax` | expressions and literals as the parser makes them | |
| `Parsing` | results of parsers and how they follow one another | |
| `SqlLexer`, `SqlText` | the tokenizer, and the texts typed into it | `Parsing` |
| `SqlParser`, `SqlGrammar` | the parser over tokens, and the grammar written the other way round | `Parsing`, `SqlSyntax` |
| `JsonText`, `JsonWire` | JSON over characters, and rows on the way in both directions | `Parsing` |
| `HttpServer`, `HttpProofs` | connections, requests that arrive in pieces, clients that hang up; theorems | |
| `Routes` | the way of an address from `app.js` to a handler | |
| `Forms` | rows, definitions, addresses and tokens side by side, each with its property | `RowCodec`, `CatalogCodec`, `Routes`, `SqlText` |
| `FormatProofs` | the theorems about values, stored rows, stored definitions, addresses and tokens | `Values`, `Forms` |
| `WebApp`, `WebAppProofs` | one window of `app.js` and the handlers it calls; theorems | |
| `MC...` | values of the constants for TLC | |

`Pager` takes the b-trees as clients that write the pages they hold;
`BTreePages` computes, for an operation, the pages after it *and* the list of
its writes in the order of the code. `BTree` takes the result as a whole.
`Engine` puts the list in `todo` and performs it one `WriteNext` at a time, so
a crash can fall between any two. `Relational` stands on what `Store` promises:
a row operation is one step. The two meet in `Store`: `ImplementsStore` says that
`Engine` offers it, `UsesStore` that a step of `Relational` asks for one of its
operations or leaves it alone. `QueryMeaning` and `SqlGrammar` are specifications
of the same kind for functions: they say what the answer is without saying how it
is found.

### Correspondence with the code

- `Pager`. `file` is the file, `hdr` is `hdr_`. `Absent` is a page past the end
  of the file (reading it throws). `pc` says how far the process is: a freshly
  created file goes through `init_header` and `init_root`; an allocation stops
  at `alloc_flush` between the zero page and the header; a release at
  `free_flush`. A page on the free list is a `Link`; an all-zero page is a
  `Link` to 0, which is why a crash in the middle of `allocate_page` may lose the
  rest of the free list but never corrupts it. `free_page` has no caller in the
  program; it is modelled as the interface offers it, and `Engine` therefore
  only grows the file.
- `BTreePages`. Entries and separators are sequences. `ChildIndex`, `FindPath`,
  `InsertIntoLeaf`, `HalveLeaf`, `InsertIntoInternal`, `HalveInternal` and
  `GrowRoot` are the functions of `btree.h` with the same order of writes;
  `insert_recursive` is unwound along the path of the descent. The loops are
  recursive functions, one step for each iteration: `FirstOf` looks for a key from
  the left, as `find` and `update` do, `Without` is the `erase` of `remove`,
  `LeftmostPath` and `ChainFrom` are the two loops of `scan`. A blank page that a
  scan reaches is read as an empty last leaf, as `read_leaf_entries` does with
  zero bytes.
- `BTree`. `Here` is the file and the header as the operators take them, `ret`
  what the operation returned; `Map`, the pairs a scan passes, is the map of `Dict`.
- `Engine`. `by_name`, `cat_root` and `hdr` are what the process keeps;
  `Save` ignores, as the code does, whether the entry was found. An operation
  changes memory when it begins: nothing reads that memory before its last
  write, and a crash forgets it. `CreateTooLarge` is `create_table` when the
  definition does not fit a slot. `before`, `after`, `op` and `torn` are history
  variables of the properties.
- `Relational`. `stmt` is the statement being executed with the rows it still
  has to change; `UPDATE` and `DELETE` collect row ids first. `EndStmt` ends a
  statement at any row: all done, a failed check, a literal of the wrong type, a
  row too large, a crash. PATCH and DELETE of a single row are the statements
  that pick that row. `lost` is a history variable. Each column has a type, `Vals`
  are the values of a type, and `Zero` is what a value of another type has in its
  field: `Target` is what a reference is looked up as. `fk_column` is the place of
  the last column of the name, as the loop of `check_constraints` leaves it.
- `Values` and `Query`. A `Value` has all the fields of the C++ struct, the unused
  ones at their defaults, because `values_equal` reads them when types are mixed.
  A double is a count of `1/Unit`, a text its rank in the order of `std::string`;
  `ToDouble` is the cast, which is exact up to `Exact` (2^53) and monotone.
  `Error` is a thrown exception. AND and OR evaluate their right side only when
  the code does. UPDATE and DELETE go row by row: `ScanRow` is one row of the scan
  that evaluates WHERE and collects row ids, `UpdateRow` and `DeleteRow` one of
  the rows collected. An assignment may throw at any of them, and so may
  `update_row`, for a reason of `Relational`'s. `std::sort` may
  leave any of the orders that the comparison allows, so `Answers` is a set.
- `Bytes`, `RowCodec`, `CatalogCodec`. A length is written modulo `LenLimit`
  (2^16) and as many bytes follow. Only lengths and offsets are bytes here; a
  number in a row is a block of `NumberSize`, and in a definition a number, a page
  or a count is one unit. `DecodeDef` reads at offsets, as the code does, never by
  matching what the encoder made.
- `SqlLexer`, `SqlParser`. Each function of the code is an operator from a
  position to `Ok(node, next)` or `Fail`. A token is its type and its text; the
  value of a number is its digits. `TooLarge` are the runs of digits whose number
  exceeds an `int64_t`, on which `stoll` throws.
- `JsonText`, `JsonWire`. `Write` is `dump_to` and, with more escapes and more
  digits, the browser's `JSON.stringify`. `ValueAt` is `parse_value`, `NumberAt`
  takes the characters the code takes and then reads a beginning of them, as
  `stod` does. `HangUp` cuts a body at any character, as a broken connection does.
- `Routes`. An address is a sequence of tokens; `encodeURIComponent` makes a slash
  in a name one token, and `url_decode` makes it a slash again before `split_path`.
  `RouteList` has the eleven routes in the order they are registered. `fetch` takes
  segments "." and ".." out of an address before it is sent; tables of these names
  are left out.
  `SplitPath` goes through the characters as the loop does, with the pieces found
  (`out`) and the one begun (`cur`); the parameters are kept by their places in the
  pattern, where the code keeps them by the names written there.
- `HttpServer`. `client` is whose connection the thread serves, `backlog` the
  connections it has not accepted; a piece of a request that the code reads with
  one `recv` is one step. `Wanted` is what the loops of `read_request_raw` wait for.
  A body is one announced as `Content-Length:` or `content-length:`; the code looks
  for no other spelling and takes a body under another one for none. A length that
  is no number makes `std::stoul` throw outside the try block of
  `handle_connection`, and `LengthUnreadable` ends the process.

## What is checked

| run | instance | shows |
|---|---|---|
| `pager` | files of up to 6 pages, 3 table ids, any number of crashes | no page is handed out twice or overwritten under its owner, by one process or by one started after a crash; table ids do not return; a file once created opens |
| `btree` | leaves of 2 entries, nodes of 2 keys, 5 keys, 2 values | the tree is well formed and balanced, loses no page, and answers like `Dict` |
| `engine_serving` | 3 tables, one of 3 rows; orderly restarts | the cache is the catalog on disk and the engine implements `Store` |
| `engine_crash` | 2 tables of up to 4 rows with 1 crash, or 3 tables and 4 table ids with 2 | see below |
| `relational` | 2 tables of 2 columns with all constraints, one foreign key of another type than its column; 2 row ids each | NOT NULL, UNIQUE, what is left of foreign keys, and that statements use `Store` only |
| `relational_fk` | the same | expected to fail: foreign keys as an invariant of the data |
| `query` | every content of 2 tables of up to 2 rows that its statements can make, 200 SELECTs over each | answers are what the query means; the order given to `std::sort` is one; an UPDATE or DELETE that is cut short has written the first of the rows it picked |
| `query_mixed` | the same | expected to fail: a value is found by the literal it was written with |
| `formats` | six forms of a text, one in each behaviour | what is written is read back as meant; see below |
| `http_server` | 4 clients, one of which announces a length that is no number, requests of 2 to 4 pieces, a backlog of 2 | only a client that hangs up has its request cut short; everybody else is answered unless one of these two ends the process |
| `webapp` | 2 tables; a user who waits, with 2 foreign keys, 2 rows each and 2 lives of a name; or one who does not, without foreign keys | the window of one who waits shows what the server has; "Add row" adds to the table shown |
| `webapp_fk` | a user who does not wait, with foreign keys, answers in order | expected to fail: the last property |

**Crashes.** `StructureSafe`: whatever was interrupted, also twice, every tree a new
process finds can be descended and no page belongs to two trees.
`CrashIsConfined`: tables the interrupted operation does not name keep their
rows, and the one it names has those from before or from after it, *unless its
tree was splitting*. `SoundUnlessTorn`: a table no crash caught in a split stays
sound, and its row id counter lags by one at most. The exceptions are what the
code does: a crash between the writes of a leaf split loses the rows that had
moved, and one in a split of the catalog can lose tables. A counter that lags
makes every later INSERT into that table fail on a duplicate key (the id is
stored and never skipped); the model contains that behaviour, and
`SoundUnlessTorn` shows that at least no row is overwritten by it.

**Foreign keys.** `check_constraints` runs when the referring row is written.
Nothing runs when the referenced row is deleted or changed or its table is
dropped. `NoInventedReference` is what remains true: a stored reference is to a
value that is, or once was, in the referenced column, *where the two columns have
one type*. CREATE TABLE does not ask whether they have, and `table.h:94` compares
the field of the referenced column's type (`row.h:53`), which a value of another
type leaves at its default. Of such a reference the property says what the code
ensures: the zero of the referenced type is, or once was, in that column. An INT
column that references a REAL column holding 0.0 takes 5. `relational_fk` refutes
the stronger reading: `server_main.cpp:13` says of the endpoints that update and
delete a row directly that "constraint checks still run either way"; for DELETE
there are none.

**Queries.** `SelectIsRight` compares the nested loops, the short circuits, the
lookup of columns and the sort with `Meaning`, where AND is an intersection and
numbers are numbers. It is about SELECTs whose meaning is not in doubt
(`PlainSelect`): one column for each name, no text compared with a number, no `=`
or `<>` between INT and REAL. The last is what `query_mixed` is about:
`eval_literal` turns a literal into the type of its column when it is stored, and
nothing does when it is compared, so after an INSERT of 1 into a REAL column
`WHERE x = 1` finds nothing. `WritesWhatItPicked` is about an UPDATE or DELETE that
fails: an error in the WHERE clause, at whichever row, leaves all rows as they
were; an error at a later row, such as a UNIQUE failure at the second, leaves the
rows before it changed; and which rows are picked is settled before the first is
changed, so that an assignment cannot bring a row into its own statement or out
of it. `ComparisonIsOrder` holds for
integers that are no doubles as far as the order goes; that `=` agrees with it is
claimed below 2^53 only.

**Forms.** The machines of `formats`, and what they are about:
`RowCodec` (`ReadsAsWritten`: no NULL and no text moves another column),
`CatalogCodec` (`ReloadIsServed`: after every operation a new process would serve
the definitions this one does), `Routes` (`RequestsReachTheirHandler`),
`SqlGrammar` (`ReadAsMeant` for every statement as the grammar writes it,
`NothingPassedOver` for every text one mistake away from one: a text that is
accepted is the text of what was parsed), `SqlText` (`ReadBack`), `JsonWire`
(`AnswerIsRow`, `RowIsSubmitted`, and `CutIsRefused` for a body that ends in
the middle). `RowIsSubmitted` covers values of the wrong JSON type, too: they are
stored as 0 or as an empty text, and a fraction in an INT column is cut towards
zero. The window shows the cell as it was typed until the table is drawn again; no
property is about that. What the code does *not* keep, and the properties therefore leave
out, is named in each:

- texts of 65536 bytes and more are stored as their first few bytes, after UNIQUE
  was checked on all of them (`row.h:101`); a table under such a name is another
  table after a restart;
- a table whose name holds a slash is out of reach of the web app;
- a second `REFERENCES` of a column replaces the first silently;
- a REAL of more than six digits, or an integer beyond 2^53, is shown rounded;
- a backspace or a form feed in a text arrives as `b` or `f`.

**Requests.** `CutShortOnlyByHangUp`: however the network cuts a request up, the
handler of a client that stays works on all of it. For one that breaks off the
code handles what has arrived, and the model lets a cut request line name
another route; a body that was cut is no JSON (`CutIsRefused`). `Served` is the
liveness of the loop: whoever stays is answered, unless a client has ended the
process, by hanging up before its answer was written (SIGPIPE) or by a length
that is no number.
`RequestsReachTheirHandler` is about names without a slash: the path is decoded
before it is split, so other names do not come through.

**The window.** `WebApp` cuts every handler at its awaits; a record in `calls` is
a request with what the code after the await refers to, `Serve` is the server's
part and `Resume` what follows the await. `MCWebApp` adds which user a behaviour
is of. `WaitingSeesTheServer` and `WaitingEnds` are about one who waits
(`QuietWindowIsCurrent`, `ComesToRest`) and has the server to himself. One who
does not wait can see the rows of one table under the selection of another, as
nothing compares an answer with what was selected since. `webapp_fk` shows where
that does harm: `renderGrid` binds "Add row" after awaiting the options of the
foreign keys, on whatever grid is shown by then. That await is the cause:
`AddGoesToShownTable` holds, in `webapp`, for the hasty user of tables without
foreign keys.

**Bounds.** Fan-out two is the smallest for which the code's arithmetic makes
sense (`FanoutAssumption`); five keys then give three levels, so that a leaf, an
internal node and the root all split, in every order of insertion. Eleven pages
never stop an insert of that many keys. Six pages let four pages be allocated
and released in every order, enough for a free list of several pages with pages
in use on both sides of it. In `Engine` one table of four rows reaches a second
leaf split and the third table makes the catalog's first. `MCEngine` has a
variable `plan` and the constraint `Explored` for the two halves of
`engine_crash`: one crash with the deeper tree, in a file whose first table is the
one that grows; or two crashes with smaller tables, so that one can fall in an
operation on what an earlier one left behind. Two rows and two
values are what a violation of uniqueness or of a reference needs. The values of
`btree` are symmetric, since no operation looks at them. A head and a body
of two pieces each can be cut inside, before and after either. Two tables, one
left and one entered, are what the window's races need. In `query`, integers from
3 on are no doubles of their own, halves are reals that no integer equals, and two
rows in each table let a join pair a row with two others and an UPDATE fail at its
second row. In `formats` lengths wrap at 3 with texts of up to 4 bytes, the bitmap
has two bits to the byte and three columns, so the last is in the second byte;
conditions have up to four comparisons, the smallest in which AND and OR nest both
ways on both sides; texts of four characters hold an escaped quote between its two
quotes. `MaxPages`, `MaxTableId`, `MaxRowid`, `MaxRows`, `MaxGen`, `MaxCrashes`,
`MaxCalls`, `MaxSlips`, `MaxLen` and `MaxSent` bound what is unbounded in the
code; reaching one disables the action.

**Deadlock** is checked in every run but four: in `http_server` the process may be
ended by a signal or an exception and is not started again, and in `query`, `query_mixed` and
`formats` the inputs come to an end.

**Fairness.** The storage layers have only safety properties: nothing in them
waits. `HttpServer` assumes that the thread goes on (its loop never ends by
itself) and that a client goes on sending or hangs up; the second is not the
code's doing, which sets no timeout, and without it `Served` does not hold.
`WebApp` assumes that the server answers, which is `Served`, and that the browser
runs what is ready; nothing makes the user act.

Each property is also run against a mutant of the code, an operator beside the
one it replaces (`FreeNoLink`, `ChildIndexLeft`, `SyncRootInMemory`, ...), and
TLC finds it violated there.

## What is proved

All theorems hold for every value of the constants their assumptions allow.

`PagerProofs`, for files of any length and any number of table ids, assuming
only that the file has room for its first two pages (`MaxPagesAssumption`):
`TypeOK`, `DurableFreeListSound`, `AllocatedPageIsFresh`, `TableIdsRetired`,
`OpensOnceCreated` and `HeldPagesKept`. The inductive invariant is `IInv`. The
properties speak of the header on disk, because that is what a crash leaves;
they are not inductive, since the next write flushes the header in *memory*. So
`IInv` adds that the header in memory, too, describes a free list apart from the
pages in use, counting the one being allocated as in use (`MemPhase`), and what
is known before the first start is through (`InitPhase`). That a list has no
cycle is stated without recursion: a set of pages closed under the link, in which
no page is linked to twice and the head not at all. The key steps are popping
(`FreeListPop`), pushing (`FreeListPush`), and that a page blanked at the head of
the list on disk is a list of one (`FreeListBlank`): the case of a crash
between the two writes of `allocate_page`.

`RelationalProofs`, for every schema, all tables, values and any number of
rows: `TypeOK`, `NotNullHolds`, `UniqueHolds`, `NoInventedReference`. Their
conjunction is inductive. An insert is safe because the new row id is no row's
(`TypeOK`), an update because its row is still there; `ReferencedStays` shows
that a referenced value either stays or is recorded as lost. The assumptions say
that the schema is made of columns, that the zero of a type is one of its values
and that NULL is none.
`StatementsUseStore` proves `UsesStore`: the initial states are the store's, and
every step of a statement is a step of `Store` or none, one lemma for each kind of
step. `EngineImplementsStore` (below) is the other half of the composition.

`HttpProofs`, for any number of clients, any lengths of requests and any backlog:
`TypeOK` and `CutShortOnlyByHangUp`. What the handler works on is all that was
sent unless the client is gone; to see that, it is not enough to know what the
thread does: `PeersOk` says what a client may still do in each of its states,
`QueueOk` that nobody waits twice or is served while waiting, `ThreadOk` what the
thread has read of the one it serves. The five together are inductive (`HInv`).

`WebAppProofs`, for any tables, foreign keys, bounds, number of requests under way
and order of answers: `TypeOK`, from the invariant `WInv`, which says what requests
the window makes and what answers they may have. `AddStaysOnItsTable` proves
`AddGoesToShownTable` for a user who waits, and for everybody while no table has a
foreign key; `webapp_fk` refutes it for the rest, so this is all that can hold.
`WaitingWindowIsCurrent` proves `QuietWindowIsCurrent` for a user who waits. That
speaks of moments at which nothing is under way; `PInv` says for each request in
which one way the window may be out of date until its answer is worked off
(`Awaits`), and the steps of the server, of the handlers and of the user then lead
from one such state to the next or to a settled window. `WaitingAmongUsers` states
the same of the users of `MCWebApp`: `WaitingSeesTheServer`, which the run checks.

`FormatProofs` is about what the code makes of values, of bytes, of addresses and of texts.

- *Values*, for all integers, doubles and texts, over any monotone cast:
  `OrderIsStrictWeak`, that the comparison given to `std::sort` is a strict weak
  order on the values of one column, NULLs included (`StrictWeakOn`), and
  `EqualityAgrees`, that `=` agrees with it for integers that are doubles. The run
  `query` checks the two as `ComparisonIsOrder` on the values its tables get.
- *Rows*: `RowsReadAsWritten` proves `ReadsAsWritten` for any columns and texts of any
  length (`RowAssumption`: numbers are all of one size, and NULL is no text).
  Where a column begins depends on all columns before it, so the decoder is followed
  column by column (`StepByStep`, the induction on numbers of the b-tree): the
  pieces `FlattenSeq` put together lie where their predecessors end
  (`FlattenHolds`, `Holds`), and at each of these places the decoder finds the piece
  (`StringReads`, `DecodeEncode`). The invariant is
  `StoredFor`: what is stored is the encoding of the given row *or* of one with
  texts already cut. An update encodes again what it has read, and a text once cut stays
  as it is (`CutOnce`); without that the invariant is not inductive.
- *Definitions*: `CatalogReloads` proves `ReloadIsServed` for any tables, columns and
  constraints. `DecodeEncodeDef` is the round trip of one definition; `CatalogInv`
  adds what makes the scan at the start find each once: a definition is stored under
  its own table id, no two have one name, and what is served is what is stored. That
  names are below the limit of a length is part of the property;
  `CatalogAssumption` says that the number of columns is, too. A longer list is never
  stored, since a definition has to fit a slot of 500 bytes.
- *Addresses*: `RequestsArrive` proves `RequestsReachTheirHandler` for any names and
  row ids. `PieceRead` and `SlashRead` say what the loop of `split_path` does with a
  piece and with a slash, `SegmentsAre` what it therefore makes of each address that
  the window builds, `MatchesAre` which of the eleven routes match it: one, the meant one.
  `RouteAssumption` says that the fixed segments, the slash and its escape are
  different tokens and that `encodeURIComponent` leaves no escape in a name as it is.
- *Tokens*: `TokensReadBack` proves `ReadBack` for texts of any length over any
  characters. `CharAssumption` says that letters, digits and spaces are apart from each
  other and from the signs, and that no keyword is a literal. `Tokens` and `Quoted` are
  functions that look ahead: `LookAhead` shows that an equation of that kind has a
  solution (`TokensIs`, `QuotedIs`), `BackToFront` proves what holds of it from the last
  position to the first. `TokenFacts` says that a token read at a position ends behind it
  and is `Spellable`: a literal of any content, a number or a word that reads as itself,
  a sign. So `LexedIsSpellable`: whatever is lexed can be spelled. Backwards,
  `EscapedReads` says that a literal is read as what it was escaped from, `SpelledReads`
  that each token with a space behind it is read as itself, and `SpelledTokens` that a
  text of such pieces is.

`BTreeProofs`, for any set of keys and of values, every fan-out from two and any
bound on the file (`KeysAssumption`, `ValuesAssumption`, `FanoutAssumption`,
`MaxPagesAssumption`): `TypeOK`; `ScanFindAgree`, that the chain of leaves and the
descent lead to the same entries; `WellFormed`, that the tree is balanced, sorted,
loses no page and has each page under one parent; and `ImplementsDict`, that every
operation answers and changes the entries as a map does. They are about one
tree that has its file to itself, with an empty free list, and about operations that
are not interrupted: crashes are `Engine`'s.

- *The invariant.* The properties speak of what a recursion over pages computes; a
  step changes a few pages anywhere in the tree. So `IInv` is local. It says that
  there are three things, all ghosts, that fit the pages (`Alone`): `rng`, the keys
  whose descent passes a page; `lvl`, its distance from the leaves; and `chain`,
  the leaves from left to right. `PageOK` and `Slotted` say how the keys of a node are
  dealt out to its children, `Apart` that two pages of one level share no key,
  `Parented` that each page but the root is a child, `Chained` that the
  `next` of a leaf is the next in `chain` and that keys ascend along it. The ghosts
  are quantified and not variables: the code keeps none of them.
- *From shape to recursion.* A recursive function over pages satisfies its
  equation wherever the calls go down in some rank (`RankedRecursion`): the level
  for a descent, the place in `chain` for a scan (`AloneGrounded`, `AloneLinked`).
  Induction is done on numbers, through the least element of a set
  (`LeastNumber`, `AllNumbers`), which needs no operator as a parameter. From there
  `ScanFacts` and `FoundFacts` say what `scan` and `find` return.
- *A split.* Between the write of the two halves and the change of the parent no page
  is as it should be: the right half has no parent and the left one gets keys that
  are no longer its own. `Pending` describes the tree at that point, with the
  separator and the new page still to be put in. `LeafSplit` starts it; one level up
  the parent absorbs it (`SplitAbsorbed`) and is done or is halved itself
  (`SplitGoesOn`), until the root grows (`RootGrows`). `InsertGrows` is the induction
  on the path back up, and `InsertFacts` what becomes of the whole. That an empty leaf is never
  unlinked and a separator outlives its key is no matter for the invariant: `rng` is
  about which keys *would* be found there.
- *Refinement.* `TreeIsDict` takes each action to the action of `Dict` of the same name
  through `Map`, with the lemmas `InsertFacts`, `UpdateFacts`, `RemoveFacts`.

No bound of the run `btree` enters these proofs, so a split at fan-out two, where
a half may hold a single key, and one at the fan-outs of the code are the same case.

`EngineProofs`, for any table names, row contents, fanout, file length, bounds on the
ids and any number of crashes (`EngineAssumption` and those of the b-tree): `TypeOK`,
`StructureSafe`, `CacheCoherent`, `SoundUnlessTorn`, `CrashIsConfined`; and
`EngineImplementsStore`, that every behaviour in which no process dies inside an
operation is one of `Store`. `MaxCrashes = 0` in the run `engine_serving` is a special case.

- *Several trees in one file.* Tree 0 is the catalog, the tree of a table has its table
  id. The ghost `g` says for each page which tree owns it, its distance from the leaves
  and its place among them; `Sane` is what a crash can never take away: pointers stay
  within their tree, go down in level or on in the chain, and a descent never meets a
  blank page.
  `Whole` adds, for one tree, the full shape of `BTreeLemmas`, whose lemmas speak of a
  tree in a set of pages of its own and so apply to each tree by itself
  (`WholeStands`, `WholeSame`).
- *The first invariant.* An operation is a list of writes, and the properties speak of the
  file between any two. So `Restartable` says of *every* file the writes still to come will
  pass through (`Leaves`) that a process could start on it (`Stored`), and of the last one
  that it agrees with what the process already has in memory (`Known`). Beginning an
  operation is where the work is: `Through` follows an operation write by write
  (`Replay`), through each level of a split. Performing a write or crashing then
  only drops the head or the rest of the list. `TypeOK` and `StructureSafe` follow.
- *The second.* `Recoverable` says what those files mean. As long as the catalog is not
  torn, each is `Fine`: the catalog is whole and names each table once, and every table
  but those torn, or splitting now, is whole with a row id counter that lags by
  one at most (`Intact`). Each is also `Confined`, what `CrashIsConfined` says of a
  restart. The last one is what memory has (`Ahead`), which gives `CacheCoherent`, and
  what the last write makes visible is a step of `Store` (`StoreStep`). For each operation there
  is a lemma (`InsertRowBegun`, `CreateTableBegun`, ...) that what it begins has all this.
  Of a file whose catalog a crash has torn only `Restartable` says anything.
- *Why TLC does not check these two as they are.* They quantify over ghosts (`N`, `R`, `g`,
  the files ahead) that no finite set worth enumerating holds. What they imply is what the
  runs check.

No bound on crashes enters, where the runs allow one or two: a table that an earlier crash
tore stays out of the claims for ever, and every later operation on any other is
served and confined as before.

Only model-checked: `Query` with `SelectIsRight`, `ComparisonIsOrder` as the run states
it (its content is proved), and two of the six machines of `formats`: `SqlGrammar`
and `JsonWire`. Their parsers, and the conditions of `Query`, are recursive over
texts and expressions, most of them as RECURSIVE operators: the provers take no module
that declares one, and what a parser makes of every input is an induction over data.
Out of the prover's reach, whatever the effort: the liveness properties `Served` and `WaitingEnds`, which rest on fairness.

## What is not modelled

- A page torn inside one `write_page` (`pager.h:9` accepts it), and writes that
  reach the disk out of order after `flush`.
- A failing disk. After a failed write the stream stays failed and every later
  operation throws, so the file is as after a crash there.
- The bytes of a number, the layout of entries within a page, the wording of
  messages, numbers written with an exponent, `stod`'s rounding.
- The text of the exports and of the schema page, static files and their types.
- A join of a table with itself, and a column named like a keyword of the lexer:
  the repository does not say what either is to mean.
- Connections that fail under the window (`WebApp` refuses requests but loses
  none), more than one window, the designer's form, and values in the cells
  (`JsonWire` has those).
- The self-checks under `tests/`, read as a statement of what the code is to do.

## Plan

Next, in this order:

1. `WebApp` with a second window: which edits reach a row it never showed, after
   its table was dropped and created again; and lost connections.
2. A statement that a crash cuts in `Relational`, over the half operations
   `Engine` can leave behind: which constraints a restart finds violated.
