# TLA+ models and proofs of the course DBMS

This directory is a verification development for the database server in the
parent repository: a small relational engine in C++17 with B+ tree indexes, a
statement journal with `REVERT`, asynchronous jobs, a storage process
(`db_storage`), a request router (`db_entry`) and a client (`prog`).

`PROJECT.json` is the machine-readable side of this file: which run checks
which property, which source lines each definition stands for, which mutated
definition each property detects.

## 1. Inventory

One storage process holds everything in memory. Its threads, one per
connection and one per asynchronous job, share one `Executor`, one `JobQueue`,
one `Telemetry` and one `AccessLog`. Only the journals and the access log are
files; the executor has no lock.

| Component | State | Operations | What makes it correct |
|---|---|---|---|
| Table (`core/table.cpp`) | rows by id, id counter, one B+ tree per INDEXED column | insert_row, update_row, delete_row, rebuild_indexes | indexes mirror rows; indexed keys unique; the answers are those of a scan |
| B+ tree (`core/btree.cpp`) | linked nodes, leaf chain | insert, erase, find_equal, range, clear | find_equal returns exactly the entries inserted and not erased |
| Values, WHERE (`core/value.cpp`, `sql/where_eval.cpp`) | the statement's error string | value_cmp, eval_where | a row is selected when the clause says so and can be evaluated |
| Statements (`exec/executor.cpp:161-413`) | loop position, error string | INSERT, UPDATE, DELETE, SELECT, aggregates | index access and scan agree; a failure leaves a known part of the work |
| Catalog (`core/catalog.cpp`, `core/database.cpp`) | databases, their tables, current database | create, drop, USE | the current database exists |
| Executor, journal, REVERT (`exec/executor.cpp`, `core/journal.cpp`) | catalog, journal files, RBAC user | execute, maybe_journal, REVERT | the journal tells the tables; REVERT brings a past state back |
| Job queue (`server/job_queue.cpp`) | records by id | submit, poll, the job's thread | ids known once issued; polls tell the truth; jobs end |
| Storage server (`server/storage_main.cpp`) | connections | accept, handle_client | a request executes the statement that was sent |
| Telemetry (`server/telemetry.cpp`) | three deques of times | record_request, snapshot_json | windows hold what happened inside them |
| String pool (`core/string_pool.cpp`) | strings, ids | intern, resolve | interning is injective |
| Entry router (`server/entrypoint_main.cpp`) | round-robin counter | forward, heartbeat | a client's requests reach the process that knows them |
| Users, tokens (`auth/rbac.cpp`, `auth/jwt.cpp`) | users, grants, defaults, the executor's user name | create, grant, check, login, verify | a request is judged in the name it comes with |
| Parser, lexer (`sql/`) | token position | parse_one | a statement, and its WHERE clause, is what was written |
| Client (`client/main_client.cpp`) | buffer | split, send | one request per statement, and none lost |
| Access log, protocol, persistence, crypto | - | I/O, encodings | - |

How they interact. A connection carries one line. `handle_client` either polls
the job queue, or hands the statement to `Executor::execute`, at once or from a
job thread. `execute` parses, reads the current database, runs the statement on
the catalog, and appends the text to the journal of a database. The statement
calls the table's functions, which keep the B+ trees. `REVERT` reads a journal
file and sends its records through `exec_statement` again.

What is hard here: threads that share an executor without a lock; a current
database that is read twice; statements that fail half way; an error string
that survives from row to row; a replay that runs against a database that
already exists; a job thread that outlives the locals it refers to; one user
name for all connections; a text that is read by four readers (client, lexer,
journal, replay) with ideas of their own about strings, semicolons and
newlines; a process that forgets everything but its journals. `PROJECT.json`
lists these under
`hazards`, each at its line, with the properties aimed at it.

## 2. Modules

| Module | Models | Built on |
|---|---|---|
| `RowStore` | what a table promises: rows with ids, every check a scan | - |
| `Table` | `core/table.cpp`, an index as its set of entries | refines `RowStore` |
| `ConcurrentTable` | the same calls in steps, by several threads | `Table` |
| `Where` | value order, WHERE evaluation, choice of access path | `Table` |
| `Dml` | the statement loops of `exec_statement` | `Where`; refines `Table` |
| `DmlProofs` | theorems about `Table` and `Dml` | `Dml`, `Induction` |
| `EntryIndex` | what `Table` assumes of an index: a set of entries | - |
| `BPlusTree` | `core/btree.cpp`, nodes and splits | refines `EntryIndex` |
| `BPlusTreeProofs` | theorems about `BPlusTree` | `BPlusTree`, `Induction` |
| `Catalog` | databases, tables, current database, one statement's effect | - |
| `Engine` | `execute`, journal files, `REVERT`, process death | `Catalog` |
| `EngineProofs` | theorems about `Engine` | `Engine`, `Induction` |
| `JobServer` | connections, job queue, job threads | - |
| `JobProofs` | theorems about `JobServer` | `JobServer` |
| `EntryRouter` | `server/entrypoint_main.cpp` and the storages behind it, each with its catalog | `Catalog` (instance) |
| `Telemetry` | `server/telemetry.cpp` | - |
| `TelemetryProofs` | theorems about `Telemetry` | `Telemetry`, `Induction` |
| `AccessControl` | `auth/rbac.cpp`, tokens, and what `execute` does with them | `Catalog` |
| `AccessProofs` | theorems about `AccessControl` | `AccessControl` |
| `StatementText` | `client/main_client.cpp`, `sql/lexer.cpp`, journal lines as text | - |
| `StatementProofs` | theorems about `EntryRouter`, `StatementText` and `WhereParser`: a statement on its way | the three, `Induction` |
| `WhereParser` | the WHERE grammar of `sql/parser.cpp` | `Where` for what it means |
| `Induction` | least numbers, course-of-values induction, folds and recursion over an interval, counting and cutting sequences, for the proofs | - |
| `MCTable`, `MCBPlusTree`, `MCDml`, `MCEngine`, `MCJobServer`, `MCEntryRouter`, `MCTelemetry`, `MCAccessControl`, `MCText`, `MCConcurrentTable` | instances for TLC | |

**Table.** `rows`, `nextRid`, `index` are `rows_`, `next_rid_`, `indexes_`;
`reply` is the call and whether it succeeded, so that refinement compares the
verdict on each call. A call is one action with a refused and an
accepted branch, in the order of the code's checks. Ids are bounded by
`MaxRid` (the counter is 64 bits wide). An index is the set of its
`<<key, row id>>` entries: the contract of `BPlusTreeIndex`, stated as
`EntryIndex` and refined by `BPlusTree`.

**BPlusTree.** Nodes lie on a heap, a sequence whose positions are addresses;
`parent`, `ch` and `next` are addresses. `Insert` ends where the split loop
begins; `SplitLeaf` and `SplitInner` are its turns, `cur` the node it looks at.
`Promote` hands the separator to the parent or to a new root, as the code does
in the same turn. `Erase` merges nothing. A key is inserted only when it is not
there, which is how `core/table.cpp` calls the tree; with equal keys on both
sides of a separator `find_leaf` would go past some of them, so the tree does
not promise that case and `Table` never asks for it. `call` records the last
call, so that the refinement compares what a call did with what it is for; no
step reads it, and the run identifies states that differ in it alone (`VIEW`).

**Where.** A clause is the parser's array of nodes, children before parents
(`IsClause`). Evaluation and the search for an index key are each one operator
for what a node does with the results of its children (`EvalNode`,
`ExtractNode`) and a function over the array; so is `Satisfying`, the rows a
clause means. `eval_where` takes and returns whether the error string is non-empty, because
the code passes one string by reference through a whole statement and never
clears it: a leaf is blind to an old error, an AND or OR is not. Values are
integers or ranks of strings. A LIKE pattern is the set of strings that match.

**Dml.** `Begin` fixes the list of rows or tuples (`todo`), each further step
is one turn of the loop, `Finish` is the reply. Rows are visited in any order,
because `unordered_map` has none. `hits` are the turns that had an effect.
`before` remembers the rows at the start, for the properties only.

**Engine.** Each thread goes through three moments of `execute`: reading the
current database's name (`Receive`), executing (`Exec`, `Revert`), choosing a
journal file and appending (`AppendRecord`, `SkipRecord`). Executing one
statement is atomic here. With one thread that is exact; with two it leaves
out data races inside a statement, so what goes wrong there in the model goes
wrong in the code, not the other way round. Tables are sets of keys: enough for
statements to fail and for a journal to be compared with its database. Time is
a counter that every append increases; equal or decreasing readings of the
clock are left out. When a replay destroys the database it works on, the loop's
next look at the freed `Database` finds either the old name or another one, and
both are explored (`memory`). A process death empties the memory and leaves the
files.

**JobServer.** A connection's handler and a job's thread are two processes. The
closure of an asynchronous request holds references to locals of
`handle_client`; `TextSeen` is what they yield: the text, and after the return
the text or `Garbage`. The executor is reduced to whether a text succeeds.
An exception from `execute` (an integer literal of more than 64 bits makes
`std::stoll` throw) is caught in the job's thread and counts as a failure; in a
handler's thread nothing catches it and the process ends (`ThrowSync`). A death
of the process, by itself or through a bad reference, is `Restart`.

**EntryRouter.** Each client has one connection at a time, served by one thread
of the router; a storage is its catalog, on which a statement has the effect
`Catalog` gives it: a USE of a database that is not there is refused, a DROP
DATABASE of the current one leaves none current, a table statement fails without
a database. A storage that dies takes its catalog and the requests it has not
answered with it, and one that is started again begins with an empty catalog
(`storage_main.cpp:90-94` reads nothing back); an answer already written is still
delivered. Lines arrive whole or not at all, and signals are left out. Requests
carry no token, and REVERT, which needs the journals, is left to `Engine`. The
heartbeat thread only writes to the error log. `chosen` remembers, for the
properties only, which database each client's last accepted USE named at each
storage, until another client's USE there, a DROP of that database or the
storage's death undoes it.

**Telemetry.** A thread reads the clock (`ReadClock`) and later, under the
mutex, appends and prunes (`Record`). `log` remembers all records, for the
properties. The mean latency is not computed; which latencies are kept is.

**ConcurrentTable.** `insert_row` and `update_row` as three steps each (checks;
row; index entries), by threads that take no lock. A single step is still
indivisible, which is kinder than the code: two threads inside one container,
or one that goes on with a row another deleted, are undefined behaviour there.
What is found wrong here is wrong without it.

**AccessControl.** `thread[t]` is where a thread is in `execute()`: the token
(`Authenticate`), the parser (`ParseFails`), the permission (`Permit`), the
execution. CREATE DATABASE is two steps, because the catalog has the database
before `grant_default_on_new_database` is called. `rbac_user` is the one
`rbac_user_` of the executor. A token is a record of what it says; its `life`
(the process that issued it) and `password` are history. A token that does not
verify ends its request with nothing changed, so only those that verify are
steps. Statements about tables matter by the permission they need; a grant of
an unknown permission changes nothing and is left out. A restart keeps the
secret (an environment variable or a constant) and nothing else.

**StatementText.** A text is a sequence of one character per class: quote,
semicolon, dash, newline, bar, letter. `Batch` and `Interactive` are the
client's two ways from a text to requests, `Lex` and `Seen` what the parser
gets to see of a request, `JournalLine` and `Records` the journal's line out and
in, `Replay` what REVERT's parser sees. `Type` and `Submit` build and hand over a
file, `ExecuteNext` journals one statement, of whose line a failing disk may keep a
part; `Refuse` answers a request without a statement. A time stamp is the
number of the record, in as many digits, and the database is one letter. What
the code does in loops is a function of the position that is reached - the lexer
(`LexFrom`), the cutting of a file (`Cut`), lines at the prompt (`Enter`), the
lines of a journal (`Records`) - so that it can be reasoned about. The
client's idea of strings and comments is not the lexer's; the properties say
when that does not show.

**WhereParser.** The parser's functions, as functions of the position of the next
token and of the number of nodes there are: what each does is the position it
stops at and the nodes it pushes. The next token is read at once by the
parser and only when needed here, which no result depends on. The `while` loops of
`parse_bool_or` and `parse_bool_and` are `Loop`, a turn of them `Joined`; a turn takes
a token, so there are at most as many turns as tokens. The recursion through
`parse_bool_primary` is `nested[n]`, the parser that goes n parentheses deep: an
opening parenthesis is a token too, and n is the number of tokens. `Write` lengthens
a clause while the parser could make use of more, so that every clause up to
the bound that is not already refused or left is parsed. What a clause means
is stated on the pieces (`Meaning`), and what the nodes do is asked of `Where`.

## 3. Runs

| Run | Question | Bounds, and why they are enough |
|---|---|---|
| `table` | indexes against rows; refinement of `RowStore` | two columns (one INDEXED, one nullable), two keys, one string, three ids: duplicates, own-key updates, type errors, NULLs, re-use of a freed key |
| `btree` | search tree, leaf chain and lookups; refinement of `EntryIndex` | six keys, two row ids, orders 2, 3 and 4; insertions start with at most ten nodes. Order 4 is the smallest the constructor builds; order 2, which runs the same code with fewer keys, brings trees of three levels, splits of inner nodes, leaves emptied and filled again |
| `dml` | access paths, error strings, partial failure | three columns, at most four ids, twenty statements chosen so that every branch of every loop is taken, with clauses that fail on some rows only |
| `engine` | journal against tables, REVERT, crashes | one thread, two databases, one table, two keys, four journal records, one crash, one lost append: enough for drop-and-create-again, records that go astray, REVERT to the start, the middle and the end |
| `engine_revert` | does REVERT restore? | as above, without crash or loss |
| `engine_race` | the same journal property with two threads | two threads |
| `jobs` | queue, ids, polls; do jobs end? | three connections in every role, one good and one bad text, one restart |
| `router` | what an answer through the router means; does everyone get one? | two clients that create and use a database each, an unqualified CREATE TABLE of the first, a CREATE TABLE of the second in the first one's database and a DROP of that database; lists of zero to three storages, two deaths. Which USE is accepted, refused or undone depends on the order, on the round robin and on the deaths; the unqualified statement meets its own client's USE, the other client's, and none |
| `telemetry` | are requests counted while they are in their window? | two threads, four requests, eight ticks of the clock, windows of 5, 2, 3 and 1 ticks: every entry can age out of each deque |
| `access` | in whose name is a request judged, and does it matter? | two threads, the administrator and one more user with two passwords, one database, two tokens valid for one of two ticks, one restart: another's token in between, expiry, a grant before its database, drop and create again |
| `text` | is what is executed, journaled and replayed what was written? is a clause parsed as it is meant? | six characters and one torn append: two statements, a string with a semicolon, a bar or a newline in it, a comment between statements; clauses of up to eight pieces (three predicates with both operators in parentheses) over one column of integers and one of strings |
| `table_race` | are INDEXED keys unique with two threads? | one column, two keys, two ids |

What each passing run shows:

- `table`: `IndexMirrorsRows` (no stale, no missing entry), `IndexedUnique`,
  `ImplementsRowStore` (deciding through the trees is deciding by a scan).
- `btree`: `DescentFindsLeaf` (separators agree with the leaves after any
  splits and erasures), `ChainAscends`, `TreeShaped` (parents, depth),
  `LookupsExact` (`find_equal` and `range` miss nothing and invent nothing, even
  past empty leaves), `ImplementsEntryIndex` (no split adds or loses an entry).
- `dml`: `TouchesOnlyMatching` (no row outside the clause is touched, whatever
  the access path and whatever error an earlier row left), `NothingMissed` (a
  clause that can be evaluated everywhere reaches all its rows, even while
  UPDATE changes the index it came through; of the rows an evaluation error hides
  from the loop behind it nothing is claimed but that no other row is touched), `EffectIsHits` (what a statement
  leaves when it fails half way), `ImplementsTable`.
- `engine`: `CurrentExists`; `JournalTellsTables` (a database differs from its
  journal only in the recorded ways: named from outside, partial failure,
  REVERT, lost append); `RevertedIsTold` (a REVERT that says "reverted" was
  right); `RevertStaysHome` (it never reaches another database nor a
  destroyed one as long as no append was lost).
- `jobs`: `IssuedIsKnown`, `PollTellsTruth`, `JobsEnd`, and `OwnTextUnlessLate`: a
  request executes and journals its own text, except a job whose thread reads
  the text after `handle_client` has returned. That exception is real: the
  closure holds references and the thread is detached.
- `router`: `AtMostOnce` (nothing is sent twice), `AnswerTellsTruth` (an error of
  the router means nothing was executed, only the empty line leaves it open),
  `EveryoneAnswered`; `StatementFollowsUse` (an unqualified statement takes effect
  in the database of the last USE accepted at the storage it reaches, which
  exists, whatever was executed or refused there since; if no USE stands there,
  because none was accepted, its database was dropped, or the storage was started
  again, the statement changes nothing). That last USE may be another client's,
  and the statement right after a USE goes to the next storage of the list, so
  with more than one storage a client usually does not find its own: `demo.sql`
  works with one storage only.
- `telemetry`: `NothingUnderreported` (whatever the order in which threads get
  the mutex, nothing is dropped inside its window), `ReportExactAtLastRequest`
  (with times in order, METRICS is exact as of the last request). It is not
  exact as of the snapshot: a snapshot prunes nothing, so after a quiet minute
  `errors_last_min` still counts older errors, which no property forbids.
- `access`: `OwnNameUnlessOvertaken` (another request's token between a request's
  own token and its permission changes the name it is judged in, and nothing
  else does); `NameDecidesNothing` (whatever the name, nothing is refused in a
  database whose creation is over: defaults are all permissions, stay for ever,
  and are not taken back by a grant); `TokenStandsForAccount` (a token of this
  process names an account with the password it was got with; one from before
  a restart need not name any, and is accepted).
- `text`: `StatementsAsWritten` (without comments and unclosed strings the server
  executes exactly the statements the lexer sees in the file, and what is
  complete before the first comment in any case; at the prompt, if every
  semicolon ends its line). `ReplayReadsExecuted` (a record neither torn nor
  behind a torn one comes back under its own time and reads as it was executed,
  with blanks for bars in strings). `ClauseAsWritten` (precedence, BETWEEN's own
  AND and parentheses end up in the nodes as they are meant, and a node refers
  to earlier ones only, which the evaluation and its proofs take for granted). Where the code does
  otherwise is in the conditions: a comment swallows the rest of its statement,
  because lines are joined before they are sent; the rest of a line at the
  prompt is dropped after its first statement; a bar outside strings ends a
  statement when executed and is a blank when replayed; a string that is not
  closed takes the lexer's appended blank with it; what stands behind a clause,
  or in place of the word WHERE, is not looked at.

Three runs find what the code does against what the repository says of it:

- `engine_revert`: the journal of a database begins with its own
  `CREATE DATABASE`. REVERT drops the tables, replays, and stops right there
  with "database already exists": the database is left empty. `RevertedIsTold`
  and `RevertStaysHome` hold in `engine` for the same reason - a REVERT that
  gets past the first record is one whose first record was lost.
- `engine_race`: two statements take effect in one order and are journaled in
  the other, or a USE in between sends a record to another file.
- `table_race`: two insertions of one key both pass the duplicate check before
  either is in the index. Sequentially this cannot happen (`table`, and the
  theorem `IndexedColumnsUnique`).

`jobs`, `text`, `table_race`, and the runs of the router and of telemetry set
`CHECK_DEADLOCK FALSE`: when every connection, script, request or text has been
served, or the row ids of the bound are used up, there is nothing left to do.
The other runs check for deadlock.

**Fairness.** `JobServer` assumes weak fairness of each handler and of each job
thread, `EntryRouter` of each router thread and of the handler in a running
storage. These are operating-system threads that wait for nothing but a mutex
held for a few instructions, or for a line whose sender is one of them.
Connecting, accepting, dying and starting a storage are not fair.

## 4. Proofs

Every safety property a passing run checks, refinements and action properties
included, is also a theorem, for all values of the constants. Each proof follows
the same line: an invariant that holds at first, survives every action (one lemma per action,
one step per conjunct it can disturb) and implies the property. What follows
says what each invariant adds and why it is needed.

**Assumptions on the constants.** Each is named in the module that declares the
constants, and TLC evaluates it on every run.

| Assumption | Says | Why the code justifies it |
|---|---|---|
| `TableAssumption` | constraints name columns; NULL is no column's value | `CREATE TABLE` builds the constraints from its columns; NULL is a kind of its own in `Value` |
| `DmlAssumption` | statements are as the parser builds them (`StatementOK`), WHERE clauses with children before parents (`IsClause`) | the parser pushes a node after its operands: `ClauseAsWritten` says `IsClause` of every clause that is accepted, and is proved (`ClausesAreAsWritten`) |
| `BPlusTreeAssumption` | keys are integers; orders are at least 2 | `value_cmp` orders the values of a column linearly; the constructor raises an order below 4 to 4 |
| `EngineAssumption` | statements have their kind's fields; the empty name is no database's; finitely many threads | lexer and parser; a thread per connection |
| `JobAssumption` | a garbage text and "no text" are no client's texts | they stand for what is left of a destroyed local, and for nothing |
| `EntryRouterAssumption` | statements have their kind's fields, scripts are sequences of them; "none" is no database's name | lexer and parser; a name is not empty |
| `TextAssumption` | the bounds on files and torn appends are numbers | - |
| `ClauseAssumption` | the bound on pieces is a number; no column is both of integers and of strings | a column has one type |
| `TelemetryAssumption` | the window of the rate is within the one hits are kept for; finitely many threads | 1 and 600 seconds in `telemetry.cpp` |
| `AccessAssumption` | names in statements are those of the model | - |

**Induction.** The recursive functions of the model (replay of a journal,
evaluation of a clause, the windows of METRICS, descents and scans of an index,
the lexer, the client's loops over characters) are dealt with record by record,
node by node or character by character. That such a function exists and obeys its equation is itself
an induction. The library's induction theorems take a predicate as a parameter,
which the provers cannot instantiate, so `Induction` states what is needed about
sets of numbers: a set that is not empty has a least element (`LeastNumber`, from
the well-foundedness of `<`), `UpTo`, `CourseOfValues`, and that functions
given by recursion along an interval, along a sequence with a state, or towards
the end of a sequence in steps of any size exist (`RecursionExists`, `FoldExists`,
`JumpsExist`).

**DmlProofs, about `Table`.**

- `TableTypes`, `IndexesMirrorRows`, `IndexedColumnsUnique`, from
  `TableInv == TypeOK /\ IndexMirrorsRows /\ IndexedUnique`. The three are
  inductive only together: uniqueness needs that looking a key up finds every
  row with it (the mirror); the mirror needs that no row has NULL in an INDEXED
  column (types). `FindEqualIsScan` and `DuplicateIsScan` carry the argument.
- `TableImplementsRowStore`: each call is the call of `RowStore` with the same
  arguments; `rebuild_indexes` is a stutter because the indexes mirror the rows
  already (`RebuildIsNoChange`).
- `IndexesCalledAsPromised`: the guard of `Put` in `EntryIndex` and of `Insert` in
  `BPlusTree` (the key is not there) is an assumption about the caller, and the
  table meets it: `update_row` takes the old entry out before it puts the new one
  in, and while `rebuild_indexes` refills an index the next key is always new.

**DmlProofs, about `Dml`.**

- `DmlImplementsTable`: each step is one call of `Table` or leaves it alone, so
  the theorems above hold between any two turns of any loop.
- `PartialEffects`: `DmlSpec => []EffectIsHits`, from the invariant
  `DmlInv == LoopInv /\ EffectIsHits`. `LoopInv` says that `TableInv` holds, that
  INSERT has done exactly the tuples before those still to do, and that a row
  still to be visited is not among the hits; the last is what makes "the row as
  it is" and "the row as it was" the same when UPDATE copies it.
- `OnlyMatching`, `AllMatching`, `DmlTyping`, from `FullInv`, which adds to `DmlInv`
  that the hits so far are rows of the clause and, if the clause can be
  evaluated on every row, that each row of it is a hit or still to be visited
  while the error string stays empty (`WhereInv`). Two facts about clauses carry
  it, each an induction over the nodes: `EvalIsSound` and `EvalIsExact` (an answer
  without an error is what the clause means, and there is none where it can be
  evaluated, whatever was in the string before for a leaf, and only from an
  empty one for AND and OR), and `KeyIsNecessary` (a key taken from a clause by
  `ExtractNode` is demanded by every row it selects, because OR yields none). With
  the mirror of `TableInv` the latter gives `CandidatesReach`: going through an
  index loses no row of the clause.

**BPlusTreeProofs.** `TreeInv` is about the heap between any two steps, also
between two turns of the split loop. It says that witnesses exist which the code
does not keep:

- a height of every node, 0 at leaves and one more at each parent, so that
  `find_leaf`, a recursion over addresses in no order, ends (`DescentExists`);
- a region of every node, the keys a descent takes there: all at the root, at a
  child the part of its parent's region between two separators. Keys lie in the
  region of their node. Regions are needed because separators alone say nothing:
  `erase` leaves separators that no leaf has any more, and leaves that are empty,
  but changes no region (`Removed`);
- the chain of the leaves and each leaf's position in it; regions ascend along it;
- `cur`, the one node that may have a key too many.

A turn of the loop takes the tree apart: while the separator is on its way up,
two nodes stand for one, and the node above sees the left one with the region of
both (`seen` in `Tree`). `LeafSplit` and `InnerSplit` lead to such a tree,
`NewRoot` and `NewChild` lead back (`PromoteStep`). It yields

- `BPlusTreeTyping` and `TreeStaysShaped`: the shape of nodes and of the tree;
- `DescentCorrect`: a key lies in the region of one leaf only, and descents for
  it end there (`LeafOfKey`, `LeafUnique`);
- `TreeImplementsEntryIndex`: splits hand every entry to one of two halves; the
  search of `erase` along the chain meets the entry if it is stored;
- `ChainStaysAscending` and `LookupsStayExact`: concatenating the leaves gives
  rising keys (`FlattenIs`), so a scan that stops at the first key above its
  limit has met all entries within (`UpToLimit`, `ScanIs`), and collects the row
  of each once (`GatherIs`).

With `TableImplementsRowStore` and `DmlImplementsTable` this is a chain of
refinements: a statement works on a table as if it scanned rows; the table may
use an index as a set of entries, and calls it as such a set demands
(`IndexesCalledAsPromised`); the tree is such a set. The last link is by
comparison: a call of `Table` makes one or two calls of an index in one step, so
`Table` states the sets itself instead of instantiating `EntryIndex`.

**EngineProofs.** `EngineInv` holds with any number of threads: the current
database is there, journals hold executed statements with ascending times not
after the clock, and every statement under way still has its place before
`MaxClock`.

- `EngineTypeOK` and `CurrentExists` (`Typing`, `CurrentIsThere`) follow from it,
  through any replay: `ReplaySteps` unrolls `Replay` record by record, and
  each record keeps a good catalog (`ReplayRecordOK`).
- `RevertsTellTheTruth`: when REVERT answers "reverted", what is in the database
  is what `Told` says of the journal up to that time. The replay and the telling
  are two recursions over the same records; `InReplayStep` keeps them equal
  until one fails.
- `RevertsStayHome` and `JournalsTellTables` are about one thread and say so
  (`ASSUME NEW h, Threads = {h}`): with two the run `engine_race` violates the
  second. `HomeInv` says that a journal nothing was lost from begins with the
  creation of its database, so that a replay stops at its first record.
  `TellInv` says what a database will be once the record under way is appended:
  between execution and append the journal is one record behind, and `Pending`
  names the databases that may differ and how.

**JobProofs.** `JobInv` follows one connection: which of its request, its job's
record and its job's thread exist and how far each is (`Course`, `Progress`),
that texts are its own until its locals are gone (`OwnText`), and that a final
status somebody was told can no longer change (`PolledStands`); the last needs
that a job's thread is over once its record is final. It yields `JobTypeOK`,
`IssuedIsKnown`, `PollTellsTruth` and `OwnTextUnlessLate`.

**StatementProofs, about `EntryRouter`.** `RouterInv` ties the storage a connection
hangs on, what it has been sent, and how often it was executed (`Underway`,
`Counted`), and says that the USEs that stand at a storage name its current
database, which exists (`StandingIsCurrent`, `CatOK`): a refused statement changes
neither, an accepted USE or DROP DATABASE both alike (`Executed`), a death both
to none. It yields `RouterTypeOK`, `AtMostOnce`, `AnswerTellsTruth` and
`StatementFollowsUse`.

**StatementProofs, about `StatementText`.** The inductive invariant
`JournalHolds == TextTypes /\ LinesHold` says that every statement under way or
executed is one line without white space around it, and that every record no
torn append has harmed stands in the journal as one whole line. Everything else
is about the operators, for texts of any length.

- `JournalsReplay` (`ReplayReadsExecuted`): the line is found and split at its
  first two bars (`LineIsRead`), and the lexer finds in the record the tokens it
  found in the statement, but for blanks inside them (`Alike`, an induction over
  the text from its end; white space only separates tokens, a comment cannot
  begin or end because of a blank, and what a bar leaves is a token the parser
  never gets to).
- `StatementsAreAsWritten` (`StatementsAsWritten`): the client cuts without knowing
  tokens, by quotes and semicolons only. Its idea of a string is right
  (`InString` at the position it has reached), because a lexer that meets no
  comment begins each token outside of strings (`CalmAfter`); so a piece between
  two cuts is one the lexer would not straddle, and it has the tokens the whole
  text has there (`Along`, `PieceTokens`). The request made from a piece reads like
  the piece, whatever trimming and joining of lines does to its ends
  (`RequestIs`). What carries the induction over the characters is `Reached(c, st,
  b, r)`: up to b the text has given the statements r and no token is half read.
  `CutFollows` takes it through `split_sql_statements`, `EnterWaits` through the
  prompt, where a piece ends with its line. A file with a comment is followed up
  to the last semicolon before it (`BatchBegins`: what comes later only adds
  requests); at the prompt what follows the last complete line is kept for ever
  (`PromptKeeps`).

**StatementProofs, about `WhereParser`.** `ClausesAreAsWritten`: that a clause is a sequence of
pieces is the invariant; the rest says, of every such sequence, that the parser
and `Meaning` agree. They divide it differently - the parser goes from left to
right and nests, `Meaning` splits at the last separator of the outermost
level - and meet in the heights (`Heights`, how many parentheses are open behind
each piece).

- Tokens and pieces: `Laid` gives the position at which each piece begins; a piece
  is told by its first token (`FirstToken`), so what the parser sees at a position
  is a piece and not part of one (`WordAt`, `ParenAt`, `PredicateAt`). In
  particular the AND of a BETWEEN is never met by the loops.
- Meanings: `Meaning`, given by a table for shorter and shorter sequences, obeys
  the split at a separator (`MeansSplit`) and the rules where there is none
  (`MeansWhole`), whichever table is used (`ChainsAgree`).
- Completeness: what means something is read to its end (`LoopComplete`,
  `PrimaryComplete`, `OrComplete`), by induction on the nesting and, in a loop,
  on the separators.
- Soundness: what is accepted ends behind a piece, in front of nothing the loop
  could use, with no parenthesis open (`Accepted`), and its nodes, whatever
  stands before them in the array, have as their root the value the pieces mean
  (`NodesSay`): `PredicateSound`, `ParenSound`, then `JoinSound` for one turn of a
  loop, `TurnSound` and `LoopSound` for all of them, `OrSound` for any nesting.
- Evaluation: `Built` nodes are a clause in the sense of `Where` (`BuiltClause`), and on a
  row of the right types `eval_where` gives each node its value without an error
  (`NodesEvaluated`, `ClauseEvaluated`).

**TelemetryProofs.** `TelInv` compares each deque with the log of all requests for
every time at which nothing can have been pruned (`Covers`): a count of the deque
from such a time on is that of the log, although threads append out of order
and pruning stops at the first entry that is young enough. When requests are in
order a deque is too, and starts inside the window of the last request
(`Fresh`), which makes the report exact. It yields `TelTypeOK`,
`NothingUnderreported` and `ReportExactAtLastRequest`.

**AccessProofs.**

- `AccessTyping`: types, including that a grant or a default is a set of
  permissions and a principal is a user or a group.
- `NamesDecideNothing`, from the invariant that every database of the catalog
  has all default permissions or is in the hands of a thread that is about to
  grant them (`DefaultsCoverCatalog`). It is inductive because nothing takes a
  default back, not even DROP DATABASE, and because a restart empties catalog and
  defaults together.
- `TokensStandForAccounts`: an account is never changed or removed while its
  process lives, and no token is of a process yet to come (`TokensOfThePast`),
  so that a restart leaves nothing to show.
- `OwnNames`: what is not marked as overtaken has seen no change of
  `rbac_user_`.

**What stays with TLC.** Liveness (`JobsEnd`, `EveryoneAnswered`) is out of the
prover's reach. All other properties of the passing runs are proved for every value of
the constants, `RevertStaysHome` and `JournalTellsTables` for one thread.

## 5. Not modelled

- String pool: an append-only list whose contents decide nothing in the parts
  modelled. A reference from `resolve` that a concurrent `intern` invalidates is
  undefined behaviour of which nothing further can be stated.
- The grammar of statements other than WHERE clauses: sequential, without state
  beyond the position; `Dml` and `Engine` begin with parsed statements.
  Characters the lexer treats alike are one character.
- Two records of one database in the same microsecond, and a clock that is set
  back: the order of `std::sort` among equals is not specified. Timestamps as
  text (`parse_ts_string`).
- Jobs and polls through the router: a request is forwarded whatever it says, so
  a POLL reaches the process that knows the job only when the list has come
  round, as `StatementFollowsUse` says for USE.
- Groups with members: `add_user_to_group` has no caller. Secrets, signatures and
  encodings of tokens; tokens the server did not sign are refused.
- A peer that never ends its line holds a thread for ever (`net/protocol.cpp`):
  requests are messages that have arrived.
- Races inside one container, memory reclamation in the B+ tree beyond `clear`,
  the mean latency, sums beyond the range of `long double`, AVG's rendering.
- Access log, persistence helper, OpenSSL calls: I/O and encodings without state
  the properties could be about.

## 6. Plan

Left to model: `Engine` with a clock that may stand still, where two records of
one time come back in either order; the grammar of the statements around a
WHERE clause.
