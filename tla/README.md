# TLA+ models of tokito-mcp

tokito-mcp packs the KiCad symbol library into one SQLite artifact and serves
it over MCP and REST. In production a server also follows a *generated*
catalog: symbols that another service publishes, which the server pulls from a
control plane, merges into a pack of its own and hot-swaps while it answers
requests. This directory holds TLA+ models of that program, TLC configurations
that check them on small instances, and TLAPS proofs for every instance.

Paths below are relative to the repository; `CP` is
`crates/server/src/control_plane.rs`, `MN` `crates/server/src/main.rs`, `PK`
`crates/pack/src/lib.rs`, `GS` `crates/pack/src/generated_source.rs`, `ST`
`crates/server/src/state.rs`, `CA` `crates/server/src/mcp/capped.rs`, `GN`
`crates/symbols/src/generated.rs`, `SS` `crates/symbols/src/search.rs`, `PM`
`crates/pack/src/main.rs`, `SX` and `KI` `crates/pack/src/sexpr.rs` and
`kicad.rs`.

## 1. The system

| Part | State it keeps | Operations | Talks to |
|---|---|---|---|
| Control-plane sync, `CP materialize` | locals `cursor`, `all_revisions`; the `.sqlite.part` file; the source cache | walk the paged manifest, fetch and validate each revision, stage, commit, rename | the control plane (HTTP), called by `main` |
| Pack publication, `PK publish_generated_pack` | `<pack>.<pid>.tmp`; the pack file | copy the official catalog, merge the source in a transaction, integrity check, trial open, rename, cleanup | reads the source, called by `main` |
| Generated merge, `GS`, `crates/symbols/src/generated.rs` | tables `generated_*` of a pack | `sync_from_ingestion`, `validate_and_prepare`, `insert_revision`, `sync_from`, `resolve_by_mpn`, `provenance` | called by publication and by the pack CLI |
| Boot and refresh, `MN main`, `ST` | `fingerprint`, the generated connection | boot sync, publish, open; every interval: sync, fingerprint, publish, hot swap | all of the above |
| Request path, `server/src/lib.rs`, `ST`, `error.rs`, `rest/`, `mcp/server.rs` | permits, the two connection mutexes, blocking jobs | one handler per route, each one job on the blocking pool | the connections that the refresh swaps |
| MCP session cap, `CA` | rmcp's session map | `create_session`, `initialize_session`, `close_session`, `resume`, keep-alive | the request timeout of the layer above it |
| Symbol build, `pack/src/emit.rs`, `ingest.rs` | the artifact being written | three passes: insert, resolve `extends`, back-fill pin counts | parser |
| Resolver, `symbols/src/resolver.rs` | LRU cache keyed by row id | `resolve`, chain of `extends` capped at eight | base and generated connections |
| Search, `symbols/src/search.rs`, `ST search_catalogs` | none | FTS query, filters, merge of two catalogs | both connections |
| KiCad parsing, `pack/src/sexpr.rs`, `kicad.rs` | none | tokenise, nest, extract fields | build |
| Part identity and queries, `symbols/src/part_id.rs`, `server/src/part_offer_query.rs` | none | normalise, compare, match | generated store, REST and MCP |
| Pack CLI, `pack/src/main.rs`, `report.rs` | the artifact | build; in-place generated sync | build, generated store |

What makes each of them correct:

- *Sync.* A walk that ends well has everything that was published throughout
  it and nothing that was never published during it, although the control
  plane moves between two requests; every call ends; a crash or an error never
  leaves a torn cache.
- *Publication.* The pack on disk is always the old one or the complete,
  checked new one.
- *Boot and refresh.* The server always comes up; what it serves only moves
  forward; a fingerprint that is recorded vouches for what is served; a
  publication is served in the end.
- *Session cap.* Bounded overshoot; no place is lost for ever to a client that
  has gone.
- *Request path.* Every request ends; a client never travels back to an older
  catalog; permits and mutexes survive timeouts and panics.
- *Build and resolver.* Every symbol resolves to the body its chain of `extends`
  ends in, or is refused; the pin counts that searches filter on agree with it.
- *Store.* A merge that reports success is whole, one that fails has a cause;
  a stored revision never changes; a part resolves to its newest published
  revision however it is spelt, and the id it resolves to leads back to it.
- *Parsing.* What is accepted is one tree within the nesting limit, and nothing
  after it.
- *Search.* No superseded generated row is in an answer; an answer is what a
  reader of the query expects, the best of both catalogs; filters are literal;
  a query is refused only if it is wrong.
- *The two faces.* REST and MCP refuse the same calls and ask the same of the
  catalogs.

The hard behaviours are the interleaving of the control plane with a walk, of
the local writer with boot, of a failure at any step with a retry that depends
on a recorded fingerprint, of crash and restart with three files that move at
different times, of request timeouts with work that goes on regardless, of a merge that is
repeated over a catalog with rows of its own, and of a swap between the two
reads of one search.
`PROJECT.json` lists them one by one under `hazards`, each at its line.

## 2. Modules

| Module | Models |
|---|---|
| `Extremes` | least and greatest element of a finite set of numbers (item order, `COALESCE(MAX(..))`) |
| `Materialize` | one `materialize` call and the control plane it talks to |
| `MaterializeWindow` | the same with two history variables, and what a walk promises |
| `PackPublish` | one `publish_generated_pack` call |
| `CatalogRefresh` | `main` and its refresh task; composes `Materialize` and `PackPublish` |
| `ServedCatalog` | abstract specification: what the refresh promises, in versions only |
| `SessionCap` | `CappedSessionManager` with concurrent callers |
| `SymbolBuild` | the three passes of the offline build, and `extends` resolution |
| `RequestPath` | REST requests: permits, timeout, blocking jobs, mutexes, hot swap |
| `Words` | letters and words: blanks, case, runs of letters, containment |
| `SymbolText` | the parser `sexpr.rs` from tokens on, and the extraction `kicad.rs` |
| `GeneratedStore` | the packer's in-place merge and rebuild, `generated.rs`, `part_id.rs`, and the lookups; uses `SymbolText` to validate |
| `QueryText` | the rewriting of queries, as much of FTS5 as it relies on, LIKE |
| `Faces` | what REST handlers and MCP tools make of their arguments and of errors |
| `CatalogSearch` | one request that searches or browses, with swaps; composes `QueryText` and `Faces` |
| `MC*` | constants for TLC |
| `*Proofs` | the theorems of the module they are named after; `CatalogSearchProofs` begins with those of `QueryText` |

`CatalogRefresh` takes the two calls by `INSTANCE`. Their variables are its
variables; `Begin` of a call is taken by the step of `main` that makes it, and
`main` waits until the call is no longer `Busy`. `Crash` of the process is the
conjunction of the crash of both calls with that of the task. Without a
control plane (`Remote = FALSE`) the source is the ingestion database and its
writer commits at any moment.

How state and actions correspond to the code:

- A **file** is `[ver, whole, rows]`: the set of published revisions in it,
  whether its writer has committed it, and a number that counts the distinct
  contents the source has had (0: no file). `ver` is no state of the program;
  it lets the abstract specification speak of order. A pack carries the version
  of the source it was merged from.
- **`fetch`** and **`build`** are the program counters of the two calls, one
  value for each point between two of their effects. `FetchManifest`,
  `FetchItem`, `TurnPage`, `LastPage` are the page loop (CP 78-123); the three
  `Refuse...` actions its error returns; `Stage`, `Commit`, `Replace` the file
  (CP 124-178). `Copy`, `Merge`, `Verify`, `Promote` are PK 28-43, `Abandon`
  its cleanup. A merge fails if its source has an `Invalid` revision; it may
  panic if there is a `Fatal` one (`Unwind`; the order of the rows decides
  which comes first).
- **`pc`** is where `main`, then the refresh task, is. Each round is `Tick`,
  `Synced`, `Compare`, `Published`, `Reload` (MN 176-206). `...Fault` are the
  error branches. `MergePanics`: a panic at boot ends the process, and one in
  the refresh task ends the task, in silence, while the server goes on
  (`pc = "ended"`).
- **`fingerprint`** is `None` (`<<>>`) or the three aggregates of MN 216-229,
  computed from the rows and their `published_at`, with equality as their
  only use: the model finds the collisions the code has.
- A **control plane** publishes each revision once, withdraws up to
  `MaxWithdrawals`, and answers a page request with any run of at most
  `PageLimit` published revisions, in order, with a next cursor unless the page
  is the last. With `Misbehaves` it may also send an empty page that names a
  next cursor, or ignore the cursor: the two that CP 118-122 refuses.

In `SessionCap`, `call[c]` is where request `c` is: before the check, admitted
but not yet inserted, or initialising the session it inserted. That the check
and the insert are two steps is the `await` between the read lock of
`create_session`'s count and the write lock of the wrapped manager. `Timeout`
may strike at each of them, and leaves the session that the request has
inserted, if any, to the keep-alive. `known` are the sessions whose id reached
their client (`Initialized`): only such a client can lose its connection and
come back (`Drop`, `Resume`), so a session left by a timeout hears nothing any
more. `dropped` are the sessions that the keep-alive is counting down.

In `RequestPath`, `request[c]` is where the one request of client `c` is:
queued for a permit of its route, with the permit in the handler, or awaiting
the job it spawned. `queue` and `permits` are the semaphore of each route
(lib.rs:108: `Router::layer` wraps each route in a service of its own). `job`
is the blocking pool; a job waits for its connection's mutex, is inside it, or
has returned. A job outlives its request: `Timeout` gives the permit back and
leaves the job without an owner. Connections are numbered by generation: 0 is
the base catalog, `gen` the one behind `generated_conn`, advanced by `Swap`
(ST 136-145). What a query returns is reduced to the generation it was read
from; the `floor` of a request is the newest generation anyone had been
answered from when it was sent. A search locks the base connection, then takes
the generated connection of that moment (`SearchGenerated`, ST 89-108).
`Finish` inserts in the resolver's cache, which generated libraries go round
(resolver.rs:44). `Panic` and `QueryError` are the two ways in which a job
fails. The MCP face is not in the module: its tool calls run in tasks of rmcp
sessions, outside the timeout and the permits of the request that carried them.

In `SymbolBuild`, `parsed` is what the files gave: any set of symbols, each
extending nothing or some name. `Insert`, `Link` and `Backfill` are the three
passes of `pack/src/emit.rs`; a symbol stands for its row, and `parent`, `body`
and `count` are the columns of that row. `Starved` is the WHERE of the pass
that copies pin counts down. `Resolve` reads the columns as `CHAIN_CTE` and
`resolve_by_id` do; `Lineage` and `Expected` say from the files alone, without a
depth or a recursion, what it should find.

In `SymbolText` a text is the sequence of its tokens, a word the sequence of
its letters, where one letter may stand for several that nothing tells apart.
`Read` is one token of `parse`: `at.lists` are the frames of its recursion.
`Extract`, `Child`, `SubChild` are `extract_symbol` and `extract_sub_symbol`
with every early return; `"panic"` is a slice that begins past the end of its
list. `Wide` gives the letters outside ASCII and the letters that their UTF-8
bytes become in `parse_str`. Coordinates, fonts, strokes, the texts of pins are
left out, and four of the eight properties that validation compares:
`Reference`, `Datasheet`, `Description`, `Footprint` are compared just as
`Value` is.

In `GeneratedStore`, `source` is the ingestion database, whose triggers refuse
updates and deletes: the producer only adds `Offers`, each a whole row as it
might be written, well compiled or damaged. `file` is the catalog that the
packer changes in place (PM 202-226): `torn` is what may remain of a
transaction that is dropped under `journal_mode=OFF` (PM 202, `Dropped`: the
connection ends before the commit, and pages that the cache has written stay). `Begin` completes the
schema outside the transaction and reads the rows, `Skip`, `Insert`, `Fail` and
`Panic` take one row in the order of `published_at` and id, `Commit` makes
`work` the file. `Unlink`, `Built` are the top-level build as far as the store
sees it. A timestamp is a second and a fraction, compared as the text it is
(`TextBefore`). A lookup is the set of rows that `LIMIT 1` may return.

In `CatalogSearch`, `call` is what the client sends, `ask` what the face makes
of it (`Rest`, `Mcp`), `items` what the search has read, `answer` the result.
`SearchBase` and `MergeLive` / `MergeNone` are the two critical sections of
`search_catalogs` (ST 89-129), between which `Reload` may strike. A row's score
is a given number, as BM25's value is of no interest, its order is; ties are
broken in every way that the code leaves open. `QueryText` has FTS5's grammar
for phrases, parentheses, `AND`, `OR`, `NOT` and implicit `AND`, with the
tokenizer of the schema; quotes, column filters, prefixes and `NEAR` groups
are `Beyond` it and give any outcome. `Faces` is pure: a call's arguments are a
function, `Rest` and `Mcp` say for each tool which argument is refused first or
what is asked of which catalog.

## 3. Runs

| Run | Checks | Result |
|---|---|---|
| `materialize_walk` | `TypeOK`, `NothingMissed`, `NothingStale`, `ReplacedIsWindow`, `SourceWhole`, `WalkReturns` | pass |
| `refresh_remote` | `TypeOK`, `OnlyWholeMerges`, `RecordedMeansServed`, `ServesVersions`, `CommitsBecomeVisible` | pass |
| `refresh_hostile` | `OnlyWholeMerges`, `ServesVersions`, `BootCompletes` | pass |
| `refresh_local` | `OnlyWholeMerges`, `ServesVersions` | pass |
| `session_cap` | `TypeOK`, `BoundedOvershoot`, `LockoutIsByUse` | pass |
| `request_path` | `TypeOK`, `MonotoneReads`, `PanicsStayLocal`, `EveryRequestEnds` | pass |
| `symbol_build` | `TypeOK`, `ResolvesToOrigin`, `CountsInherited`, `CountsAgree`, `PassesWithinDepth` | pass |
| `generated_store` | `TypeOK`, `MergedWhole`, `ResolvesExactly`, `IdLeadsBack`, `ParsesOneTree`, `RevisionsImmutable`, `FailsForCause` | pass |
| `catalog_search` | `SupersededNeverLeaks`, `Complete`, `CompatibleLiteral`, `RefusedForCause`, `FacesAskAlike` | pass |
| `boot_publish_fault` | `CommitsBecomeVisible` | violated |
| `faces_differ` | `FacesAgree` | violated |
| `foreign_text` | `FailsForCause` | violated |

*Bounds.* `materialize_walk` has three revisions and pages of two, with one
withdrawal and a control plane that may page wrongly: the smallest instance in
which a publication and a withdrawal can fall on both sides of the cursor of a
walk that has turned a page. Faults and crashes are unbounded there. The
refresh runs have two or three revisions, pages of one (so that every walk
turns pages), one or two faults and one crash: a fault in the round after a
fault, and a crash in each phase, are both in. `refresh_remote` lets nothing
be withdrawn and no boot fault happen, because with either of them
`CommitsBecomeVisible` does not hold (below). `refresh_hostile` has one
revision baked into the image and one that validation rejects, so that a merge
really is refused; `refresh_local` has one that validation panics on as well.
`BootCompletes` is checked without such a revision, because with it a boot does
not complete (below). `session_cap` has three requests, one place and four
session ids: the overshoot can reach its bound of three sessions, and the
fourth id shows that the ids are not what stops it. `request_path` has two
clients, one permit for each route, two places in the pool, one swap and one
connection on which jobs may panic: one client queues behind the other, jobs
that were left behind keep a mutex or fill the pool while new requests come,
and a swap falls between any two steps. `symbol_build` has every set of up to
five symbols in two libraries that share a name, with a cap of three in place
of eight: chains of three rows resolve and need two rounds of copying, chains
of four are refused, and cycles go past the end of the query. It stops when the
build has ended, so deadlock is not checked there. The symmetry is over names
that only one library defines.
`generated_store` has two rows of some three hundred offers: eight good rows
that share a part, a name, a registry key or an instant, or differ in the
precision of their timestamps or in their status; one row with a maker outside
ASCII; a text with each token missing, doubled, wrapped in a list or cut off;
five rows with one wrong column. Two rows are what a relation between rows
needs; every repetition of a merge, a kill and a rebuild may come between them.
The catalogs it may find are an official one, an empty store, one from before
`symbol_text`, and one that contradicts the source. The nesting limit is 4 in
place of 1024, so that a text of the corpus is at the limit and its damages go past
it. `catalog_search` has five rows in the base, one of them generated and baked
in, two generated catalogs with a superseded, a second and an unpublished
revision, and some two hundred calls: queries with operators in words, counts
with and without zeros, blanks and underscores only, a hyphen; footprints with
the metacharacters of LIKE; arguments at and one byte past each cap.

*Fairness.* `WF(Step)` of a walk: each request has the client's timeouts (5 s
to connect, 30 s in all, CP 67-71) and the rest is local work, so a started
call goes on. `WF(Server)`: `main` is one sequential task that never waits for
anything without a timeout, its sleep ends, and a container that has died is
restarted (`restart: unless-stopped`,
`deploy/production/compose.yml:4`). `WF(Reap(s))`: `SESSION_KEEP_ALIVE` is
set, so the worker of a silent session ends after 60 s, unless its client
resumes it first. `WF(Timeout(c))` of `SessionCap`: the timeout layer is outside
`/mcp` too (lib.rs 102-107), so no request waits in `create_session` or
`initialize_session` for ever. `WF(Grant(c))`: tokio's semaphore serves its
waiters in order, and `WF(Timeout(c))`: a timer fires once it is due; nothing
is assumed of the jobs or of the mutexes. Faults, crashes, the control plane, the
writer and the clients are never obliged to do anything. Faults are finite in
the refresh runs: that is what "transient" means, and a fault that lasts for
ever defeats `CommitsBecomeVisible` trivially. `BootCompletes` does not depend
on it: a failed call ends too.

*What they show.* A walk has window semantics, not snapshot semantics: it
promises every revision that was published throughout it and none that was
never published during it, and nothing stronger. A torn file is never the
cache, and never the pack. The served version is never ahead of the pack on
disk nor the pack of the source, through hot swaps and restarts; a restarted
server may come up with the official catalog alone, when the pack cannot be
opened. A cap of `m` sessions with `n` concurrent requests is passed by fewer
than `n`, and it is never held for ever by sessions whose client is gone or was
never told their id: if the map stays full, every session that is not given up
belongs to a client that knows it and keeps coming back (`LockoutIsByUse`; the
clients that do are free to hold the cap, which the code accepts). Through timeouts, panics and swaps an answer that reads generated
rows is never older than an answer given to anyone before its request was
sent; a request ends even when every mutex it needs is held for ever, because
the timeout returns its permit and leaves its job behind. The build ends, on
cyclic input too, after no more rounds than the longest chain has rows; no
chain is cut short in silence; a child whose parent is missing resolves to an
empty body, and only the build log says so. A merge into the store that reports
success has every row it read; one that fails leaves a whole file as it was, or
a torn one that nothing may open; repeating it changes nothing. The parser
accepts exactly the texts that are one tree within the limit. Where names and
instants are not shared, all lookups agree. A swap between the two reads of a
search never brings rows of the image or of two catalogs together. The
rewriting never makes a valid query invalid, `+` aside.

## 4. Where the code and its documentation differ

Each of these is a run whose counterexample TLC prints.

1. `boot_publish_fault`. The refresh task records the source's fingerprint
   when it starts (MN 175), whether or not the publish or the open at boot
   succeeded (MN 131-147). If it failed, all later rounds see an unchanged
   source and skip it: revisions that are in the source are not served until
   the source changes again. `docs/deployment.md` says that generated commits
   become visible without rebuilding the image.
   The same line takes a commit of a local writer between the initial publish
   (MN 133) and this first fingerprint for published; that has no run here.
2. `faces_differ`. REST's part-offer-query reads a generated library from the
   base catalog (`rest/search.rs:191`), MCP's from the live one
   (`mcp/server.rs:319`). After a client has been shown a symbol of the live
   catalog, REST answers about it from the image. `README.md:8` calls REST
   "the same queries".
3. `foreign_text`. `parse_str` pushes each byte of a quoted string as a letter
   (SX 110), so text outside ASCII is not the text that was written. Validation
   compares the properties it reads with the columns of the row (GS 190-197):
   a maker with an umlaut, or a description with a micro sign, is refused, and
   one refused row fails the merge. `part_id.rs:9-11` and its test at 132-135 take such makers for
   granted.

Observations without a run of their own:

- A nested `(symbol)` without a name, or a `(text)` without content, panics in
  validation (KI 205, 365). At boot the process dies with it, before it gets to
  the pack that it has, and again after each restart, because the source is
  cached; in the refresh task the task ends and nothing is said
  (`MergePanics`). `docs/deployment.md:40-42` promises the last good pack.
- Two sources can have one fingerprint (MN 216-229: a count and two maxima). A
  walk that began before revision 1 was published, and had turned its page, sees {2, 3};
  if 2 is then withdrawn the next sees {1, 3}: revision 1 stays invisible.
- The generated pack starts as a copy of the official catalog (PK 28) and the
  merge deletes nothing, so a generated revision that is baked into the image
  and has since been withdrawn is in every pack. ST 80-82 says that stale image
  state cannot leak in that mode; that is so of the base catalog
  (`SupersededNeverLeaks`), but not of the pack.
- The limit of lib.rs:36-38 is "across the whole service"; as it is applied
  (lib.rs:108) each route has its own, outside the timeout, so a request
  without a permit waits rather than being refused.
- `search_catalogs` asks the base for `limit` rows and drops the generated
  ones after that, and drops repetitions of one symbol after the limit of each
  catalog (ST 88-129): official matches behind them are lost. `Complete` says so in its
  precondition.
- FTS5 knows the phrase `a + b`, `has_fts5_syntax` does not: the rewritten query is
  refused. A hyphenated query is refused by FTS5 itself, also the documented
  example "I2C low-power" (`mcp/server.rs:98`).
- `split_symbol_id` splits at the first colon, so the id `generated:ti:LM` of
  `resolve_by_mpn` is read as a symbol of the library `generated`.
- A catalog from before `symbol_text` gets the column with empty text (GS 79);
  the same revision, merged again, is then refused as another body (GN 174).
- Timestamps are compared as text: within one second, one without a fraction
  sorts after one with it. Two parts whose fields contain `|` can share a key
  (`part_id.rs:77`); the second is not found.
- `README.md:121` documents `GET /v1/generated/provenance?lib=&name=`; the
  route is `/v1/generated/{lib}/{name}/provenance`. MCP's provenance trims its
  arguments, REST's does not.

## 5. Proofs

Every theorem holds for all values of the constants under the module's
assumptions, which TLC evaluates on the instances of section 3:

- `RevisionsAssumption`, `RefreshAssumption`: revision ids are positive numbers,
  finitely many, those that are baked, invalid or fatal among them.
- `CapAssumption`, `RequestAssumption`: finitely many callers and clients, at
  least one permit.
- `BuildAssumption`: finitely many symbols; NULL is no symbol, no name and no
  number of pins.
- `TextAssumption`, `StoreAssumption`: a natural nesting limit; an offer's text
  is a sequence of tokens and has a timestamp; the catalogs that are found keep their
  own keys, hold rows of generated libraries, and each body is that of its text.
- `CompiledAssumption`: of one revision the compiler writes one row; it writes
  part ids that are normalised already; an offer that validates says what a
  compiled one says; each word a client types stands for the part it spells.
- `CatalogsAssumption`, `CallsAssumption`: catalogs are finite, each row is
  official or generated, its symbol has a place in the order of libraries and
  names, its four columns and its footprints are words, and no two official rows
  are of one symbol (`UNIQUE(lib_id, name)` of the schema); a call names a tool,
  its arguments have the types of its schema, and a search has a query
  (`SearchParams.q` and `SearchArgs.query` are required).
- `LettersAssumption`: letters that have a lower-case one are alphanumeric, and
  so is that one, which has none itself; `X` is upper case, `x` and the digits
  are not.

| Module | Theorem | Property |
|---|---|---|
| `MaterializeProofs` | `WalkMissesNothing`, `WalkFetchesNothingStale` | `NothingMissed`, `NothingStale` |
| `MaterializeProofs` | `ReplacesWithWindow`, `CacheIsWhole` | `ReplacedIsWindow`, `SourceWhole` |
| `MaterializeProofs` | `WalkTypes` | `TypeOK` |
| `CatalogRefreshProofs` | `TypesHold` | `TypeOK` |
| `CatalogRefreshProofs` | `PacksAreWholeMerges` | `OnlyWholeMerges` |
| `CatalogRefreshProofs` | `VersionsInOrder` | `live.ver <= pack.ver <= source.ver` |
| `CatalogRefreshProofs` | `Implements` | `ServesVersions` (refinement of `ServedCatalog`) |
| `CatalogRefreshProofs` | `RecordsVouch` (if `Reliable`) | `RecordedMeansServed` |
| `SessionCapProofs` | `OvershootIsBounded`, `SessionTypes` | `BoundedOvershoot`, `TypeOK` |
| `SymbolBuildProofs` | `CountsComeFromLineage`, `BuildTypes` | `CountsInherited`, `TypeOK` |
| `SymbolBuildProofs` | `PassesAreBounded` | `PassesWithinDepth` |
| `SymbolBuildProofs` | `ResolutionIsExact`, `CountsAreResolved` | `ResolvesToOrigin`, `CountsAgree` |
| `RequestPathProofs` | `ReadsAreMonotone`, `PanicsAreLocal` | `MonotoneReads`, `PanicsStayLocal` |
| `RequestPathProofs` | `PathTypes`, `PermitsConserved` | `TypeOK`; free and held permits add up to the limit |
| `GeneratedStoreProofs` | `StoreTypes`, `MergesAreWhole` | `TypeOK`, `MergedWhole` |
| `GeneratedStoreProofs` | `RevisionsNeverChange`, `IdsLeadBack` | `RevisionsImmutable`, `IdLeadsBack` |
| `GeneratedStoreProofs` | `PartsResolve` | `ResolvesExactly` |
| `GeneratedStoreProofs` | `AcceptsTrees`, `ParserAcceptsTrees` | what `parse` accepts; `ParsesOneTree` |
| `GeneratedStoreProofs` | `MergesFailForCause`, `PanicsNeedBareLists` | a row to blame for each error, a bare list for each panic |
| `GeneratedStoreProofs` | `MergesAreUnions` | `Merged` and `Mergeable` of `PackPublish` |
| `GeneratedStoreProofs` | `FailuresHaveCause` (if `CompiledValidate`) | `FailsForCause` |
| `CatalogSearchProofs` | `NothingSupersededLeaks` | `SupersededNeverLeaks` |
| `CatalogSearchProofs` | `FacesAgree` | `FacesAskAlike` |
| `CatalogSearchProofs` | `RewritingRefusesNothing` | what is rewritten parses if and only if it did before |
| `CatalogSearchProofs` | `PlainMatchesMeant` | a rewritten plain query matches the rows it means |
| `CatalogSearchProofs` | `EscapeIsLiteral` | `LIKE` finds an escaped word where the word is |
| `CatalogSearchProofs` | `AnswersAreComplete` (if `OneScore`) | `Complete` |
| `CatalogSearchProofs` | `CompatiblesAreLiteral` | `CompatibleLiteral` |
| `CatalogSearchProofs` | `RefusalsHaveCause` | `RefusedForCause` |

*Induction.* The library states induction for an operator, which no installed
prover can instantiate. `ExtremesProofs` proves it for sets instead: a set of
naturals has a least element (`LeastExists`), so a set that holds 0 and with
each number the next holds them all (`Induction`). With it a function that is
written by recursion over the naturals, as `Readings` of the parser, the loops
of the extraction, `Pieces`, `JoinTerms`, `ReadAll`, `Replace` and `LikeFrom` are,
can be shown to exist and to do what its equations say. That is why these are
functions and no folds of the community modules, whose operator a proof could not
look into.

*The walk.* `WindowInv` joins the type invariant with `NothingMissed`,
`NothingStale`, `SourceWhole` and what each stage of the file owes: it is inductive, and
`ReplacedIsWindow` is one of its consequences. The induction rests on
`ReplyCovers`: whatever page is read, a revision published at that moment
between the cursor and the page's next cursor (or anywhere ahead, when there is
none) is on the page; a page that only repeats the cursor covers nothing new,
and an empty one is refused.

*The refresh.* `OnlyWholeMerges` is not inductive: the hot swap opens the pack
without looking at the source, and a new version of the source must not make an
old pack claim it. `SafeCatalog` strengthens it with the type invariant and
`InOrder`: the served version is at most the pack's, the pack's at most the
source's, a temporary file that has been merged lies between pack and source
and is a merge of its version, and a staging file about to be renamed carries
the version its rows deserve. Versions never come back with other rows
(`VersionOf`), so `MergeLasts` carries every merge over a step of the source.
`Implements` maps initial states to initial states and, with `SafeCatalog`,
every step to a step of `ServedCatalog` or a stutter.

`RecordedMeansServed` is not true of all instances: fingerprints collide once
something is withdrawn, and a fault at boot leaves a fingerprint of what was
never published (section 4). `RecordsVouch` proves it where neither can happen
(`Reliable`: a control plane that withdraws nothing and sends nothing invalid,
and a boot without faults; every other fault, crash, panic and wrong page
remains). `NeverLoses` shows that the cache then only grows, since a walk has
fetched every row the cache held before it turns past it; so the row count
tells two sources apart. `Vouched` follows the pair of fingerprint and pack
through the round: from the moment of a successful publish, the pack has every
row of the source that the next record will stand for.

*The cap.* `BoundedOvershoot` counts requests admitted but not yet inserted
along with the sessions; that is what makes it inductive. An admission needs
room, so when it happens the admitted requests are fewer than the callers.
`TypeOK` says who answers for each session: a request that is initialising it,
and only one, or a client that knows its id, or the keep-alive. That a timeout
hands its session over, and that a removed id is forgotten before it may stand
for a new session, is what `SessionTypes` has to show of each step.

*The requests.* `MonotoneReads` speaks of answers that are ready; `ReadInv`
carries it back to the moment a request is sent. Nothing that was ever answered
is newer than `gen` (`served <= gen`), so a job of a generated library, which
takes `gen` after its request was sent, starts at or above the request's floor;
a search starts at 0 and takes `gen` later, unless `gen` is still 0 and so is
every floor. A job keeps what it took, and a request's floor does not change
while the job has an owner. The cache never holds a generated library
(`Caches`), so it cannot bring an older generation back. The theorem assumes
that nobody sends "offer" requests: with them it is false (4 above).
`PermitsConserved` says that for each route the free permits and the requests
that hold one add up to the limit. It needs to know of the queue that nobody is
in it twice and that exactly the clients whose request waits are in it: else
a client that hangs up could leave a place behind that is granted to nobody
(`HangUp` takes it out at its `Place`). `TypeOK` says this of the queue
(`Queued`), so `PathTypes` proves it.

*The build.* A count that is not 0 is the count of the symbol's own pins or a
copy of its parent's, and a parent's lineage is part of its child's
(`LineageStep`), so it comes from the lineage (`CountsFounded`). When the build
commits, the rows without a count are closed under `extends`, so all of their
lineage is among them (`LineageLeast`). Lineages are smallest closed sets, which
is what spares that proof an induction and covers cycles. The bound on the
rounds of copying is a count: a row that still waits for its number after some
rounds has more ancestors with a number (`Fed`) than there were rounds, since a round
feeds its parent before it feeds the row, and `Fed` never shrinks (`CountInv`). For
resolution, the rows that n steps of the recursive query reach are the n-fold
parents (`ChainExists`, by `Induction`; `ChainSteps`); such a chain either ends, at the only
row of the lineage that extends nothing (`ChainEnds`), or goes past the limit
(`ChainGoesOn`). A chain that ends has the
body of its origin and, by `CountsInherited`, the origin's count.

*The store.* `MergedWhole` speaks of a merge that has ended. `Ahead` carries it
back through the transaction: `work` keeps every row of the file, and its part,
and has a row for each row of the source that is no longer in `todo`. A row
enters `work` only under a revision id that it does not have, so keys stay keys
(`WithRowAdds`); a repetition has the same body and text, and a body has as
many pins as validation counted (`PreparedRow`). Here the parser stays a black box:
these theorems hold of any other. `IdsLeadBack` needs `TypeOK`, that all rows are
of generated libraries, and that text order decides between two instants
(`TextOrder`): the newest row of a part is the only newest row of its name, where the
name is not shared. `PartsResolve` adds `FromCompiled`: each row of the catalog
says what the compiler wrote for its revision, and its part is the normal form
of what the producer spelt; with `MergedWhole`, the published rows of a part in
the catalog are those of the source. `MergesFailForCause` blames a row: while a
merge runs, the row it fails on is one it read, and is either refused by
validation or has its revision id in the catalog already, from before the merge
or from an earlier row of it, with other content. `MergesAreUnions` ties this
module to `PackPublish`, which takes a merge for one step: from `Begin` to
`Commit` the revisions of the source as `Begin` found it, all of them valid
(`Validated`), are added to those of the file, and no other (`Accounted`).

*The parser.* While it has not failed, the stack of its open lists is as deep as the
parentheses that are open (`Level`), never deeper than the limit allows, and
empty only before the first token and after the root has closed (`InOrder`);
once it has failed, the text is no tree (`ReadRight`, carried over each token by
`ReadsOn`). `ReadingsAre` gives the equations of the readings by `Induction`,
and `AcceptsTrees` looks at the last of them.

*The panics.* Whatever the parser builds is made of the text: each element of an
open list is the leaf of a token or a list that a token closed, and the
innermost list is empty only just after its parenthesis and holds one atom only
just after that (`Frames`, `FramesOn`). So a list that has the atom `symbol` or
`text` and no more is spelled out in the text as it stands (`ListNodes`). The
extraction makes an error a panic at such a list and nowhere else: that is shown of one
step of each of its three loops (`SubChildIsCalm`, `ChildIsCalm`, `SymbolIsCalm`),
and `StepsAreCalm` carries it through a loop by `Induction`. Then
`FailuresHaveCause` is `FailsForCause`, except that it takes for granted that what the
compiler writes validates (`CompiledValidate`): the compiler is not in this
repository (it belongs to tokito-catalog, schema.sql:76), and the rows of
`generated_store` meet the hypothesis. The foreign row of `foreign_text` (4 above) does
not, and `FailsForCause` is violated there.

*The search.* What `search_catalogs` has after its first read are visible rows
of the base (`Items`). A merge with a live catalog keeps the official ones
only, and the catalog it then reads is in `seen` (`Lives`), whatever was
swapped since. ORDER BY, LIMIT and the dedup only choose among rows
(`MergedChooses`), so scores, queries and FTS5 do not enter that proof.
For `Complete` they do. A selection of `limit` rows *spans* what it is chosen
from: each row that is left out is no better than `limit` symbols that are kept
(`Spans`). Spanning survives the union with what the other catalog
gave, the dropping of the base's generated rows if there are none among those
that compete, and the dedup if a symbol has one row in each catalog, or if no row
was left out (`BaseSpans`, `MergedSpans`); and what LIMIT takes of a set that spans all
rows is the best of all (`SelectionIsBest`). That what is searched for is what the
query means is `PlainMatchesMeant` below. The theorem's one hypothesis is about
SQLite: `OneScore`, that a pack scores its official rows as the base does; it is true
of the instance that `catalog_search` checks. It is an abstraction: BM25 depends
on all rows of an index, so with a generated catalog of some size its order of
official rows may differ from the base's, and the answer's order with it.
That proof corrected the precondition of `Complete`: a pack's official rows
compete for its limit as well, so all rows of it that match have to fit, or to be
symbols of their own, not only the generated ones.

*A query.* `normalize_query` writes a text that FTS5 reads again: it takes a query
apart at blanks and underscores, puts `AND` between the terms, and makes of a count a
group of two alternatives. Is that text always one expression, and does it mean what
was asked? The proof follows three functions. `Pieces` splits a word: a piece is
one letter that stands apart, or letters none of which does (`Shaped`), and if one of two
words ends or begins with such a letter the pieces of both together are those of
the one and of the other (`PiecesJoin`). Hence the lexemes of the text that
`JoinTerms` builds are those of the terms with `AND` between them. `ReadAll` reads lexemes with
a stack of open expressions; what one lexeme does to it depends on its kind only
(`ReadWord`, `ReadOpen`, ...), so a rewritten term, read where an expression may start,
leaves one phrase, or one group, that is true of a row if the term is found in it
(`ReadNormalized`), and terms joined by `AND` are found together (`MatchOfTerms`).

A query that is not passed through either consists of letters, digits, blanks and
underscores, and then both it and its rewriting are accepted (`PlainIsAccepted`,
`MatchOfTerms`), or it has a letter that FTS5 knows no lexeme for, such as a hyphen; that
letter survives the rewriting, and FTS5 refuses both (`StrayIsRefused`, `StrayStays`).
That is `RewritingRefusesNothing`. Left out are queries with column filters, quotes,
prefixes and `NEAR` groups (`Beyond`), which are passed through as they are but may
then be accepted or not, and those with a `+` (4 above). The step to
`RefusedForCause` is an invariant: a request goes on to merge, or is answered, only if
its query was accepted, and is refused only if it was not (`Judged`).

For a plain query (letters, digits, blanks and underscores, no operator) the text also has the
meaning that `Meant` gives it without any rewriting. A term is found in a
row if its one token is; and a count is found as it is written or padded to five
letters, which are the tokens with the same two numbers (`CountsAre`,
`NumberOf`, `SameCountIs`). `FoundIsMeant` joins both: `PlainMatchesMeant`. All of
this is about `QueryText`'s model of FTS5, which is external; what is proved is
that the rewriting is right for a reader with that grammar and that tokenizer.

*A pattern.* `find_compatible` puts the footprint a client asks for between two
`%`. `escape_like` replaces in the whole word three times; letter by letter
(`EscapeOneMore`) that is a backslash before each of the three letters that LIKE
reads specially, and nothing else (`EscapeIsLaid`): had the backslash come last, it
would bar the bars. `LikeFrom` reads a pattern from its end and gives the places of
a text from which the rest of it matches; of an escaped word these are the places
where the word's letters are, upper case or lower (`EscapedMatches`). So the
pattern matches where the word is contained (`EscapeIsLiteral`), for all words and
texts. What is left is that LIMIT on rows of different symbols takes the best
of them (`FirstIsBest`); official rows are of different symbols by the schema.

*The faces.* REST and MCP check the same arguments, and in the same order where
two can be wrong at once; they differ in which of them trims. For the tools
that both have, `FacesAgree` goes through them one by one.

The proofs also made the modules say more exactly what they meant. Guards of a
`CASE` that can hold at once have no order in TLA+, though TLC takes the first:
where the code has an order, there is now an `IF`. An order of symbols must have a
place for each row; an offer's text must be tokens and nothing else; a NULL
that could be a number of pins made a filter on 0 ambiguous. A search must have a
query, or it would be for any value at all, and the columns of a row must be words.

Only model-checked, on the instances above: the liveness properties
`WalkReturns`, `CommitsBecomeVisible`, `BootCompletes`, `LockoutIsByUse`,
`EveryRequestEnds`: liveness under fairness and `ENABLED` are out of the reach
of TLAPS 1.4.5. So are `RECURSIVE` operators; none of these modules declares one.

## 6. What is not modelled, and the plan

Left out for good: parsing of the command line and start-up checks (they end
the process before any state exists), logging, TLS and HTTP framing, SQLite's
own storage and its ranking, `report.rs` (statistics), Windows' two-rename
replace, the wording of procurement queries and the distributors of a market,
the JSON of answers. `generated::sync_from` (GN 242-443) is called by tests
only. `list_libraries` counts official symbols only; its counts are not modelled.
Cursors that cycle through more than one page are not detected by CP 119 and
are no behaviour of the modelled control plane. MCP tool calls are not in
`RequestPath`: they run in tasks of rmcp sessions, whose scheduling is not in
this repository.

Next: the columns of `pack/src/emit.rs` other than pin counts.
