# Verification of CCiteheck

CCiteheck checks the legal citations of a Word document: it recognises them,
looks the cited provisions and cases up in several sources, compares what was
found with what is claimed, and shows the findings in a task pane of Word.
This directory holds TLA+ models of it, the TLC runs that check them and proofs
for TLAPS. Paths below are relative to the repository.

## 1. Inventory

The life of a citation is RawClaim → SearchHypothesis → RetrievalEvidence →
VerificationResult → Word output.

| component | code | state it keeps | what is hard |
|---|---|---|---|
| claim run | `src/ccitecheck/orchestration/scheduler.py` `_verify_claim`, `domain/runs.py`, `orchestration/policies/retrieval.py` | VerificationRun: state, histories, counters; attempted targets; offered titles | nested loops over identities, sources and retries that share budgets; a repair plan; rebuilt hypotheses that repeat earlier ones |
| Pkulaw client | `retrieval/sources/pkulaw/client.py` | probe flag, three locks, circuit breaker; a pool of one connection for the whole process | threads of a document call it at once; flags read outside locks; which failures pause the others |
| Pkulaw cache | `retrieval/sources/pkulaw/cache.py` | SQLite rows with status and `verified_at`; a miss lock | revalidation with a remote call between two statements; outages extend rows; a refresh that holds a transaction |
| check stream | `apps/api/app.py` | a thread-pool job and an open response per check | keep-alives; what a job raises; jobs that outlive their connection |
| task pane | `apps/word_addin/assets` | current result, cards, `localStorage` history, snapshots and decisions | everything awaits, and the user goes on clicking |
| document pipeline | `scheduler.py` `verify_document` and below | items, shared lookup results, judgments, repairs | stages that read and rewrite results shared by several items |
| lookup chain | `orchestration/policies/retrieval.py` `lookup_with_chain` | best partial result, local result without a link | order of sources, discarded links |
| nested dependencies | `orchestration/policies/nested.py`, `verification/statutes/nested.py` | relation status of items | cascades along parents |
| cases | `orchestration/cases.py`, `verification/cases` | for each citation the records of its routes, the record taken, the candidates shown | exact queries, a supplement and a search by meaning, any of which may fail; records that share a number |
| query construction | `query_construction/` | none between calls, but a document context of earlier titles | which identities and which route a claim gets |
| Ansvar | `retrieval/sources/ansvar` | OAuth tokens in memory and in a file of all documents, MCP session, names of tools, SQLite cache | tokens, session and cache shared by threads, partly without locks; which errors mean that there is no law |
| EUR-Lex, local laws | `retrieval/sources/eurlex`, `local_laws.py`, `infrastructure/database.py` | none | parsing and queries |
| Pkulaw statutes | `retrieval/sources/pkulaw/statutes.py`, `corpus.py` | none | order of searches in one lookup |
| parsing | `parsing/`, `application/check_document.py` | none; a document becomes blocks, anchors, relations and chunks | positions that five passes must agree on; a validator that refuses the document |
| recognition | `recognition/`, `domain/citation_integrity.py` | none; records of the statutes each block names | statutes inherited along relations, candidates that overlap, an integrity check that refuses the document |
| verification | `verification/` | none | order of deterministic rules; the language model |
| HTTP helper | `infrastructure/http.py` | shared client | retries against a deadline |
| output, domain | `output/`, `domain/` | none | counts, validation |

How they interact: the task pane posts the document and waits for the stream;
the API runs the pipeline in a thread of a pool; the pipeline starts threads of
its own, which call the sources; all threads of a document share one Pkulaw
client, its cache object and one Ansvar client; all documents share the cache
file, the token file and the one-connection pool.

What makes them correct, in the order of importance for a user:

1. no provision is called missing, or current, on the strength of a stale row
   or of a source that failed (cache, client, claim run);
2. every check that is started comes to an end and says why it ended;
3. paid sources are asked no more than the budgets allow;
4. what the user accepted is recorded for the document it was accepted in;
5. results that several citations share are not changed under one of them;
6. what the document cites is recognised, attributed to the statute it names, and
   no ordinary way of writing makes the document unreadable.

## 2. Modules

| module | stands for | is used by |
|---|---|---|
| `RunLifecycle` | the states of a run and the table of transitions | `ClaimRun` |
| `ClaimRun` | `_verify_claim` | `MCClaimRun`, `ClaimRunProofs` |
| `PkulawCaller` | what a document promises Pkulaw: one caller, one call after the other | `PkulawClient` |
| `PkulawClient` | one call in each of several threads, for several clients; implements `PkulawCaller` | `MCPkulawClient`, `LookupProofs` |
| `PkulawCache` | lookups in several threads, refresh, clear and the passing of days | `MCPkulawCache`, `PkulawCacheProofs` |
| `PkulawStatutes` | the routes by which `PkulawFallbackSource.lookup` looks for one statute | `StatuteLookup` |
| `StatuteLookup` | `lookup_with_chain`: the local library, then Pkulaw | `MCStatuteLookup`, `LookupProofs` |
| `DocumentCheck` | `verify_document` for the statutes of a document | `MCDocumentCheck`, `DocumentCheckProofs` |
| `CaseCheck` | `verify_case_claims` for the cases of a document | `MCCaseCheck`, `CaseCheckProofs` |
| `AnsvarAuth` | bearer tokens, their file and their refresh | `AnsvarClient` |
| `AnsvarClient` | session, tools and requests of the MCP client | `AnsvarSource` |
| `AnsvarSource` | lookups in several threads over the cache | `MCAnsvar`, `AnsvarProofs` |
| `Ordering` | sorting, by rank | `Sentences`, `Citations` |
| `Sentences` | `split_sentences` | `DocumentParsing` |
| `DocumentParsing` | from the body of a DOCX to validated blocks, anchors and chunks | `ClaimRecognition` |
| `Citations` | what a text cites, where, and whether that is intact | `ClaimRecognition`, `CitationProofs` |
| `ClaimRecognition` | from anchors to validated claims, composed with the parsing | `MCReading`, `WordProofs` (with `CitationProofs`) |
| `CheckStream` | executor and stream | `TaskPane` |
| `TaskPane` | the script of the task pane, composed with the stream | `MCTaskPane`, `WordProofs` |

### RunLifecycle and ClaimRun

`RunLifecycle` is the table of `domain/runs.py`. In `ClaimRun`,
`state` is `run.state`, `pc` the place in the loops of `_verify_claim`,
`todo` the identities of the round not yet reached, `src` and `tries` the loop
over the source plan and that of `run_with_technical_retries`. The histories
are kept by their lengths (`hypLen`, `evidenceLen`, `verifiedLen`), the counters
as they are. Titles are normalised title keys; a hypothesis is what the
scheduler reads of it, and `target_key` is the triple `Target`. What a source
answers, which titles it offers, how the comparison judges and what the repair
planner proposes are choices; that the planner proposes only what
`_plan_repair` lets through is its guard.

`MoveTo` leaves the run in `raised` when the table of transitions does not have
the step: the `ValueError` is a state and `NeverRaises` says it is not reached.

### PkulawClient

Each thread makes one call on behalf of its client (its document). The steps of
a thread are the lines between which another thread may run: reading
`_initial_probe`, entering the probe lock, checking the circuit, waiting for the
request lock, checking again, connecting, and each attempt's end. `conn` is the
holder of the process's only connection. A pause ends at any time (`Expire`).

`PkulawCaller` is the abstract specification: a caller begins a call, posts it, backs
off and posts it again up to `MaxPosts` times, ends it, and may pause then; it knows no
threads, no probe and no locks. The mapping is `Phase`, `Posts`, `Pausing` and `Line`:
the caller of a document is where the thread is that holds its request lock, and free
when nobody does; it pauses while the circuit is open, and the line is the connection.
`LooksLikeOneCaller` says that every step of the threads is a step of the callers or
none. It fails if a thread lets go of the request lock between two attempts, does not
count one, or opens the circuit after a failure in which nothing was sent.

### PkulawCache

One row per key, with its status, `verified_at` in days and whether its payload can be
served (`Serves` covers the three checks of the code: article and title match, repealed laws
have dates). `seen` and `failed` are history variables: the day Pkulaw last confirmed the
row's status and the day a revalidation last failed, and never earlier than the row itself;
`missed` is the day of the last revalidation that was answered and found nothing, which
extends a row as an outage does. A lookup steps through select, remote call, update, second
select, delete and store, with every other thread in between; kinds behind `_miss_lock` hold
it from the first to the last. `cache_refresh` reads rows once, works on each and keeps its
deletions in an open transaction (`purged`) which locks writers out until the next commit.

### PkulawStatutes and StatuteLookup

`route` is the call that comes next in `_lookup_article` or
`_lookup_without_article`, `shape` the title of the loop around it, and
`exactAbsent`, `itemAbsent`, `signal` and `status` are the code's locals and what
it writes into its trace. What Pkulaw really holds is a constant `world`: the
title shapes it knows the law under, whether it also has it under a canonical
title, and whether the law has the article. Answers agree with the world, or
fail; without that, "not found" could not be called true or false.

`StatuteLookup` composes these routes with the loop over the sources. `ask` is
the kind of request: a numbered article, a query text (`_lookup_related_with_chain`),
the context alone, or the existence of a law. A result is its status, the kind of its
link and the version and law of its text. The last value of the loop's four remembered
results is what `Best` computes, since the chain of a mainland statute has these
two sources.

### DocumentCheck

`stage` and `at` say which of the passes of `verify_document` runs and which item
it has come to; an action is what one pass does with one item, and `Pass` is what
it does with an item that one of its early returns skips.

| stage | action | code in `scheduler.py` unless named |
|---|---|---|
| lookups | `RunLookup` | `_run_lookups`, `_run_structure_lookups`: one lookup per `lookup_key` |
| relations | `RelateItem` | `verification/statutes/nested.py` `resolve_nested_relations` |
| locations, relocations | `LocateItem` | `resolve_location_for_item`, with `retry_only` the second time |
| repairs | `RepairItem` | `_run_repair_plans` |
| judgments | `JudgeItem` | `judge_item` with `assess_statute`, `_assess_item_location`, `_verified_repair_finding` |
| successors | `SucceedItem` | `_resolve_repealed_successors` |
| dependencies | `FinalizeItem` | `orchestration/policies/nested.py` `finalize_nested_dependencies` |
| applications | `CompareItem` | `_run_application_checks` |
| fidelity | `MergeItem` | `_merge_fidelity_reviews` |
| outcomes | `BuildResult` | `_build_statute_results`, `_statute_outcome` |

`lookup` is `lookup_results`; of an answer it keeps the status, what is said against
the law's validity, the flags of the trace that later stages read, and the confirmed
absences among the attempts, which repairs extend for every item of the key.
`correction` is where `correction_evidence` comes from, `verified` is
`repair_verified`, `mistake` the difference between the cited and the located place,
`triage` the verdict of `fidelity_triage`, `findings` are the `judgments` by code, risk
and whether they carry a `resolved_locator`. `opinions` is a history variable: what
the model said of a claim before any of it was dropped or routed.

What Pkulaw, the texts and the model answer is a choice among the answers the code can tell
apart. The pools inside a pass are taken in document order: their workers write to the item
or the key they were given, and what they return is stored by the caller in order. Merging
equal results for display (`_aggregate_duplicate_statute_results`) and the case results are
left out. `article_not_found` is never of high risk in the model: `_missing_article_finding`
makes it so when a trace has `full_text_complete`, which no source sets to true.

### CheckStream and TaskPane

`job` is the future in the pool of `MaxWorkers` threads, `stream` the response.
The keep-alive changes nothing but the bytes sent and is not a step;
`LooksPending` is what the loop cannot tell from a job that still runs. In
`TaskPane`, `check` is the `runCheck` or `runSelectionCheck` in progress, `last`
is `lastResult` and `lastCheckMode`, `list` the rendered cards with their
buttons, and `writings` the revisions being awaited, before and after
`saveDecision`. `decisions`, `history` and `snapshots` are `localStorage`; they
survive `Reload`.

### CaseCheck

Every citation has its own lookup (`pc`), in any order with the others, as in the pool of
`verify_case_claims`; when all are over, `Compare` takes them one by one in the order of the
document. Before candidates are shown, `Distinct` folds them as `_unique_records` does: one
record for each gid or url, and among those that have neither one for each number and title,
or for each title and court without a number; then `Cut` keeps `MaxShown`. Which of several
equal ones stays is open. `exact` and `semantic` are the records of the two routes, `found`
is the record of the evidence, `shown` are the candidates.

A citation and a record carry what the comparisons tell apart: number, name,
court, kind of document, and which names and parties a title mentions; two
fields are equal here when the code's normalised forms are. Pkulaw answers any
set of at most `MaxAnswer` records of `Library`, or fails. `Pool`, `Best` and
`Contradict` are the three questions of `_resolve_duplicate_number_records`, and
`ByName` lists the four ways to be sure by a name in their order.
`SupplementFails` and `DocumentFails` model what line 174 does to the caller.

### AnsvarAuth, AnsvarClient, AnsvarSource

One thread makes lookups of one citation for its document. Documents have their own client
(`mem`, `session`, `tools`, three locks) and share `file`, the token file, and `cache`, the
SQLite file. `config` is how the program is set up: `auth` is a fixed token, a service
account or the login of the user, `doc` the document of each thread, `stateful` whether the
gateway keeps sessions, `confusing` whether other errors may speak of a session or a 404
too, `discovers` whether the tools are asked for or named by the environment, `cached`
whether there is a cache, `warm` whether the client has its session and tools at the start,
`saved` whether a token file is there, and `asks` what is looked for.

The steps are the code between two places where another thread may be in between: a lock, a
request, and the two halves of writing the token file, which is empty after it has been
opened (`Torn`). `expire_access_token` and the loss of a session take no lock, so their
assignments are steps of their own. A token is a name, and a name that no copy, thread or
file holds any more is given out again; when none is left (`NameLeft`), the server issues
nothing. The server may let a token lapse or revoke it at any time (`TokenEnds`), and may
give a new refresh token or leave the old one valid. `refused` remembers which token a 401
was about. A payload is a hit, an absence, the quota or package (`limit`) or another error,
JSON-RPC's among them (`fault`). What else can go wrong is an error that the client makes an
`AnsvarMcpError` (`fault`: authentication, HTTP), the session the gateway has lost (`lost`),
or one that nothing on the way catches (`raised`: a body that is no JSON, a connection that
breaks while it is read, and `os.chmod` after another thread has unlinked the token file,
`WriteFile`). `says` is whether the text of an error contains "not found"; every error may:
an OAuth server answers 404 as well as the gateway. Asked for an article, the code takes an
error of no class of its own for an absence (`ArticleError`), and in a search every error in
the payload (`SearchError`). `reasons` and `because` are history: why a lookup or a row says
that there is nothing.

### Sentences, DocumentParsing, Citations, ClaimRecognition

These are mostly functions, put in the order in which the code calls them:
`stage` goes from `body` over `relate`, `chunk`, `checkDoc`, `collect`,
`recognise`, `arbitrate` and `checkClaims` to `done` or `refused`, and `at` is the
element, the note or the anchor that comes next. A step reads one element of the body,
one cell of a table or one note paragraph, or looks at one anchor. The specification is
`ReadingSpec`, so that a module can extend it together with that of another component.

A text is a sequence of words, and a word stands for what the code's patterns find at a
place: a title in marks, a name without marks, an article or a paragraph number, several
articles in one expression (a range 第三条至第五条, a range of figures 3-5条, an enumeration 第三、四条),
a word for an article cited before (前条, 该条), a quotation mark, the end of a sentence. The
two readers of a text differ in what they find, and the model keeps them apart: `ArticlesIn`
is what `statutes.py` recognises, where a range has the paragraphs of its last article
wherever a pattern finds it again, and numbers of an enumeration are none; `Mentioned` is
what `spans.py` can locate, where all articles of a range stand at the one place of the
range. Positions count words as the code counts characters, so that splitting, offsets and
overlaps are those of the code. `Split` counts quotation marks and brackets as the state
machine of `sentences.py` does. In `DocumentParsing` an action that reads does all that
follows for the headings, list groups and counters; `Relate` and `BuildChunks` are single
passes, and `CheckDocument` evaluates the validators as they are written.

A cell is known by the rows and columns it covers, as `docx.py` works them out, and cells
come row by row (`RowByRow`), which is the order in which `docx.py` reads a table; a cell
may cite notes. `Ordering` sorts by rank, because the sorting and selecting of the
library are written so that no prover can look into them.

In `ClaimRecognition`, `named` is `anchor_sources` and `records` is the map from
blocks to what their anchors name: `Collect` fills both for the whole document before the
first anchor is looked at, and `Recognise` appends what an anchor has inherited. `Follow`
is `_resolve_block_source` with its set of visited blocks: a recursive function over the
sets of blocks that were not visited, which passes through blocks that cite an article
whose statute they have not found. `deferred` is the sequence of cells that name a
statute without an article; `Undefer` makes candidates of those that no other cell has
taken. `Ruled` drops a candidate that lies within another; `ClaimOf` locates the articles
of the rest. `claims` is a set: their order and numbers, which only the output shows, are
left out. `ClaimSound` is `validate_claim_document` with the integrity check.

Left out: aliases, chapters, items (项), standards and foreign acts, how a case
reference is worded, automatic numbering. A number has one way of being written, so that
digits and Chinese numerals of one article are not told apart, and the articles of a group
are ordered by number, where `spans.py` sorts them as strings at their one place. A
range holds at least two articles and at most the 51 that the patterns expand. Behind
a name without marks a range stands as one word of the chain. The window of 8
characters in which `extract_partial_refs` looks for what a rule provides is one of 8
words. Paragraphs repeated behind one article are not counted when mentions are merged.

## 3. Runs

| run | instance | shows |
|---|---|---|
| `claim_run` | 4 titles, 1 article, up to 2 sources, 1 technical retry, 2 rebuilds, FairSpec | `NeverRaises`, `TrafficBounded`, `HistoriesAgree`, `ReasonIsTrue`, `Terminates` |
| `pkulaw_client` | threads of two clients, 3 attempts as in the code | `WaitsLeadOn`, `NoRequestWhilePaused`, `SingleFlightProbe`, `PoolHeldByOthersOnly`, `NetworkErrorsNeverPause`, `CallsLeadOn`, `AllCallsReturn`, and `LooksLikeOneCaller`: the refinement of `PkulawCaller` |
| `pkulaw_cache` | 2 threads, a revalidated key and a locked one, lifetimes 2/3/2 days, extension 1, rows left behind that are fresh or expired | `AnswersAreFresh`, `NoCallForWhatIsCached`, `RefreshLeavesNoneExpired` |
| `word_check` | 2 documents, 1 card, 2 requests, 1 thread, 1 revision at a time, history of 1 | `HistoryReachesSnapshots`, `NoButtonStuck`, `CheckEnds` |
| `retrieval` | 2 title shapes, every world, 2 versions or none, 3 tries as in the code | `NotFoundIsTrue`, `DoubleSignalIsTrue`, `BestAnswerWins`, `LinkBelongsToText`, `LookupLeadsOn`, `LookupReturns` |
| `document` | six documents of two or three citations, with and without a model | `VerifiedIsLocated`, `CorrectionIsItsFindings`, `PassRestsOnText`, `NestedFollowsParent`, `ReviewsReachTheirCitation` |
| `ansvar` | 8 set-ups of 2 threads, of one document or of two, 6 tokens of which 1 ends, 1 lookup each | `RefusedTokenNotReused`, `AbsenceRestsOnAnswer`, `LocksInOrder`, `LookupsEnd` |
| `cases` | 8 documents, 6 records, answers of up to 3 | `NotFoundSearchedAll`, `AmbiguityIsShown`, `PassMeansSame` |
| `reading` | 11,361 documents of up to three elements, or a table of up to four cells, chunks of 8 words | `RefusedForACause`, `InheritanceIsNamed`, `NamedLawIsClaimed` |
| `stream_ends` | 1 request, no revisions | counterexample: a check that raises `TimeoutError` leaves its stream open for ever |
| `case_crash` | as `cases` | counterexample: a supplement that fails ends the check of the document |
| `document_refused` | as `reading` | counterexample: a sentence that cites an article twice, or names a statute first without marks, can refuse the document |

The type invariants are not among the properties of the runs: those of the modules
with proofs are proved (section 4).

Bounds. Two titles come with the hypothesis, sources offer a known and two new
ones and the planner knows an asked and a known one, so that a rebuild can name
any kind and a title is still left when the budget is spent; two rebuilds are
the least number with a repair and a candidate in one run; one
technical retry already distinguishes first, last and one too many. Two clients
with two threads for one of them make every pair of roles meet: prober and
queued thread, two threads behind the request lock, and threads of two clients
at the connection. Two cache threads meet on one key or work on both; three days
see a row stored, extended and expired again, because rows left behind may be
expired on the first day. Two requests and one thread let a check wait behind one
whose connection was lost. A history of one already evicts. Two title
shapes are a first and a last one, so a failure can come before, between and
after the answers of a route; two versions are an equal and an unequal pair.

The six documents put together what can interact: `Chain` nests a third article
in the second and the first; `Pair` has two articles in one claim, so that one
job compares both and none is located; `Nested` nests an article in one with a
paragraph; `Shared` has two claims that share a lookup and its attempts; `Deep` has
a claim with a paragraph and a date, beside a chapter; `Mixed` a foreign law, a whole
law and a citation that is not verifiable. Stages only relate items of one claim or of
one key, so two or three items let every relation occur.

What goes wrong with Ansvar's tokens and session takes two threads, one refused
and one late: two of a document share memory and locks, two of different
documents only the files, and each set-up turns on the part of the code that the
others leave alone: sessions and tools found by two threads, the cache within a
document and between two, the login with and without a saved file in one document and
in two, a service account. Six names are enough for two threads, each with a token held, a
bearer and a refused one, since a name that no copy holds is used again. One
token that ends lets every call be refused once, as the code tries once more.

Of the six records two are judgments of one number that differ in their date, one of them
with a link; one is a ruling of that number, which `Distinct` folds with the judgment that
has no link either; one has the number under another name and must not be; one is another
case, and one a typical case that only mentions the first: every branch of the duplicate
resolution has a set of them. Lookups do not share state, so one citation per document is
enough except where duplicates are dropped and the results are put in order.

`reading` has 231,166 states. Its documents are all pairs of the elements in a list (and all
triples of the short ones), tables of four cells and with cells that span a row
or a column, and notes of two types. A chunk of 8 words is exceeded by one, two
and three sentences. Three articles make a range with an article inside, and one range, one
range of figures and one enumeration meet articles, paragraphs and relative words before
and behind them. Inheritance passes through at most three blocks, which is one
more than the difference between looking through a block and stopping at it.

Symmetry is used for the threads of the cache, where only safety is checked.

`CHECK_DEADLOCK` is off for the runs of `StatuteLookup`, which stops when it has
returned, as `LookupReturns` says it does; for `AnsvarSource`, whose threads stop after
their lookups (`LookupsEnd`); and for `CaseCheck` and `ClaimRecognition`, which stop
with the result of one document. It stays on elsewhere; there, systems
that end have an explicit stuttering step for their end (`Returned`, `Done`).

### Fairness

- `ClaimRun`: weak fairness of the step. It is one sequential function, and its
  calls have timeouts.
- `PkulawClient`: weak fairness of each thread. Every exchange has a timeout and
  the attempts are at most three, so a holder lets go; the threads make finitely
  many calls, so even an unfair lock comes to every waiter. No fairness is
  assumed of `Expire` or of a success.
- `StatuteLookup`: weak fairness of the step, for the reasons given for `ClaimRun`.
- `TaskPane`: the script goes on when what it awaits has come, and the pool runs
  each job when a thread is free (strong, since a free thread may go to another
  job first). Connections need not break and nobody has to press a button.
- `AnsvarSource`: weak fairness of "some thread goes on", which says only that the
  operating system runs something that can run. Requests have timeouts and the
  wait for the user's login one of five minutes. Since the lookups are finite, no
  thread can be left behind for ever by the others.

## 4. Proofs

`ClaimRunProofs` proves, for every set of titles, articles and offers and every budget, that
the type invariant, `NeverRaises`, `TrafficBounded`, `HistoriesAgree` and `ReasonIsTrue`
hold. The properties are not inductive: the invariant adds, for every place in the loops,
which state the run is in, that the retries spent in the current loop are counted, that
targets of the round that are no longer to do are remembered, and that the number of
rebuilds is the number of hypotheses less one. `TrafficBounded` needs one lemma about
products. `RunsAreBounded` proves the measure on which the end of a run rests: every step
rebuilds within the budget, or goes on in the round (`LeadsOn`), so that no offer of a
source and no proposal of the planner sends a claim in a circle.

The first part of `LookupProofs` proves the type invariant of the client,
`NoRequestWhilePaused`, `SingleFlightProbe`, `PoolHeldByOthersOnly` and
`NetworkErrorsNeverPause` for any threads and clients. The invariant says who holds which
lock at which place, that a request is only under way under its client's request lock with
its circuit closed, and that a client still probing has no thread past the probe. From it
follow `WaitsLeadOn`, as whoever holds what a thread waits for is further on in its call,
and `CallsLeadOn`, as a failure goes back to the connection only with an attempt more: what
liveness rests on, for any number of threads and attempts. `ImplementsOneCaller` proves
`LooksLikeOneCaller`: the threads implement `PkulawCaller`. The steps before the request
lock and behind it map to none; each of the others moves the thread that holds the lock, and
the invariant says that only this thread has posts under way.

Its second part proves the type invariant of the lookup, `NotFoundIsTrue` and
`DoubleSignalIsTrue` for any number of shapes, worlds, versions and tries. The
invariant says what the routes have refuted so far: while `itemAbsent` holds, no
shape tried by `law_item` leads to the article (`ItemRefutes`); the keyword route
has refuted each shape before the current one (`KeywordRefutes`); and what the
chain keeps of a finished lookup was true of it (`ToldTruth`). `BestAnswerWins` and
`LinkBelongsToText` are about the chain and need little of that: `Kept` adds that the
local answer comes from the local library and that Pkulaw has not answered before it
is asked, and `BestKeeps` compares what the chain returns with what it chose from.
`LookupBounded` proves `LookupLeadsOn`: no order of failures repeats a call.

`PkulawCacheProofs` proves the type invariant, `AnswersAreFresh`, `NoCallForWhatIsCached`
and `RefreshLeavesNoneExpired` for any threads, keys and lifetimes that are at least the
extension and the lifetime of a law in force. The argument goes by what a step within a day
can do to a row (`Gentle`): remove it, store or confirm it today, or extend it after a
revalidation of today that failed or found nothing. That needs `Current`: a row somebody
revalidates is still that of a law in force, unless another thread stored it on the same
day. The invariant adds which lookups hold the miss lock, that a row asked for under it is
not there, and that an expired row is deleted or still to be looked at by `cache_refresh`.

`DocumentCheckProofs` proves the type invariant, `VerifiedIsLocated` and
`CorrectionIsItsFindings` for any documents, claims and keys. Neither property is
inductive: the invariant adds that an item is not verified before the locations come
to it (`Unlocated`), and that nothing is found about an item before the judgments
come to it (`Unjudged`). So the finding with a corrected place is made when the
correction is final, and the only later stage that replaces corrections, the
successors, takes items with a finding about the law's validity.

Its second part proves `PassRestsOnText`, `NestedFollowsParent` and
`ReviewsReachTheirCitation`. Its invariant `ResultInv` follows an item through the stages:
which lookups are answered, and with what an article can be answered (`LookupInv`); that a
verified correction is of something that the judgment finds wrong (`MistakeInv`); that an
item judged without findings has a good text or was not judged by its own (`JudgeInv`); that
a confirmed item whose dependency was finalized has a parent without findings (`NestedInv`),
which is why a citation so confirmed may pass before its own comparison is looked at, and no
other may; and that a result is what its state makes of it (`OutcomeInv`). The reviews
arrive because no two jobs of the comparison write to one citation (`JobsApart`). The
argument needs that the key of an article is shared only with articles and citations of
unknown form (`KeyAssumption`, from `lookup_key` at `scheduler.py:642`).

`CaseCheckProofs` proves the type invariant, `NotFoundSearchedAll`, `AmbiguityIsShown`
and `PassMeansSame` for any documents, libraries and bounds. The invariant `IInv` says for
each lookup what its place implies: that the record to be supplemented came from
the exact route, that the semantic route is asked after every exact query was
answered, and what a finished lookup says of its routes; and of each result told
that it is that of a finished lookup. It uses that the record of a supplement is one of the
records answered (`SameCaseAmongAnswers`).

`WordProofs` proves `HistoryReachesSnapshots` and `NoButtonStuck` for any documents,
cards, limits and requests. Beside the properties the invariant needs only the shapes of
the records and that the results in view are those of a document (`PaneOK`): a disabled
button cannot start a second writing, so the end of one never takes away the only
writing of another.

Its second part proves `InheritanceIsNamed` and `NamedLawIsClaimed` for any documents,
statutes and words. The invariant `ReadingInv` goes stage by stage. While a document is
parsed, every anchor has a block (`Layout`, `Scan`). While statutes are collected, the
records hold what the anchors named so far, and all of it (`Collecting`, `RecordsFull`),
so that a block whose records have one title names nothing else. While citations are
recognised (`Recognising`), every record is what its anchor names or what was lent to it,
and what was lent goes back to an anchor that names it, through any number of blocks
(`Lent`). For that the search must be known: `FollowEquation` shows, by the number of
blocks left, that the recursion has the solution it is written to have, and `FollowFinds`
that it comes to nothing or to what a block with a statute offers. For the other
property `Accounted` says what has become of each anchor that names a statute: it has a
candidate with all it names, or waits in `deferred`, or its cell was taken. Ruling never
drops such a candidate for the sake of another (`RuledIn`): a candidate with that anchor
in it either is its own or was made by a cell or a quotation that the property excepts
(`OnlyItsOwn`). The whole invariant was evaluated on the instance of `reading` before it
was proved.

Its third part proves that no document is refused without a cause. `ParsedIsSound` says so
of the parsing: whatever the body, what has been parsed passes its own validators. The
invariant `DocumentInv` says that a document is in pages (`Pages`: the sentences of each
block are anchors that follow one another and make up its text), that every relation is of
one of the kinds there are (`AllRelated`), and that the chunks cover every anchor and
declare what they share (`Covers`). The splitting of sentences, the packing of blocks and
the cutting of a long block are folds; each is shown to go on from one element to the
next (`LongGoesOn`, `FitKeeps`), and from that the induction over the numbers is drawn by
a set (`Rises`), since the library's theorems on induction cannot be used here.

`RefusedOnlyForACause` says so of the claims: `RefusedForACause` for any documents, statutes
and words, as long as the claims that are not in plain words (`PlainText`: no range,
enumeration or relative word, and no paragraph taken for an article) are intact. What those
can be refused for, by themselves or through what they hand on, is model-checked by
`reading`. A claim cites what its sources name (`CitationsIntact`) if each article it looks
for has a place of its own at which the search must find it. `Fits` states that; `LocatedIs`
and `CiteFoundIs` show that then every article is located there, whatever is taken first,
and is cited with its paragraphs. For sources that the text names, the place is that of the
article behind the mention that governs it (`Placed`), and it is found there as long as no
article is contested and no bare name comes before the marks: just what the property
excepts. The articles of a statute are merged mention by mention, each once (`GatherKeeps`,
`SourceOfIs`). A statute that is inherited has no place in the text: its articles are looked
for from the beginning, and with one source no number can be taken for another's (`Singly`,
`BorrowedIntact`). The invariant `CitedInv` carries from the anchors to the claims what that
needs: that an anchor names what its text does, that what is recorded has articles, and that
every candidate is made of one anchor or of two in the order of the text (`CandidatesFit`).
That a claim of two cells has them in this order takes `TablesInv`: cells are read row by
row, so that a relation to a cell only comes from a later one (`Backs`), and so does the
search that follows them (`FollowBacks`). What is true of any texts and sources, without the
variables of the reading, is in `CitationProofs`.

`AnsvarProofs` proves `RefusedTokenNotReused`, `AbsenceRestsOnAnswer` and `LocksInOrder` for
any set-ups, documents, threads, tokens and number of lookups. That a refused token is not
sent again takes an account of every copy of it (`TokenInv`). `Gone` says that once a call
has been refused and its token marked, the document's memory would not give it out, nor
would the file while the memory is empty. A new token could be that name again: `Fresh` says
that between its issue and its being written nobody has sent it and no other copy offers it;
`Holds` says at which places a thread has the lock, and what it has under it; `Unsent` is
the property where the request is sent. A service account has no file and no marks, so it
has cases of its own. `LockInv`, with one lemma for every group of actions, gives the order
of the four locks; `SourceInv` says why each lookup and each row of the cache holds that
there is nothing.

The assumptions are those named in the modules: finite sets of titles and
sources, budgets that are natural numbers, special values that are not members
of the sets they stand beside, lifetimes that are at least the extension after an outage,
documents whose nesting points backwards within one claim, set-ups whose threads
belong to documents, documents that are sequences of elements and notes, and finitely
many statutes with a name (a document names no more than that), whose words are each
one thing only (`CitationAssumption`).

Only model-checked: everything that says "eventually" (`Terminates`, `AllCallsReturn`,
`CheckEnds`, `LookupReturns`, `LookupsEnd`), of which only the measures and the order of the
locks are proved, and `RefusedForACause` of claims that are not in plain words. Every other
safety property and action property of a run that passes is a theorem as well. The type
invariants of `TaskPane` and `AnsvarSource` document their state; their proofs carry the
parts that they need, as those of `ClaimRecognition` do.

## 5. Findings

With a run that shows them:

- `apps/api/app.py:195`: the keep-alive loop swallows a `TimeoutError` of the check
  (`stream_ends`).
- `orchestration/cases.py:174`: when the supplement of a matched case fails, four
  values are returned where line 72 unpacks five, and the check of the document ends
  with `ValueError` (`case_crash`).
- `domain/citation_integrity.py:62`: ordinary ways of citing refuse the whole
  document (`document_refused`). An article cited twice under one mention, with
  different paragraphs, is two articles for the recogniser and one for the
  check. A statute named without marks before it is named with them has its first
  article looked for behind the marks. An article number that two statutes share
  is taken for that of the first statute named before it: in "A and B, article 1
  paragraph 1; A, article 1" the first number is B's, A takes it, and B keeps one
  paragraph too few (`recognition/spans.py:172`). And an article of a range that is cited
  again with a paragraph (《公司法》第三条至第五条，其中第四条第二款) is located at the range,
  away from its paragraph.

  `RefusedForACause` says that a refused document has a claim whose citations are not
  intact and that is written in one of these ways: an article at two places, as a number, in a group or by a
  relative word, where the statute of the second is inherited or named before the first
  (`Contested`); a bare name before the same statute in marks (`BareFirst`); a range of
  figures between an article and its paragraph, past which `statutes.py` reads on and
  `spans.py` does not (`FiguresBetween`); a paragraph taken for an article whose word
  stands earlier behind the name of the statute (`WordBefore`); and a paragraph with an
  inherited article whose number stands only in an enumeration (`OnlyEnumerated`).

Known without a run of their own; most are visible in a module as the behaviour it has:

- `apps/word_addin/assets/taskpane.js:40`: decisions are stored under whatever
  document `lastResult` is when the revision has been written (`history.js:76` says
  they belong to the content of the document).
- `retrieval/sources/pkulaw/cache.py:328`: a search that completes without a hit
  counts as an outage and extends the row, so that a law that is gone is served for
  another day, although `pkulaw/models.py:62` tells the two apart. `AnswersAreFresh`
  names it beside the outage (`FoundNothing`).
- `retrieval/sources/pkulaw/statutes.py:374`: a failed exact route counts as one
  that found nothing, and an outage confirms with a single signal that an article
  does not exist.
- `orchestration/policies/retrieval.py:186`: without a model, the articles another
  source recalled are dropped, although the comment at line 183 says they are kept.
- `orchestration/scheduler.py:2490`: a review of distorted meaning that a correction
  explains is added after such reviews were dropped (docstring at line 2310).
- `orchestration/cases.py:190`: when the records of the cited number contradict each
  other, both routes agreeing on one other number verifies a record of that number.
- `orchestration/cases.py:444`: a judgment and a ruling of one number and title that
  have no link are one candidate, although their dates and kinds differ; the person
  who is to decide sees one of them. `StandsFor` says so.
- `retrieval/sources/ansvar/client.py:160`: an HTTP 404 of the gateway, or of the
  discovery of the OAuth server (`auth.py:128`), says "not found" and is taken, and cached
  for seven days, as the absence of the article. `client.py:129`: a search answered with
  an error that says so, as JSON-RPC's "Method not found" does, becomes
  `law_not_found`, even if the error is one of the quota. `statutes.py:4-7` says that
  failures never become an absence; `AbsenceRestsOnAnswer` names the two (`Mistaken`).
- `recognition/rules.py:126`: a cell takes its statute also from the cell above, but
  `arbitration.py:318` accepts pairs of cells only side by side: the claim is
  dropped, and with it the statute the upper cell names. `recognition/arbitration.py:350`:
  a quotation that names a statute is dropped within the claim of the
  citation behind it. `NamedLawIsClaimed` names these two exceptions.
- `parsing/docx.py:432`: a list item after a table still joins the group of the
  paragraph before the table, although line 554 says that a table ends the group.
- `parsing/relations.py:63`: paragraphs of different notes count as adjacent, and one
  inherits the statute of the other.
- `parsing/chunks.py:216`: a chunk that repeats a sentence may exceed its limit.
- `retrieval/sources/pkulaw/client.py:230`: the comment promises that a network
  failure of the probe is reused by the calls that waited; the code forgets it
  (lines 307-316).

## 6. Not modelled

- EUR-Lex, the registry of sources and the jurisdiction tables: stateless requests and
  look-ups in tables.
- `infrastructure/database.py` and `corpus.py`: queries and text search whose answers are
  choices in the models of their callers.
- `infrastructure/http.py`: its deadline is real time; the models of its callers have
  its outcome.
- Text patterns, the XML of DOCX files, prompts and answers of the language model,
  the formatting of the output, timing and debug capture, and the packaging tools:
  parsing, wording or I/O with no state the properties above could be about.
- In `DocumentCheck`, the merging of equal results for display; in the repair plans and the
  query construction, titles, aliases and versions are not interpreted.

What would come next: abstract specifications of a lookup and of a document's
check that the detailed ones refine; the items and aliases of a citation in
`Citations`; a chain of three nested citations in `DocumentCheck`.
