# A verification of the TCK's node bookkeeping and mirror checks

The Hiero SDK TCK drives an SDK server over JSON-RPC and checks what the
network did. Most of the repository is independent test cases. What has state
of its own, runs concurrently, fails in the middle and cannot easily be tested
is the machinery around the cases: the registry of nodes that the node suites
create on a real network, the sweep that removes what earlier runs left, the
check that says whether a run leaked nodes, the files a run leaves for CI, the
sessions and clients of a test process, the helpers that decide whether a test
passes, and the calculations these rest on. These
TLA+ modules model that machinery; TLC checks them on small instances and
TLAPS proves the most important properties for every instance.

Paths are those of the repository; `src/` below is its source directory.

## 1. Inventory

| Part | Source | State | Operations | Correct when |
|---|---|---|---|---|
| Node registry | `src/utils/helpers/node-registry.ts` | `trackedNodes`, `counters` (per process), lines of `node-cleanup.jsonl` | `trackNode`, `untrackNode`, `deleteTrackedNodes` | no node it was told of is forgotten; none is deleted or counted twice; the lines add up |
| JSON-RPC client | `src/services/Client.ts` | request ids, session ids per root suite | `JSONRPCRequest`, `getOrCreateSessionId` | an answer is tracked after, and only after, the network created or deleted the node; sessions do not mix |
| Node suites | `src/tests/node-service` | fixtures; admin keys changed by `updateNode` | test bodies, `before`/`after` hooks with a 30 s timeout | the file deletes what it created |
| Node sweep | `src/preflight.ts` 172-220 | id of the walk, number swept | `sweepLeftoverNodes` | protected nodes untouched, no live node stepped over |
| Leak check | `src/preflight.ts` 301-374 | `runStartSeconds`, the summary's counts | stamp in global setup, polls in global teardown | no false alarm, no missed leak |
| Preflight | `src/preflight.ts` | `run-info.json`, `node-cleanup.jsonl` | endpoint checks, stamp, totals | files describe this run |
| Mirror client | `src/services/MirrorNodeClient.ts`, `retry-on-error.ts`, `fetch-data.ts` | none between calls | getters, fallback, paging, retry | an answer is a snapshot of the mirror |
| Consensus client | `src/services/ConsensusInfoClient.ts` | lazily created SDK client | queries, `close` | no query on a closed client |
| Set-up helpers | `setup-tests.ts` | the SDK server's session client | `setup`, `setOperator`, `reset` | every test runs with its own operator |
| Verification helpers | `transfer.ts`, `token.ts`, `allowances.ts`, `custom-fees.ts`, `verify-*.ts` | none between calls | consensus read, mirror read, retried read | pass only if the network is as expected |
| Key helpers | `asn1-decoder.ts`, `key.ts` | position in the input | `getRawKeyFromHex` | the raw key of a DER key |
| Test counter | `testCount.ts` | totals | walk, download, count | each row of each readable file counts once |
| Configuration and gate | `RunTestsInContainer.ts`, `network-config.ts`, `scripts/check-test-results.mjs`, `package.json` | environment, report | start a run, exit code | red when something failed |
| Suites of the other services, fixtures, models, constants, docs, CI | - | - | - | not modelled, see section 7 |

How they interact. Mocha's main process runs `mochaGlobalSetup` (endpoint
checks, stamp, sweep, window), then gives the test files to a pool of 7 worker
processes, then runs `mochaGlobalTeardown`. In a worker a test body awaits
`JSONRPCRequest`, which posts to the SDK server; the server acts on the network
and the answer comes back after the await, where the client calls `trackNode`
or `untrackNode` in the registry. The `after()` hook of a node suite calls
`deleteTrackedNodes`, which calls `JSONRPCRequest` in turn and ends in a line
of `node-cleanup.jsonl`; the teardown adds the lines up. Sweep and teardown
talk to the network and to the mirror directly.

What is hard. JavaScript interleaves at every `await`. Mocha's timeouts do not
cancel the function that timed out: the runner goes on, to the next test, the
hook, the next file in the same process, while the function it left behind goes
on too when its answer comes. No request has a timeout of its own. Any answer
may be lost after the network acted on it. The pool reuses a process, and so its
modules' state, for many files; at the end, or when the run is killed, it is gone.
The mirror lags behind consensus.

## 2. Modules

| Module | What it is |
|---|---|
| `NodeAccounting` | abstract: every node is unknown, held, deleted or failed; a report is exact when it is published |
| `NodeRegistry` | one worker: runner, bodies, hooks, client, registry, drains, SDK server and network |
| `NodeRegistryProofs` | proofs about `NodeRegistry`, and that it implements `NodeAccounting` |
| `NodeSweep`, `MCNodeSweep`, `NodeSweepProofs` | the sweep of global setup |
| `LeakCheck` | the window of global setup and the polls of global teardown over a lagging mirror; a count is one look at it |
| `LeakCheckPaged`, `LeakCheckProofs` | the same with each count a call of `MirrorRead`; implements `LeakCheck` |
| `MirrorRead`, `MirrorReadProofs` | one call of the mirror client, with pages, fallback and retries |
| `Verification`, `MCVerification`, `VerificationProofs` | one call of a `verify...` helper by a test, over a lagging mirror |
| `RunInfo`, `RunInfoProofs` | the report directory and the gate over several runs |
| `Sessions` | session ids, the requests that set a session's operator, the server's clients |
| `InfoClient` | the lazy consensus info client, its close and the queries in flight |
| `Worker`, `MCWorker`, `WorkerProofs` | one mocha process over its files; composes `Sessions` and `InfoClient` |
| `FeeChecks`, `Endpoints`, `Asn1Decoder` | calculations without steps of their own |
| `TestCount` | the test counter: its walk over pages and directories, its downloads, its totals |
| `Checks` | drives the first two calculations, over any inputs |
| `ChecksProofs` | proofs about `Checks` and `TestCount` |
| `Calculations`, `MCCalculations` | `Checks`, the decoder, which recurses, and `TestCount`; bounded inputs |

### NodeRegistry

`trackedNodes` and `counters` are the module state of the same names;
`call[c]` is the one request a caller awaits, a caller being a test body or the
drain of a file; `remaining[f]` and `drain[f]` are the local variables of the
`deleteTrackedNodes` call of file `f`. Each action is what runs between two
awaits. `JSONRPCRequestDone` is the client after its await in a body: tracking,
untracking, or the error and skip paths, which change nothing here.
`deleteTrackedNodes` is the hook up to the first await (snapshot, clear, first
request, or, with nothing tracked, straight to the line). `DrainStep` is
everything from the answer of one `deleteNode` to the next request or to the
line: the client's `untrackNode` re-entered from the drain, the loop's own
counter, the catch, and at the end `WriteLine`, whose two outcomes are the line
written and the counters reset, or a warning and the counters kept. The
warnings themselves are left out.

`TimeOutTest` and `TimeOutHook` leave a body or a drain behind without touching
it. `NextFile` keeps the module state. `Terminate` ends the process at any
point; what it had sent is still executed. `FailCall` covers every error other
than `NODE_DELETED`: before or after the network executed the request (a lost
answer), and also a response `NOT_IMPLEMENTED`, whose `skip()` throws.
`SignersSufficient` says when a delete is signed well enough; the drain has the
signers of the create, a body the keys it holds.

### NodeSweep

`id`, `swept` and `awaiting` are the loop of `sweepLeftoverNodes`. `Entry` is what
`TCK_PROTECTED_NODE_IDS` can list; an entry that is not the decimal form of an
id (`00`, a name) makes the protected set non-empty and protects nothing, as
`protectedIds.has(String(id))` has it. `Answer` is the loop body after the
receipt or the error. `Execute` and `Fail` are the network and the SDK,
`OtherCreates` and `OtherDeletes` other users of the network.

### LeakCheck

The log has the transactions in consensus order; the mirror has a prefix of it.
Time is in seconds, so the order within a second is that of the log and
rounding `runStartSeconds` down shows. `pc` follows the teardown: the two
counts, the wait, the next poll; `QueryFails` is the catch around the loop.
Transactions of the run go on during the teardown: requests the terminated
workers had sent. The clocks of the runner and of consensus are taken to agree.

`LeakCheck` takes a count for one look at the mirror, at any moment between the
call (`calledAt`) and the answer. `LeakCheckPaged` has what the code does instead:
`Read` is `MirrorRead` on the transactions of the type in question, of which the
mirror has as many as it has ingested; `FetchPage` and `FetchAgain` are its page,
its failure and its retry, `Call` the first line of the closure. `PagedCreated`,
`PagedDeleted`, `PagedPoll` and `PagedFails` are the teardown between two awaits,
with the call that follows at once. `firstAt` is history: what the mirror had at
the first page of the attempt. The log, the mirror and the clock go on between
pages, and other users of the network with them.

### MirrorRead

One call, of one of four kinds. What is read is a stream that only grows:
transactions newest first (the API's default order for transactions), nodes by
ascending id (its default for nodes), or the versions of one entity. `taken` and
`next` are `count` or `nodeIds.length` and `path`, inside the closure, so that
`StartOver` resets both. `FetchFails` is the `.catch` to the older server and
then `retryOnError`'s catch. Counting items instead of listing them loses
nothing: a page is a contiguous part of the stream.

### Verification

Each helper is a record of what tells it apart (`Plain` and its variants): is
there a consensus read, is it judged before or after the mirror's answer, which
mirror endpoints it reads, does it retry them itself, what does it make of a
missing quantity. The helper of that name in the source has its lines in
`PROJECT.json`. `history` is what the quantity was and is on consensus, `known`
how much of it the mirror has. `inner`, `outer` and `whole` are the attempts of the
three `retryOnError` around each other: in the client's getter, in the helper,
and in the test. `wrapping` is how the test calls: by itself, in a
`retryOnError(async () => verify...())`, or in one whose function drops the
promise. In the last case `WrapperReturns` gives the test its verdict before any
answer. A value stands for all fields that a helper compares, and the account's
balance and the token's supply of `verifyFungibleTokenWipe`, which one
transaction changes, for one quantity. What mocha makes of an unhandled
rejection is not modelled.

### RunInfo

`report`, `runInfo` and `cleanup` are the three files of `mochawesome-report`. `Start`
is the script of `package.json` up to mocha, `Gate` the `; node ...` after it.
`Stamp` is the three calls of global setup, of which the first that throws ends
it. A `writeFileSync` that fails leaves the file as it was or `Garbled`. `AddUp` is
when teardown reads the lines, `mochaGlobalTeardown` when it writes the summary,
and the polls of `LeakCheck` are between the two. A run counts the lines its drains
wrote, and of these the `late` ones, which a drain left behind writes during the
polls. `Killed` is a crash at any point.

### Worker

`file`, `phase` and `running` are where mocha is; `step[b]` is where a body is
between its awaits. A body is of one of three kinds, those of the suites: it acts
as the suite's operator, or makes an account, sets it as the session's operator,
acts and sets the suite's again, after the request alone (`bare`, as in
`test-topic-message-submit-transaction.ts` 779-798) or in a `finally`
(`test-contract-create-transaction.ts` 424-448). The requests before the change
of operator, which make the account, are left out: they are paid as those of a
`plain` test are. `parallel` is chosen at the start. In a parallel run the model
is one worker of the pool; the others have other files, so other sessions, and
processes of their own. `Executed` and `Refused` are the SDK server: a request is
executed and answered, executed with its answer lost, or refused. `failed` also
stands for `NOT_IMPLEMENTED`, whose `skip()` throws. `abandoned` is history: the
hooks and bodies the runner gave up on. It lets the properties name the cause of
what should not be: `LeftBehind` has the operators that a hook or body which timed
out can still give a session, `Unrestored` the tests that set their operator and,
having failed, did not put the suite's back. No other accident is excused.

`InfoClient` numbers the SDK clients. `SdkClient` is the getter, `Close` what runs
before `await client.close()`. A query keeps the client it was started on.

### Calculations

Each input is a state, each evaluation a step. `Checks` has the comparisons, its
inputs constants of which only the types are assumed; `Calculations` adds the
recursive decoder and the steps of `TestCount`. `Asn1Decoder` works on bytes, with
the 32-bit shifts of the source. The inputs are keys encoded by the rules of DER.
`FeeChecks` compares as the source does, each side of what the network holds by
its own view; the mirror's lists by type keep the fees' order, and here their
positions. `Endpoints` has the settings of a run, unset, empty or set, the two
files of the repository, what the preflight looks at and what the services use.

`TestCount` is the script `testCount.ts` step by step. `calls` holds the calls of
`fetchAllMarkdownFiles` that are under way, the innermost last, each with its
directory, its page and its place on the page; `files` is the list they push to.
`FetchPage` is one request and its catch, which ends the call; `VisitItem` one
turn of the inner loop, `EndPage` the test of the page's length; `CountFile` one
turn of the loop of `main`. A repository is any set of directories with their
items on the pages of the API, all of them full but the last; which requests fail is
chosen at the start, since none is made twice. `visited` is history: the places
the walk has been. What the script writes to the console is left out.

## 3. Runs

| Run | Instance | Shows |
|---|---|---|
| `registry` | 2 nodes, 1 body, 2 files | `SettledNodesAreGone`, `HeldOnce`, `CountsExact`, `ImplementsAccounting`, `HooksEnd`, `DrainsSettle` |
| `registry_signers` | smallest | a claim that does not hold (section 6) |
| `sweep` | up to 4 ids, entries 0, 2, 3 and a word | the sweep's promises; it ends |
| `leak` | 3 transactions, 2 seconds, 2 polls, pages of 2, 2 attempts | `NoFalseAlarmAtReads`, `ZeroIsClean`, `LeaksAreReal`, `SummaryExplained`, `ImplementsLeakCheck`, `TeardownEnds` |
| `leak_reported` | smallest | a claim that does not hold (section 6) |
| `mirror_read` | stream up to 6, pages of 2, 3 attempts | `AnswerIsSnapshot`, `CallEnds` |
| `verification` | 3 values, histories up to 3, 2 attempts | `PassIsTrue`, `FreshPassIsCaughtUp`, `FailureHasReason`, `DelaysBounded`, `HelperEnds` |
| `verification_dropped` | smallest | a claim that does not hold (section 6) |
| `run_info` | 3 runs, 3 lines | `GreenIsOwn`, `TotalsAreExact`, `InfoIsOfOneRun` |
| `sessions` | 2 files, 2 tests, parallel and serial | `PayerAsIntended`, `SessionsEnd`, `ClientsAreClosed` |
| `calculations` | bounded inputs, below | `RawKeyRight`, `FeeChecksRight`, `EndpointsCovered`, `TestsCounted` |
| `keys_pkcs8` | the keys alone | a claim that does not hold (section 6) |

Why the bounds are enough. Two files are what it takes for a body or a drain of
one file to run into the drain of the next; two nodes for a drain to have one
in flight and one waiting, and for one to fail while another succeeds. Nothing in
the registry looks at more than one node at a time, and the proofs of section 5
lift the bounds for all safety properties. The sweep's entries sit at the start,
inside and at the end of the id space and past it. Three transactions hold a
create and a delete of the run and one of somebody else in any order, and fill a
page of two and part of another; a second poll finds the first one's counts, and
nothing tells a third from it. A stream of
six with pages of two has full, partial and empty last pages. Three attempts stand
for 20, two items a page for 100. A quantity is missing, zero or something else,
and a history of three has a value that comes back. Two attempts at each of three
levels show every nesting. Three runs have one whose files survive a second
that does not touch them, and a third that reads them. Two tests of a process hold
one left behind, with its change of the operator under way, beside one that is
awaited, in the same file or the next; two files share a session or not. With up
to three timeouts (`MaxTimeouts`) a hook and both tests, or a `before()`, its
`after()` and a test, time out in one run.

The calculations. Keys of 1 to 260 bytes in four encodings take every element
across the lengths of 127 and 255 bytes, where its length takes a byte more;
integers ahead of the key go up to five bytes. Fees are all pairs
of 24 fees of the three kinds, so that the fee looked for stands before or
after another, alike or not. Settings are unset, empty, malformed or set, alone or on top of
either file, with any set of endpoints up. A root of up to four entries on
pages of `PageSize`, 2 here for 100, has last pages that are empty and partial
after none, one or two full ones; below it are a directory and one more, any page
of which may fail.

Deadlock is not checked: a run, a sweep, a check, a call and a calculation end,
and the models then stop.

## 4. Fairness

`RunnerFairness` (in `HooksEnd`) assumes that mocha's runner goes on and that its
timers fire; nothing of the server. `DrainFairness` (in `DrainsSettle`) assumes
that each delete of a drain is answered in some way, an error included, and
that the event loop resumes the drain; requests have no timeout in the code, so
this is an assumption about the server and TCP, which is why the hook's
timeout matters. `FairSpec` of the sweep assumes the same of the Hashgraph SDK,
which bounds every request itself. `PagedTeardownSpec` and `CallSpec` assume that a
fetch ends; `axios.get` in `fetch-data.ts` sets no timeout, so this rests on the
HTTP stack. `RunInfo` and `Worker` have safety properties only: nothing in them
has to happen that a timeout of mocha's does not bring about.

## 5. Proofs

All theorems hold for every value of the constants that satisfies the named
`ASSUME`s, and TLC evaluates these in the runs.

- `NodeRegistryProofs!RegistrySafe`: type correctness, `SettledNodesAreGone`,
  `HeldOnce`, `CountsExact`. They are not inductive alone. The invariant `IInv`
  adds that calls are well formed (a drain awaits deletes only; nobody's
  untaken create answer names a node already answered, and no two answers name
  the same), that answers tell the truth about the ledger, that a drain that is
  not running has nothing left, and that what is held or failed was answered.
  The proof that a step preserves it has one lemma per group of actions;
  `SettleCounts` and `DrainLoopEffect` carry the arithmetic of the counters.
- `NodeRegistryProofs!RegistryImplementsAccounting`: with stages computed from
  where a node is in the registry, every step is a step of `NodeAccounting` or a
  stutter. The step lemma also shows `AccountsMove`, what a step can do to the
  accounts, from which the refinement follows.
- `NodeSweepProofs!SweepSafe`: the sweep's four promises. The invariant adds
  that an awaited answer is true of `id`, and that the number swept is the
  number deleted behind the walk.
- `MirrorReadProofs!ReadSafe`: answers are snapshots, from `Progress`: newest
  first, what was taken is what the first page's snapshot has above the link; by
  ascending id, what is below it.
- `VerificationProofs!VerificationSafe`: `PassIsTrue`, `FreshPassIsCaughtUp`,
  `FailureHasReason`. The invariant adds what an attempt past its consensus read
  knows (`Judged`) and that who is asleep has an attempt left (`Awaited`).
  `HelperTraits` reads off the table of helpers which combinations occur;
  `AgreesIffTrue` and `CaughtUpAgrees` say that the rules for missing quantities
  are right when the reads are up to date.
- `VerificationProofs!DelaysAreBounded`: `DelaysBounded`. The invariant is what
  each level may have spent by now (`DelaysSpent`): the attempts of the test that
  are over at the price of a whole attempt, the reads answered in this attempt at
  the price of a whole read (`OneRead`), and the retries of the read in flight.
  `ReadSpends` says that these stay within that price, `SpentBounded` turns the
  account into the product. Only a helper that retries its reads has a second attempt
  of them (`OuterIsRetry`).
- `LeakCheckProofs!LeakCheckSafe`: `NoFalseAlarmAtReads`, `ZeroIsClean`,
  `LeaksAreReal`, `SummaryExplained`. Counts of a prefix of the log stay as it grows (`CountStays`) and
  grow with the prefix (`CountGrows`). The invariant adds that the window holds
  every transaction of the run and none of the sweep after its first second,
  and that each count is that of the log as the mirror had it at a moment after
  the call, so that the deletions are counted no earlier than the creations.
  `CountsAndOwn` splits a count into the run's own transactions and those of
  `Elsewhere`, which are disjoint; `ReadsCompared` takes the latter off. Of the
  summary it adds (`SummaryTrue`) that its deletions are those of the last decided
  poll and its creations those of that poll or a later one, and that a poll which
  finds no leak is the last.
- `LeakCheckProofs!PagedImplementsLeakCheck`: every step of the paged check is a
  step of `LeakCheck` or a stutter (`PagedIsLeakStep`): when a count returns, it is
  that of the first page's moment, which is the witness. `CountsPaged` is the
  invariant: of a count in flight, what was taken and what the link leaves add up
  to the snapshot of the first page, which came after the call; `WorldPaged` shows
  that nothing which happens between pages disturbs it. `PagedSafe` carries the
  properties of `LeakCheck` over to the code's counts, and their types.
- `RunInfoProofs!RunInfoSafe`: `GreenIsOwn`, `TotalsAreExact`, `InfoIsOfOneRun`. The
  invariant adds whose the report is while a run is under way; that the last lines,
  as many as the run wrote, are the run's and all others of runs that nobody since
  removed (`LinesOf`, of the file, of what was added up and of the summary); where
  a stamp without a summary can be from (`StampKnown`); and that a summary of the
  current run appears only after its own teardown. It needs that "no file" and a broken file are no
  well-formed file (`RunInfoAssumption`).
- `WorkerProofs!WorkerSafe`: `PayerAsIntended`, `SessionsEnd`, `ClientsAreClosed`.
  The invariant adds that who is active without being awaited timed out
  (`RunnerInv`), that queries are awaited by bodies that look (`ClientInv`), what
  each request in flight is (`BodyCalls`, `HookCalls`), which operators the current
  session may have at each step of the awaited test and through whom
  (`OperatorInv`, with `Known` and `Own`), and that a session whose reset was
  executed has none unless its `before()` comes after it (`LeftInv`). The lemma
  `Answered` is the core: the server can only be answering the awaited test, a hook
  of the file, one that timed out, or a request of another session.

- `ChecksProofs!ChecksRight`: `FeeChecksRight` for sequences of fees of any length,
  any accounts and expectations, and `EndpointsCovered` for any settings and any
  set of endpoints that answer. Both directions of the first: what a side matches is
  the fee expected (`HeldIsMatched`, `LooksLike`), and an expected fee is matched in
  both sides' views (`ExpectedIsShown`); of the expected fees the first one
  (`FirstExpected`) is what the mirror's loop finds, unless it stumbles before,
  which only a royalty fee without fallback makes it do (`ThrownIsBare`). It needs that amounts are not negative, so that none is taken for
  null, and that what is no address does not answer (`ChecksAssumption`).

- `ChecksProofs!CountRight`: `TestsCounted`, for any repository that is as the API
  lists it, any page size and any failures. `WalkInv` says that a call under way has
  visited exactly the places ahead of its own, that a call that has returned has
  visited all that is shown of its directory, that the calls under way are of
  different directories, that a directory which is called for lies in every closed
  set, and that the files are the markdown items of the visited places, each once. When the last call returns,
  the directories visited are themselves a closed set, hence the least.
  `TotalsSoFar` says that the totals are the numbers of rows of the readable files
  ahead of `next`, as the cardinality of a set of pairs of a file and a row, so
  that one more file adds its own rows and no sum over a sequence is needed.

Only model-checked: the liveness properties, which TLAPS does not reach
(`HooksEnd`, `DrainsSettle`, `SweepEnds`, `TeardownEnds`, `CallEnds`,
`HelperEnds`), and `RawKeyRight`, which is about what recursive operators
compute and would take an induction over their data.

## 6. Where the code differs from what it says

1. *Replaying the create's signers always suffices* (`node-registry.ts` 23-26).
   Not after `updateNode` replaced the admin key, with an operator that is not
   privileged (`registry_signers`).
2. *Leaks are reported; CI can gate on `leakedCount == 0`* (`README.md` 103-112).
   A create the mirror has not ingested at the first poll goes unseen
   (`leak_reported`).
3. *If the mirror node confirms the data, the test is marked as passed; otherwise
   it's marked as failed* (`docs/design.md` 19). Some 45 tests of the token and
   topic suites write `retryOnError(async function () { verify...(); })`, as
   `test-token-delete-transaction.ts` 65 does: the promise is dropped, nothing is
   retried, and the test has passed before the first answer
   (`verification_dropped`).

4. *Extracts the raw key (public or private) from the parsed ASN.1 structure*
   (`asn1-decoder.ts` 165-168). Of a private key in PKCS#8 the decoder returns the
   inner OCTET STRING with its tag and length, not the key (`keys_pkcs8`).

Limits the models show and no property denies: "a suite only ever drains the
nodes its own file created" (`node-registry.ts` 15-16), but the pool reuses workers and the map is
never reset, so that a create of the previous file answered late is drained and
counted by the next; the deletes of a sweep in the second in which the run starts
are in the window that is meant to leave them out (`preflight.ts` 301-303), and can
hide as many leaks: `ZeroIsClean` has them in `Elsewhere`, and no other delete of
the sweep; a node whose `createNode`
answer comes after the drain of its file, or never, outlives its suite; and when
a query of a later poll fails, the summary keeps the creations of that poll
beside the deletions and `leakedCount` of the one before (`SummaryExplained` says
what the three numbers then still mean: `leakedCount` is at most their difference). A session is "for this
test file" (`Client.ts` 52) in a parallel run only: a serial one has a single
root suite, so one session, and a timeout in one file reaches all others
(`LeftBehind`). A test that sets an operator of its own without a `finally` and
then fails, or whose own restoring request fails, leaves its payer to the tests
after it (`PayerAsIntended` names it as the only cause within a file). A `before()`
that timed out and is executed after its file's reset leaves a client behind
(`SessionsEnd`). `.env.testnet` names no consensus node: a server told no node
connects to testnet (`docs/test-specifications/common/Utility.md` 17), while the
tests' own queries go to the local node (`ConsensusInfoClient.ts` 67), where
`README.md` 21 has the configuration ready to use. In the mirror's list of royalty fees one without fallback
throws a TypeError when all else is equal, before the fee looked for is reached.
Nobody checks the Java REST server, nor the default local node; an empty
`MIRROR_NODE_REST_JAVA_URL` hides the other URL and switches the leak check off.
A container run has no preflight and no hook that closes the client. The test
counter counts what it could read and says nothing in its totals of pages and files
that failed; it relies on the GitHub API to page directories. `verifyTokenBalance` of
zero accepts whatever the mirror shows (`transfer.ts` 36-45), and the helpers for
a burned or wiped NFT accept a mirror that has not even seen the mint; these are
the exceptions in `FreshPassIsCaughtUp`. An error of the consensus query of these
two counts as the NFT's absence, so that they pass on an NFT that is there if the
mirror has not seen it: the one case `PassIsTrue` names. The default
budget of `retryOnError` is 5 s (`retry-on-error.ts` 15-17), but a helper that
retries a getter that retries can wait 399 delays, 100 s, for one read:
`DelaysBounded` has the product. A container run stamps nothing, so its report
lies beside the `run-info.json` of an earlier run, if there is one. A wipe that
breaks off leaves the gate the report of the run before (`wiped` in `GreenIsOwn`).

## 7. Not modelled

The cases of the suites (requests and assertions without state of their own),
the fixture helpers of `token.ts`, `allowances.ts`, `account.ts`, `mint.ts` and
`key.ts` (each a straight sequence of requests), the OID names of the decoder,
the rendering of markdown, generated models, constants, documentation, workflows.
Formatting, warnings and console output. Request ids: the client matches answers
to requests and each caller awaits one. Mocha itself and the SDK servers are
modelled only as far as the source relies on them, and marked external.

## 8. Plan

Done: `NodeRegistry` with its abstract specification and proofs, `NodeSweep`,
`MirrorRead`, `Verification`, `Worker` and `RunInfo` with proofs, `LeakCheck` with
its paged refinement and proofs, `Checks` and `TestCount` with proofs,
`Calculations`.

Left, in order:

1. The getters of `Verification` refined by `MirrorRead`, as the counts of
   `LeakCheck` are.
2. The pollution check end to end: `NodeRegistry`'s creates and deletes as the
   transactions of the run in `LeakCheck`.
