# dapp32 in TLA+

dapp32 serves decentralised applications as *CAM* documents: a root contract
names a document, a generic viewer loads it, reads contracts through its
routes, renders its UI, and prepares contract calls that a wallet signs. Two
applications come with it, a bicycle registry and a deposit vault, and two
proxies that let containers reach the network. This directory models the
program, checks the models with TLC on small instances, and proves the
properties that matter most of the core with TLAPS for every instance.

`tlc -workers 2 -config <file>.cfg <MC module>` repeats a run, `tlapm
<module>Proofs.tla` a proof. `PROJECT.json` lists the runs, the source lines of
each definition, the mutants each property detects, the hazards and the
findings.

## Inventory

| Component | Source | State | Operations | Interacts with | Correct when |
| --- | --- | --- | --- | --- | --- |
| Viewer session | `js/packages/cam-viewer` | account, loaded CAM, current view | load, navigate, setAccount, updateState, dispatchAction | host loading, route reads (awaits); web app, terminal (callers) | view, account and CAM belong together; a failed call leaves a snapshot the session had; calls settle |
| Web app | `js/apps/cam-web/src/App.tsx` | load state, wallet, notice, prepared call, sending; two revisions and a gate | dispatch, updateInput, connectWallet, sendPreparedCall | session, wallet, RPC (awaits) | what is offered and signed belongs to what is shown; one submission; no lost outcome |
| Wallet, transactions | `js/apps/cam-web/src/{wallet,transactions}.ts` | none of their own (the wallet's account and chain) | connect, check account, select chain, simulate, send, wait | web app | checks precede the signature in order |
| Deposit vault | `dapps/deposit` | owner, treasury, signer, pause, nonces, balance | deposit, sweepForcedNative, policy setters | treasury (called back), backend, ledger | receipts numbered without gaps, paid, signed |
| Bike registry, collections | `dapps/bike-nft` | records, delegations, configuration; tokens, URIs, roles | register, metadata, report, retire, delegate, configure; mint, transfer | each other; new owner (called back); UI contract | records have tokens and keep them; reports and retirement |
| Bike UI contract | `BicycleComponentManagerUI.sol`, `cam/ui.json` | none | views and their actions | registry; the screen | offers what the registry accepts, with the fields it takes |
| CAM root, host loading | `dapps/cam`, `cam-evm-viem/src/{host,contracts,hash,resources}.ts` | CAM URI, hash, addresses | setCam, setContractAddress; the reads of load | session, web server | what runs is one publication, and was checked as a whole |
| Preflight, integrity refresh | `js/tools/cam-publication-preflight`, `tools/cam_resource_integrity.py` | the author's files | read, check, hash; read, digest, rewrite | conformance, host | approves what it read |
| Protocol: resources | `cam-protocol/src/resources.ts`, `js/tools/local-cam-files.ts` | a read in progress | resolve a URI, check a root, decode a CID, read within a limit | session, preflight | one key per resource; bounded and whole reads |
| Core, protocol: routes | `cam-core`, `cam-protocol` (expressions, facts) | none (pure) | parse, resolve | session, conformance, adapter | resolution agrees with the checks; data is not code |
| EVM adapter | `cam-evm-viem/src/{abi,arguments,routes,writes}.ts` | none | parse an ABI, call a route, convert values | session, wallet | values survive conversion |
| Screen | `cam-screen` | none (pure); the state of text fields is the session's | parse, resolve twice, list buttons | session | the screen is of the state |
| Conformance | `cam-conformance` | none | check a bundle | preflight | reports proven facts; what passes works, as far as it can be known |
| RPC proxy | `containers/rpc-proxy` | the connection being served | accept, read, validate, forward | clients, upstream | only allowed requests leave; everyone is answered |
| Egress proxy | `containers/https-egress-proxy` | a tunnel's buffers and deadline | CONNECT, forward | container, upstream | streams are kept; leads where allowed; ends |
| Terminal, fuzzer | `js/tools` | a session | one awaited call at a time | session | - |
| Build | `compose`, `containers`, `tools`, `tests` | files | - | - | not modelled |

What is hard here: the session's calls overlap in the web application, and each
reads state before an await and writes after it; the App numbers interactions
to drop stale results; a wallet changes under its prompts; both contracts call
code they do not control in the middle of a transaction, and a failing callee
undoes everything since the call began; author, preflight, web server, chain
and viewer each read at moments of their own; what conformance says ahead of
time and what the run time does are two programs that must agree about a third,
the author's; and both proxies are at the mercy of their peers' timing.

## Modules

Each actor's code between two points where another can act is one step. In
JavaScript that is the code between two awaits, in Solidity the code up to an
external call, in the proxies the code between two system calls.

- `ViewerSession`: the session. `pendingCalls` holds what the closures of the
  calls in flight hold. A call that throws before its first await, or in the
  microtasks right after it, leaves no trace and is no step. A view is reduced
  to what the properties tell apart: its CAM, route, inputs and edited field,
  the account the contract was read for (`reader`, standing for `values`) and
  the account the UI was resolved with (`shownTo`). A button is compared by its
  call, as `sameActionCall` does. `Links` says which buttons a view shows to
  whom. `AccountRoutes` is what the preflight refuses an anonymous session
  before a read; `AccountScreens` is what fails to render for one, after a read
  or an edit. The two need not agree: the preflight looks at the calls too, and
  not at the UI.
- `CamWeb` extends it with the App. `handlers[q]` and `pendingCalls[q]` are the
  closure of the handler in slot q and the session call it awaits. React state
  is the value the last handler set; a click may come before the render that
  disables its button, so `SendClick` does not look at `sending`. One App has
  one session that is loaded once (StrictMode's second effect makes another
  session and discards the first).
- `DepositLedger`: the ledger that the vault's receipts build, one step per
  settled deposit. `DepositVault`: the contract, and the refinement.
- `BikeRegistry`: the manager and its collections. `BikeUI` adds the projections
  of the UI contract as operators of the registry's state (a view function is
  one call, so it sees one state), and the fields and buttons of `ui.json`.
- `CamCatalog`: what a host promises: publications one after another, and a
  load yields one that was the published one between its begin and its end.
  `CamPublication` is the detailed side, from the author's files (edited,
  refreshed with a rewrite in place that may be cut short, restored), over the
  preflight's reads and verdict, the upload file by file, `setCam` and
  `setContractAddress`, to a load that reads `camURI`, `camHash`, the document,
  each address, each resource in steps of their own. A file's content stands
  for its digest. It implements `CamCatalog`.
- `BoundedRead`: one read of a resource, from an HTTP response or from a local
  file that may be written to meanwhile; each chunk, its end, an error, the
  cancellation and the release of the lock. Bytes are counted.
- `CamResources`: resolution of URIs, checks of roots, base 32, base 58,
  varints, CIDs and digests, as operators. Its behaviours ask one question and
  get one answer, so TLC goes through all questions of the instance; the
  properties say what the answer should be without going through the code's
  loops: where a path leads, which number a text spells. A loop of the code is
  `Loop(step, base, items)`, a recursive function of the position whose step is a
  function of what was made so far and the next item (`CollapseStep`,
  `Base32Step`, `Base58Step`). A varint is its digits of base 128 up to the first
  byte below 128 (`End`), instead of a loop.
- `CamExpressions` (values, expressions, and what conformance knows of them
  ahead of time), `CamAbi` (parameters, arguments and results, on both sides),
  `CamRoutes` (a publication that is checked, loaded, opened, answered,
  dispatched and continued). `CamScreen` (parsing and the two resolutions of a
  UI), `CamTypeflow` (what conformance proves of a UI), `CamViews` (all of it:
  `CamRoutes` with its UI, edits and presses). In these modules an exception is
  `Undefined`, `Failed` or `<<Failed>>`; which of several faults is reported
  first is left out, whether there is one and on which route is not. A text is
  one of the strings of the instance, with tables in CONSTANTS for what the
  grammars make of it.
- `EgressProxy`: one connection, as the connections share nothing: the request,
  the addresses that DNS answers, the attempts, and the tunnel with a `select`,
  its events one after another, partial sends, half-closes, resets and the one
  deadline. `RpcProxy`: the single-threaded server with its queue, the reading
  of a body byte by byte, the verdict, the upstream and the answer. The proxy
  relays whatever status the upstream gives (`rpc_proxy.py:302`), so an answer
  says in the model whose it is: an upstream's own 400, 403 or 413 answers a
  request that did leave, and its status alone does not tell a client so.
- `MC*`: constants for TLC. `*Proofs`: theorems (those of `ViewerSession` are in
  `CamWebProofs`). A definition called "mutated form" is
  a plausible mistake in the operation it precedes; no specification uses it.

In the contract modules `world` is the storage (with the events and payments),
and `frames` is the stack of calls that wait for a callee. `Enter...` runs the
code up to the call and pushes a frame that keeps the world to restore;
`Accepts` runs the rest; `Rejects` restores the world. This is EVM revert as
far as it matters here, because neither contract catches a failure. While a
callee runs, any contract may be reached (`Calls`), others may not, and a call
made by a callee that reverts alone is no step. `committed` is the world of the
transactions that ended.

## Runs

| Run | Shows |
| --- | --- |
| `session_awaited` | With a host that awaits each call (the terminal's loop), over two loads and a republished CAM: CAM and first view arrive together, the idle view is the account's own, is of the loaded CAM, prepared calls act for it, a failed setAccount leaves a snapshot the session had, and each call settles. |
| `session_rollback` | Expected violation: with a field edited while setAccount is pending, its failure leaves the old account under a screen resolved for the new one. |
| `web_modal` | The App over a session whose calls overlap, with a user who leaves the page alone while connecting: one submission, prepared calls that are current, signatures for the sender only, silence only for what was overtaken, and every transaction reported. |
| `web_stale` | Expected violation: an action during the connection survives the change of account. |
| `vault` | The vault under reentrancy, rejection and rotation, and its refinement of the ledger. |
| `registry` | The registry under callbacks, transfers, delegation, expiry and reconfiguration; in every state, the actions each view offers each account are those the manager would perform, and the view has the fields they read. |
| `publication_pinned` | A viewer that insists on hashes runs only documents and resources that fit each other and were checked together, whatever the author, the tools, the server and the owner do in between; its reads amount to one publication. |
| `bounded_readers` | Every combination of headers, chunks, ends and errors: the buffer stays within the limit, what is accepted is whole, and every read ends without a lock. |
| `resource_uris` | Every short path, URI, CID and digest against a reference definition. |
| `publications` | Small publications with every kind of argument, parameter, output, continuation, refusal, prop, Include, text field and button: what conformance says against what happens. |
| `egress_tunnel` | Bytes arrive in order and once; the tunnel leads to a checked address; it ends. |
| `rpc_gate` | Only allowed requests leave, once; what the proxy rejects did not leave and what it relays, an upstream's rejection too, answers what did; everyone is served. |

The properties of `publications`: what passes without a word fails only on
what a user or a contract knows (`CleanFailsOnWhatIsUnknown`), is loaded and has
an answer that renders (`CleanViewsCanBeShown`), and its buttons get as far as
their arguments allow (`ClosedPressesSucceed`). What is reported never works
after all (`ReportedNeverHappens`). The screen has the fields of the state and
an edit that cannot be rendered leaves no trace (`ScreenIsOfTheState`); what a
contract answers can be sent back (`AnswersAreArguments`); an account is asked
for exactly when the route cannot do without (`AccountIsAskedWhenNeeded`); and a
text from a user or a contract is never taken for an expression
(`DataIsNeverResolved`).

### Bounds

`MaxLoads`, `MaxCams`, `MaxInteractions`, `MaxSends`, `MaxWalletSwitches`,
`MaxNonce`, `MaxIntents`, `MaxForced`, `MaxTime`, `MaxDuration`,
`MaxGovernance`, and in `CamPublication` `MaxEdits`, `MaxRefreshes`,
`MaxUploads`, `MaxPublications`, `MaxBindings` and `MaxPreflights` bound
counters that the code does not bound; each is a guard of the action that
counts. `MaxBytes` of `EgressProxy` and `MaxFile` of `BoundedRead` bound what a
peer sends and how far a file grows. `Questions`, `Publications`,
`InputValues`, `Raws` and `StateTexts` are what is asked, written, given,
answered and typed.

The instances are the smallest in which the hazards happen. Two accounts, so an
account can be the wrong one, plus none; a route whose calls need an account, one
whose screen alone reads it, and one that needs none; two calls in flight, so one answer overtakes another; two CAMs
and two loads; two sends, so one can follow a stale one; two payers, of which
one is a contract that can be treasury, owner and payer at once; two keys, so a
rotated one remains; one intent more than a nonce allows, so a nonce is signed
twice; one serial, two collections, an account with code and one without; three
steps of governance, enough to name a registrar, change the collection and one
thing more. The serials of the registry do not interact, which is why one is
enough there; the theorems are for any number. `Grants` holds the full
capability set only: `_canAct` tests one capability at a time. Five
interactions in `web_modal` and four in `web_stale` are enough for a dispatch, a
connection, a send and one that overtakes it.

In `publication_pinned` a document declares an ABI and a UI, each in two
versions of which one combination does not run; one edit, one refresh, two
uploads and one publication lead from the deployed version to any other, at two
locations, and a load meets any mixture of them. In `bounded_readers` the limit
is four bytes, chunks have up to three and files up to six, so a limit is met
exactly, passed by one, and passed in the middle of a chunk. In `egress_tunnel`
three bytes each way go through a buffer and a window of two, so a chunk is cut
and a rest remains; addresses are a global one of each family and one that is
not global. In `rpc_gate` a batch has its bad item after a good one, the limits
are one byte and `Lengths` goes one past them; `Methods` has an allowed and a
forbidden one, an item may be `Nameless` or `NotAnObject`, and the upstream
answers with a 200 or with a rejection of its own. In
`resource_uris` bases, plain and hierarchical, relative and absolute, and
references have up to three parts, the texts up to six digits taken at the
boundaries; `BufferSize` and `SafeInteger` are scaled down, and
`NumbersAssumption` says what the decoder needs of them. In `publications` a
manifest has at most three routes, a function one or two parameters or outputs,
an ABI type one level of nesting (an array of tuples), and a UI three levels of
nodes, which is enough for each pair of an origin and a destination of a value,
since no code looks at two arguments together.

`KeySymmetry` and `CollectionSymmetry` permute constants that no definition or
property names and that the runs use without liveness.

CHECK_DEADLOCK is FALSE everywhere: a user, a host, a peer or a chain may stop,
a question is asked once, and the bounded counters end every behaviour.

### Assumptions with a name

- `Overlap`: FALSE is a caller that awaits each call before the next, TRUE one
  that does not (the App). `MaxLoads <= 1` is a session that is loaded once.
- `ConnectIsModal`: TRUE is a user who does nothing else on the page while a
  wallet connection is in progress. The code does not enforce it; `web_stale`
  shows what happens without it.
- `GovernanceIsReachable`: FALSE says that the callback of a new owner reaches
  no account with an admin, configurer or pauser role of the manager or a
  collection. The permission plan
  (`dapps/bike-nft/notes/001_permissions.txt`) gives those roles to a Safe or a
  timelock, which is not called from there. With TRUE, `RecordsKeepTheirToken`
  fails: `safeMint` comes between the check that a serial is unregistered
  (`BicycleComponentManager.sol:537`) and the write of its record (547), so a
  callback that reaches the configurer can register the serial in another
  collection, and the outer call overwrites that record.
- `AllowUnsigned`: FALSE is a viewer that insists on `camHash`.
- `QuestionsAssumption` of `CamResources` says what is asked: the code refuses an
  empty URI (`assertURIString`), a hierarchical base begins with a slash
  (`HIERARCHICAL_URI_RE`), and only characters of the alphabets are decoded
  (the patterns of `isSupportedIpfsCid`). `NumbersAssumption` says that
  `BufferSize`, 2^32 in the code, is a multiple of 2^13, as at most seven bits
  are left when five are added and a byte is cut out, and that a digest's length
  is one byte of a varint. `NamesAssumption` keeps the kinds of parts apart.
- The other ASSUMEs of the modules give the constants their types, say that a marker
  such as `None` or `Error` is none of the values it stands next to, and that
  `Payers` is finite, as a set of addresses is.
- `CollectionIsReady` in `BikeUI`: what no view looks at, whether the manager
  has its role in the collection, whether someone else minted the serial's
  token, and whether the component lives in the collection that is configured
  now. The pause the views show is the configured collection's, so a component
  of an earlier collection may be offered a metadata update that its own paused
  collection refuses.

### Fairness

`FairSpec` of `ViewerSession` asks of each call in flight that its request is
answered or fails, as an HTTP request to the RPC does. `WebFairSpec` asks it
only of a submission whose transaction has a hash: from there on the handler
waits for RPC answers, and for the receipt 20 s at most
(`RECEIPT_WAIT_TIMEOUT_MS`). The user and the wallet's prompts are under no
fairness. `BoundedRead` asks that each read and cancel settles, never what it
gives, so a server that sends empty chunks for ever is in the model.
`EgressProxy` asks that its thread runs and time passes; the peers owe nothing.
`RpcProxy` asks that its thread runs, each upstream operation having a timeout,
and that a client sends what it announced or hangs up: the code has no timeout
there, and without this assumption one client keeps all others waiting. The
contracts and the publication have no fairness.

## Proofs

Every theorem is for all values of the constants that satisfy the named
assumptions: any number of accounts, calls in flight, CAMs, routes, payers,
keys, serials, collections, clients, methods, bytes, and every bound.

- `CamWebProofs`, the session. `TypeInv` is `TypeOK` with `LoadIsAtomic`: a read
  captures the loaded CAM, so the type of `pendingCalls` needs that nothing is
  read before a load. `AccountRoutesAreReadForAnAccount` needs that a read in
  flight was begun for an account when its route needs one. It does not say that
  every such view is shown to an account: an edit checks what the continuation
  and the screen read (`AccountScreens`), not what the route's calls need, so an
  edit during `setAccount` to no account resolves the others for nobody
  (`session.ts:154-178`). With
  `Overlap = FALSE` at most one call is in flight, and what its closure captured
  still is the session's state (`AwaitedInv`): this gives
  `IdleViewIsTheAccounts`, `ViewIsOfLoadedCam` and the two action properties.
  With overlapping calls `ViewIsOfLoadedCam` is proved for a session that is
  loaded once, which is every session of this repository's web application. Nothing here
  assumes that the calls of the application overlap; its runs say so.
- `CamWebProofs`, the application. Each handler takes a step of the session or none
  (`WebUsesTheSession`), which gives the session's theorems to the App.
  `OneLoad` says that the load runs while the page is loading and once;
  `OneInv` that the gate, the revision and the running submission go together,
  which is `OneSubmission`. From it follows that a submission given up silently
  was overtaken. `PreparedCallIsCurrent` and `SignedForSender` hold for a user
  who does nothing else while connecting (`ConnectIsModal`, an assumption of the
  two theorems; `web_stale` shows that the first fails without it). Their
  invariant, `CurrentInv`, is about what a closure still knows after an await:
  a handler whose revision is the present one is alone with its kind of result
  (`OneResult`), a connection has overtaken all that was in flight
  (`ConnectIsAlone`), the screen's account is the session's except while a new
  account's view is read (`AccountIsShown`), and reads that will be shown were
  begun for the present account (`ReadsAreForTheAccount`).
- `DepositVaultProofs`. The stack is the hard part: the inductive invariant
  says that there is at most one frame and that `entered` is set exactly then
  (`OneCall`). The frame's saved world has the receipts of the current one; a
  deposit in flight differs from it in the one nonce it used up and the one
  payment it made (`DepositInTransit`), a sweep in neither (`SweepInTransit`).
  From it follow the receipts' numbers and signatures, and that committing a
  frame is one ledger step and restoring it none (`VaultImplementsLedger`).
  `ReceiptsArePaid` follows from the refinement: a ledger step adds a payment
  and its receipt, so the committed payments are the sums of the committed
  receipts (`LedgerStepPays`). Sums are folds over finite sets; that an element
  can be taken out of one in any order (`AnyOrder`, `SumTakesOut`) is proved
  from a smallest set for which it would fail (`SmallestSubset`), which the
  well-foundedness of the numbers gives without an induction theorem.
- `BikeRegistryProofs`. Registrations nest to any depth here, so the invariant
  speaks of the current world and of every saved one: records have tokens, and
  the frame's token was minted and cannot be burnt. `Exclusive`: while no
  callback reaches governance, the waiting registrations mint into the one
  configured collection and hold distinct serials that have no record yet; hence
  `RecordsKeepTheirToken`. `Frozen`: what is retired in the committed world is
  unchanged in the running world and in every world that may be restored, and no
  frame registers it; hence `RetiredIsFinal`, which needs no assumption about
  governance. `OfferedActionsRender` needs of the invariant only the types: each
  write is offered in the statuses whose views have its fields.
  `OfferedActionsSucceed` says that the guard of the offered operation holds
  (`MayRegister` with `MayMint`, `MaySetMetadata`, `MayMarkMissing`,
  `MayClearMissing`, `MayRetire`; each action of `BikeRegistry` begins with its
  own), so it needs no ENABLED. A record's token exists, which is
  `RecordsHaveTokens`, so the roles of the actor, the status and the two pauses
  decide, and the projections ask for all of them.
- `CamPublicationProofs`. The invariant has two sides. `Published`: the root only
  ever held hashes of documents that a preflight approved, and those run.
  `Pinned`: a load holds a hash that the root had since the load began, the
  document that was accepted for it, and resources as that document declares
  them. Hence `WhatRunsWasChecked` and, for a viewer that insists on hashes
  (`AllowUnsigned` is FALSE), the refinement `PublicationImplementsCatalog`: the
  publication whose hash the load read is the one it amounts to.
- `EgressProxyProofs`. `BytesAreAccounted`: in each direction what was delivered
  and what the proxy holds is what it received, and it received no more than was
  written; a partial send moves that cut and nothing else. `EndsAreClean`: a side
  that ended the tunnel has nothing unread or held. `AttemptsAreChecked`: from
  the first attempt on the addresses were checked, and attempts only drop some.
- `RpcProxyProofs`. One connection is served at a time, so what was forwarded
  for it depends on the handler's stage alone (`Served`); every other client has
  its one answer, and whose answer it is tells whether its request left (`Tells`;
  a 502 of the proxy does not), or was not looked at yet (`Untouched`). What left was a whole request, and left once
  (`LeavesOnce`). The first item that is refused decides the status: `Verdict`
  takes the least index of a set.
- `BoundedReadProofs`. The offsets of the chunks are a recursive function; that
  one chunk more adds its length is proved from a least length for which it
  would fail. With it `CountIsKept`, the bytes that are kept are the bytes that
  were counted as long as the read may still succeed, and `EndIsLast`, a result
  comes after the end and as it was checked.
- `CamResourcesProofs`. An answer is the result of its operation
  (`AnswersAreResults`, the inductive invariant), and the work is to show that
  the result is right for input of any length. What a loop preserves follows
  from a least position at which it would fail (`LeastNumber`, `UpTo`), so no
  induction theorem is needed. *Paths*: what `normalizePath` collected leads
  where the parts so far lead (`CollapseWalks`, with `CollapseKeepsNormal`:
  only leading `..` remain); collecting it again changes nothing
  (`CollapseOfNormal`), in whatever dots it is written out
  (`CollapseAroundDots`); against the directory of a base of each form this is
  `ResolvedKey`. *Numbers*: after each character of base 32 the bytes and the
  rest in the buffer are the number so far (`Base32StepHolds`); a character of
  base 58 multiplies the number by 58 and carries (`Base58StepHolds`,
  `Balanced`); the digits of a varint can be read off its value (`IsRest`), so
  the value determines them (`VarintIsUnique`); the header of a CID is four
  bytes, as each value in it is below 128 (`CidIsExact`). Hence
  `KeysDeterministic` and `IdentifiersExact`.

Proved and not listed in a run: the type invariants of all eight modules with
state, `AccountRoutesAreReadForAnAccount`, `ReceiptsAreConsecutive` and
`RetiredIsFinal`.

Model-checked only:

- `CallsSettle`, `TransactionsAreReported`, `TunnelsEnd`, `EveryoneIsServed`
  and `ReadsEnd` are liveness under fairness: out of the prover's reach.
- The eight properties of `publications`. `CamExpressions`, `CamAbi`,
  `CamRoutes`, `CamScreen`, `CamTypeflow` and `CamViews` recurse over values,
  types and documents as trees with RECURSIVE operators, which the prover does
  not take, and the properties say what these compute for every tree.

## Findings

1. `session.ts:149`. A failed `setAccount` restores the account it captured and
   nothing else. An edit of a field while it was pending resolved the screen
   for the new account (`updateState`), and that screen stays; two overlapping
   calls end the same way (`session_rollback`; the promise is the title of
   `session.test.ts:485`).
2. `App.tsx:191`. `connectWallet` bumps the revision before its awaits and not
   after them, against the comment at `App.tsx:310-311`. What the user prepared
   in between stays on the screen next to another account (`web_stale`). The
   signature is still guarded by the wallet's account and the simulation.

### Known disagreements between conformance and the run time

Modelling both sides showed places where they differ. Each is left in the
definitions as the code has it, and the instance of `publications` leaves out
just the combinations that meet it, so that everything else is checked:

- An argument that is an object of the form `{"type": "static-string", ...}` is
  taken by `isKnownStaticStringValue` (`known-route-call.ts:162`) for
  conformance's own mark of a string, passes for a scalar, and fails at run
  time.
- `$account.address` and `$host.address` are reported as arguments of type
  `bytes` (`abi/routes.ts:446`), although `isAbiBytesValue` accepts them.
- `materializeTemplateValues` (`handoffs.ts:127`) looks the inputs of a
  continuation up among the ABI arguments of the call: the instance gives them
  different names.
- An aggregate handed to a scalar inside an object of the next route is not
  reported (`handoffs.ts:143`): the instance hands over scalars.
- A write route may continue to a write route according to the checks, and the
  viewer refuses it (`read-resolution.ts:46`): the instance continues to read
  routes.
- `IndexesList`: of a list that is written out conformance forgets the elements
  (`abi/routes.ts:138-159`). It reports an index that exists when some element
  is unknown, and lets one past the end pass.
- `NestsList`: a list inside the list an Include selects from is flattened by
  conformance and refused by `cam-screen`. `EmptyRoot`: a root that includes an
  empty list passes as one whose name is not known.
- `NoKey` and `OpenKey`: of the key of a text field conformance looks at the
  spelling only when it is a string, and a key that only the contract knows
  leaves the set of fields closed (`typeflow.ts:518`).
- `ReadsItsArguments`: nothing is checked of what a node reads besides its
  arguments, and besides the state in its buttons.
- `cam_resource_integrity.py:26` says that the run time accepts a digest in
  upper case; `verifySha256ResourceIntegrity` (`resources.ts:516`) refuses it, as
  `verifyIntegrity` does.

## Not modelled

Formatting, messages, layout, logging and error codes. Gas, block
reorganisations and hashing (a hash is what it hashes). The manager's account
info, time stamps, approvals (a transfer may be by the owner or an approved
operator, so `Transfer` names no caller), admin handover, collection-wide URIs.
Direct use of a collection's `setTokenURI`: the permission plan gives that role
to the manager alone, and `RetiredIsFinal` depends on it; likewise `EnterMint`'s
URI is written when the owner accepts, as the code does. A delegation that
comes back when its grantor owns the token again is in the model; the code
documents it as the rule.

Of conformance, the checks of the raw shape of the JSON, of metadata and of the
repository's own fixtures; of the protocol, inert values and JSON guards, which
the models take as given, because a value of theirs has no prototype, accessor
or cycle. Of the terminal, its prompts and their parsing: its calls are those
of `session_awaited`. The integration fuzzer is a test driver that chooses
random legal actions of the parts modelled here. Build and deployment are
compose files, images and scripts without state of their own. What the
proxies do at startup and their fixed answers to other methods have no state.

The addresses of the contracts are read one by one and after the CAM
(`contracts.ts:29`), and `CamRoot` binds one name at a time: the code promises
no common block for them, and `CamPublication` has these behaviours without a
property that forbids them. Likewise the end of one direction of a tunnel drops
what the other has not delivered, an upstream body cut short is passed on with
a length of its own, a base 32 CID may have a second spelling with a zero digit
more, a shorter `maxDelegationDuration` leaves earlier delegations as they are,
and another minter may take a serial's token id for good.

## What is left

Every component that keeps state or decides has its module, and every safety
property of a run has its theorem except those of `publications`. For these,
the recursive operators of `CamExpressions`, `CamAbi` and `CamTypeflow` would
have to become recursive functions of a depth, as the loops of `CamResources`
became functions of a position. The first to prove then would be
`DataIsNeverResolved`, that resolution never looks into data, and
`AnswersAreArguments`, that an ABI's results are in the range of its arguments:
both are about one recursion each, while the others compare two.
