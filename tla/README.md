# TLA+ models of advance-golang

This directory holds TLA+ models of the programs in `src/`, checked with TLC.
Most of the work is on the one part of the repository with real state and
real failure modes: the pdx-chain **StateDB**. It is a caching, journaled view
over an account trie (`src/工程化实践/pdx-chain-so/pkg/pdx-chain/core/state/statedb.go`).
The other programs are inventoried below with a plan for each.

## 1. Inventory

| Part | Source | State | Operations | Status |
|---|---|---|---|---|
| StateDB | `core/state/statedb.go` | trie, live objects `stateObjects`, `stateObjectsDirty`, journal, `validRevisions`, `nextRevisionId`, `refund`, `preimages`, sticky `dbErr` | New, NewCopy, Copy; the setters; Suicide, CreateAccount; AddRefund, AddPreimage; Snapshot, RevertToSnapshot; Finalise / IntermediateRoot; the getters (which load into the cache); SetDirties, Setjournal | modelled except SetDirties/Setjournal (see section 5) |
| Journal | `journal.go`, not in the repository | entries, per-address `dirties` counts | append, length, revert | modelled from the spec |
| Account object | `state_object.go`, not in the repository | data (balance, nonce, code, storage, PDX storage), `suicided`, `deleted` | the mutators StateDB calls, markSuicided, empty, deepCopy | modelled from the spec |
| SO handler and stub | `so/handler.go`, `so/stub.go`, `so/message.go`, `simpleDemo.go` | PDX key/value store of one address | handle(GET_STATE, PUT_STATE, PUT_STATES, DEL_STATE, GET_HISTORY); the stub calls; the demo contract | modelled (`SoHandler`) |
| errgroup HTTP server | `并行编程/httpserver/main.go`, `server/server.go` | a goroutine, an unbuffered channel, the errgroup | ListenAndServe, `sch <- s`, `g.Wait`, the final select | modelled (`ErrGroupServer`) |
| VRF | `crypto/vrf/vrf.go` | none (pure) | Unmarshal, y2, h1, h2, Evaluate, ProofToHash, VerifyRandom, GenRandom | partly (`Vrf`, on a toy curve) |
| JWT / SM2 | `crypto/jwtSM2.go`, `crypto/jwt-go/sm2.go` | none | sign, verify | not modelled: library calls on strings |
| sqlSearch | `Error部分/sqlSearch/main.go`, `sqlRest/sql.go`, `dbConfig/config.go` | the `*sql.DB`, its connection and PRAGMAs, the table and its rows in the file | CreateDB, OpenDb, CreateTbWithName, InsertData, QueryData, CloseDb, main's sequence, rerunning the program | modelled (`SqlSearch`) |
| params, public | `params/utopia_params.go`, `core/public/public.go` | globals | none | not modelled: no behaviour |

How the parts interact. The EVM (outside the repository) drives one StateDB
per unit of work. It calls setters, takes snapshots, reverts on failure and
calls IntermediateRoot between transactions. Speculative execution takes a
`Copy()` of a view. The SO handler reads and writes the PDX storage of a
StateDB-like store (`MStateDB`, also outside the repository) through
`GetPDXState`/`SetPDXState`. The demo contract reaches the handler through the
stub.

The hard behaviours of StateDB:

- Sequences of setters, reverts and Finalises on one view. The journal's
  per-address counts, the revision stack and the cache must stay consistent
  through any order.
- Copy mid-transaction, and copies of copies. NewCopy shares a trie.
- Storage failures on any read or write. They are swallowed into a sticky
  error, so the cache and the trie may differ.
- Corrupt records that decode as "absent".

## 2. Modules

| Module | Models | Notes |
|---|---|---|
| `StateObject` | the Account record and object, the object's mutators and the journal entries they append | spec-modelled |
| `Journal` | StateDB-level entries, `append`, the `dirties` counts, `revertEntry`, the recursive `revert` | spec-modelled; EXTENDS StateObject |
| `StateDB` | every view's fields as functions of the view, one action per StateDB operation | EXTENDS Journal |
| `MC_StateDB` | constant definitions for TLC (initial trie contents) | EXTENDS StateDB |
| `SoHandler` | `Handler.handle` for each call type, the stub's calls, the demo contract's `Run` | EXTENDS SequencesExt |
| `MC_SoHandler` | the inputs, function names and chain TLC enumerates | EXTENDS SoHandler |
| `StateView` | what one view promises: getters, root, open snapshots, error latch | abstract; refined by `StateDB` |
| `ErrGroupServer` | main's `g.Go`/`g.Wait`/select, the worker in `StartServer`, the connections | with fairness |
| `Vrf` | the curve arithmetic, `vrf.go`'s functions as operators, a signer and a verifier | EXTENDS Integers, Sequences |
| `SqlSearch` | main's sequence of sqlRest calls, the DSN, the file that outlives a run | constants set in the cfgs |
| `MC_Vrf` | the toy curve y² = x³ + 2 mod 19 and the keys, messages and scalars | EXTENDS Vrf |

### Correspondence to the code

- **Views.** Each StateDB instance is an element of the constant `Views`.
  Each field of the struct (statedb.go:54-84) is a function from views. A
  trie is named by the view that opened or copied it: `trieOf[v]` is
  `v.trie`, and `tries[t]` is that trie's content. That is how `NewCopy`
  (which shares `state.trie`) differs from `Copy` (which uses
  `db.CopyTrie`).
- **Trie contents.** A trie maps an address to an `Account`, to `Nil`
  (missing) or to `Corrupt` (bytes `rlp.DecodeBytes` rejects).
- **Read path.** `getStateObject` returns the live object; a deleted one
  reads as nil. Otherwise it does `TryGet` (which may fail when
  `ReadFailures`, setting `dbErr`), decodes, and inserts the result into the
  cache.
  - `createObject` journals `createObjectChange` or `resetObjectChange`.
  - `GetOrNewStateObject` composes the two.
  - `Setter` is the shared shape of the StateDB setters: get or create the
    object, apply the object's mutator, append the entries.
- **Operations.** `Suicide`, `CreateAccount`, `AddRefund`, `AddPreimage`,
  `Snapshot`, `RevertToSnapshot`, `Finalise`, `Copy` and `NewCopy` each
  translate the function of the same name.
  - `RevertToSnapshot` searches with `SearchRevision` (sort.Search). A revid
    the search does not hit makes the code panic, so the model has no step
    for it.
  - `IntermediateRoot` is `Finalise` followed by `s.trie.Hash()`, which
    changes nothing (`RootData` is what it hashes).
    `GetSelectiveStateObjectRoot` is a getter: its nil-object error is
    returned, not latched in `dbErr`.
  - `Finalise`: a nondeterministic set `F` of dirty addresses has its
    `TryUpdate`/`TryDelete` fail when `WriteFailures`. A dirty address with
    no live object is looked up again (`FinaliseObjects`, statedb.go:571-574);
    when that finds no account the code dereferences nil at line 576, so
    `FinaliseResolves` guards the step (a panic is no step).
  - `Copy`: its second loop calls `deepCopy` on `self.stateObjects[addr]`
    for each address of `stateObjectsDirty`; an address without an object
    would panic there, and `Copy` is guarded accordingly.
- **ripemd.** `stateObject.touch` (state_object.go, not in the repository)
  appends a `touchChange` and then calls `journal.dirty(ripemd)`, a count no
  entry owns, so `journal.revert` leaves ripemd dirty after undoing its
  touch (statedb.go:500-503 and 561-568 describe this). `Journal`'s
  `append` counts it through `ripemdTouch`; the constant `Ripemd` is
  `{a1}` in the failures, copy and ripemd runs and `{}` in core, where the
  extra counts would push the run past five minutes.
- **Getters.** They are the `Get` and `GetCodeSize` actions: the cache load
  and any error they cause. What they return is `Observe(v)`.
- **History variables.** Two variables exist only for the properties:
  - `snaps[v][id]`: what the view showed when snapshot `id` was taken;
  - `touched[v]`: the addresses touched since the last Finalise.
- **Data abstraction.**
  - A balance, nonce or storage value is a small integer.
  - A code is a model value (`NoCode` is the empty-code hash).
  - The PDX store is a function from keys to small integers.
  - Code bytes, hashes, logs and the encoding are left out. No property
    reads them.

### Refinement: StateView

`StateView` forgets the journal, the cache and the trie. Its state is the
view the getters show, what the root commits to, the stack of open
snapshots with the view at each, the next snapshot id and whether `dbErr`
is set. Its steps are Mutate (root and snapshots unchanged, refund and
preimages only grow), Snapshot, Revert (restores the view, drops later
snapshots), and Commit (drops all snapshots, resets the refund, removes
suicided and, if asked, empty accounts, and makes the root commit to the
view unless an error is recorded). `StateDB` instantiates it for view
`View0` with the refinement mapping `view <- Observe(View0)`,
`committed <- RootData(View0)` (the trie's account data, what
IntermediateRoot hashes), `saved <- OpenSnapshots(View0)` (validRevisions
paired with the `snaps` history), `nextId <- nextRevisionId`,
`failed <- dbErr # NoErr`; `ImplementsStateView == AbsView!Spec` is a
PROPERTY of the core and failures runs. Revert promises nothing once an
error is recorded: see `revert_err` below.

### ErrGroupServer

- **State.** `mainPc` and `workerPc` are the two goroutines' program
  counters; `srv` is the http.Server; `wg`, `gErr` and `ctxDone` are the
  errgroup's WaitGroup counter, first error and cancelled context; `conn`
  is each client connection (none, in the handler, served).
- **Actions.** `Go` (main.go:16), `Wait` (25), `Select` (27-33),
  `ListenAndServe` (server.go:14, the listen fails or it serves),
  `ServeFails` (Serve stops on an accept error), `Accept` and `Handle` (the
  handler of server.go:11), `GoReturnsError` (main.go:18-19 with errgroup's
  error path). `ListenAndServe` never returns nil (net/http), so the
  worker's `sch <- s` has no step, and the select's `<-sch` case is never
  ready.
- **Fairness.** The Go scheduler runs every runnable goroutine, so main,
  the worker and each handler are weakly fair. Clients connecting and Serve
  failing belong to the environment and get no fairness: the server may
  serve forever, which is why `ExitAfterServeEnds` is conditioned on
  `srv = "failed"`.

### Vrf

- **Curve.** y² = x³ + 2 over 0..18, 12 points and infinity, prime order
  N = 13. Like secp256k1 it has a = 0 and N < P < 2^Bits (Bits = 5 stands
  for byteLen bytes). Points are `<<x, y>>`, infinity is `<<0, 0>>` as in
  Go. `curve.ScalarMult` (geth's C library) is `ScalarMult`: nil for a
  scalar 0 or >= N, a panic for a nil point. `params.Add` is `ParamsAdd`:
  the chord rule, but doubling with a = -3, as Go's generic
  `CurveParams.Add` does.
- **Code.** `y2`, `defaultSqrt`, `Unmarshal`, `h1` (100 counters), `h2`
  (discard method into [1, N-1]), `Evaluate`, `ProofToHash`,
  `NewVRFSigner`, `NewVRFVerifier` and `VerifyRandom` are operators
  translated line by line. sha512 is
  `ToyHash`, a fixed mixing of the counter and the input; sha256(vrf), the
  index, is the vrf point itself.
- **State.** `out` is the proof handed to the verifier (made by
  `GenRandom` from a key, message and nonce, or by `Forge` from any s, t
  and vrf); `verdict` is VerifyRandom's answer to the last proof; `signer`
  records a panic of Evaluate.

### SoHandler

- **State.**
  - `store` is the PDX storage of the handler's address, a function from
    32-byte slots to values. Here a slot is `HashLen` bytes.
  - `ret` is what the last stub call returned: a `Res(res, err)` record, or
    `Panic` when the stub dereferenced the nil response handle gives back.
- **Handler.** `handle` is a CASE over the call types, one operator per case
  (`handleGetState`, ..., `handleGetHistory`). The keys go through
  `BytesToHash`: the last `HashLen` bytes, left-padded with zeros.
  - `putPairs` is the PUT_STATES loop with its bound `len(inputs) % 2`.
  - `collect` is the GET_HISTORY loop over the constant `Chain`:
    - a block past the head is a nil dereference (`Panic`);
    - a pruned block stops the loop;
    - an empty value is skipped;
    - records are pushed to the front of the list;
    - `MaxSize` limits the result, and every record has encoded size 1,
      since `rlp` writes none of `RecordElement`'s unexported fields.
- **Actions.** `GetState`, `PutState`, `DelState` and `GetHistoryForKey` are
  the stub's calls. `Run` is the demo contract. Each takes its inputs from
  the small sets `Inputs` and `Functions`. After a `Panic` the process is
  gone, so nothing follows it: those cfgs set `CHECK_DEADLOCK FALSE`.

### SqlSearch

- **State.** `pc` is main's position; `db` its `sqldb` (`Nil` when
  sql.Open failed); `conn` and `pragmas` the pool's connection and the
  PRAGMAs go-sqlite3 ran on it. `table` and `rows` (how many "echo" rows)
  are the database file, which survives the process. `v` and `qerr` are
  QueryData's results; `iterErr` is `rows.Err()` at the end of its loop,
  which the code never reads and the model keeps only for the properties.
- **Actions.** One per call main makes: `CreateDB`, `CreateTbWithName`,
  `InsertData`, `QueryData`, `CloseDb` (with the `println` of v). Each call
  on a nil `sqldb` is `Panic`. The first Exec or Query opens a connection
  (`Connect`), which may fail, and the statement itself may fail;
  QueryData reads k of the file's rows, all of them or fewer when a step
  fails. `Rerun` starts the program again on the same file.
- **DSN.** `Config` is the DSN as a sequence of fields, each a sequence of
  tokens, so the missing "=" after `_synchronous` is kept; `KeyOf`,
  `ValueOf` and `Get` are url.ParseQuery and params.Get as go-sqlite3 uses
  them, and `OpenPragmas` the PRAGMAs it runs (synchronous defaults to
  NORMAL).
- **OpenDb.** main never calls it; it is the operator `OpenDb(stat)` over
  `pathExist` (os.Stat's outcome: nil, the wrapped not-exist error, or any
  other error as it is), then sql.Open with the driver name "sqlite",
  which no import registers, so it returns `Nil` whatever the path.

## 3. Runs

| Run | cfg | Expect | Checks |
|---|---|---|---|
| core | `MC_StateDB.cfg` | pass | `TypeOK`, `CacheAgreesWithTrie`, `RevisionStackWellFormed`, `RevertRestoresSnapshot`, `FinaliseRemovesTouchedEmpty` |
| failures | `MC_StateDB_Failures.cfg` | pass | `CacheAgreesWithTrie` with failing reads and writes, with ripemd |
| copy | `MC_StateDB_Copy.cfg` | pass | `DirtyObjectsBacked`, `CopyPreservesView` over three views (`SpecCopy`) |
| copy_root | `MC_StateDB_CopyRoot.cfg` | violation | `FinaliseCommitsView` |
| pdx | `MC_StateDB_PDX.cfg` | violation | `PDXStatePersisted` |
| so_get | `MC_SoHandler_Get.cfg` | violation | `GetStateReadsBack` |
| errgroup | `MC_ErrGroupServer.cfg` | pass | `TypeOK`, `ExitAfterServeEnds` (liveness) |
| errgroup_drain | `MC_ErrGroupServer_Drain.cfg` | violation | `InFlightRequestsDrained` |
| vrf | `MC_Vrf.cfg` | pass | `SignerNeverPanics`, `HonestProofsVerifyOffEdge`, `PanicsOnlyOnBadScalar` |
| vrf_forge | `MC_Vrf_Forge.cfg` | violation | `VerifierNeverPanics` |
| sql_query | `SqlSearch_Query.cfg` | violation | `QueryReportsFailure` |
| ripemd | `MC_StateDB_Ripemd.cfg` | violation | `DirtyAddressesResolve` |

The core and failures runs also check `ImplementsStateView`.

What the passing runs show:

- **DirtyObjectsBacked.** Every address of `stateObjectsDirty` has a live
  object in every view, copies of copies included, so Copy's second loop
  (statedb.go:512-516) never dereferences nil. The copy run has no
  reverts, so ripemd's revert case is outside it (see the ripemd run).
- **CacheAgreesWithTrie.** Whenever the journal is empty and `dbErr` is
  nil, the trie agrees with every cached object. With failures on, this says
  that every failure that could make them differ is recorded in `dbErr`.
- **RevisionStackWellFormed.** This is what `sort.Search` in
  RevertToSnapshot relies on.
- **RevertRestoresSnapshot.** A revert gives back exactly what the view
  showed at the snapshot: accounts, suicided flags, refund and preimages.
  This holds across nested snapshots, creates over existing accounts and
  suicides.
- **FinaliseRemovesTouchedEmpty.** This is the EIP161 rule.
- **CopyPreservesView.** A copy, and a copy of a copy, shows exactly what
  its source shows.
- **ImplementsStateView.** Every StateDB step is a StateView step under the
  refinement mapping: setters never move the root or the snapshots,
  RevertToSnapshot restores the matched snapshot and drops the later ones,
  Finalise drops all revisions and commits exactly the view unless dbErr
  is set.
- **ExitAfterServeEnds.** Once ListenAndServe has returned, main gets
  through g.Wait and the select and exits: the worker, the WaitGroup and
  the channel never wait on each other.
- **SignerNeverPanics.** For every key, message and nonce, h1 finds a point
  and Evaluate's own checks pass: y2 and Unmarshal decode curve points.
- **HonestProofsVerifyOffEdge.** Off the two edge cases below, a proof
  GenRandom made passes VerifyRandom: t = r - sk, h2's inputs and the
  verifier's sums agree.
- **PanicsOnlyOnBadScalar.** The verifier panics only on a scalar 0 or
  >= N; a vrf that is not a curve point is rejected with an error.

What the violation runs show (see `findings` in PROJECT.json):

- **copy_root.** A `Copy` taken in the middle of a transaction holds the
  pending objects only in `stateObjectsDirty`. The copy's Finalise walks
  `journal.dirties`, so its root leaves them out.
- **pdx.** `SetPDXState` on a loaded account is neither journaled nor
  dirtied, so Finalise never writes it.
- **so_get.** GET_STATE answers with a nil response exactly when the key
  holds a value, and the stub dereferences it. Every read of a stored key
  crashes.
- **errgroup_drain.** `sch <- s` is unreachable (ListenAndServe never
  returns nil), so `server.Shutdown(ctx)` is dead code and main exits with
  requests still in the handler. Shutdown would get an already cancelled
  ctx anyway.
- **vrf_forge.** A proof with t = 0 (GenRandom's own output when r = sk
  mod N) or a crafted s or t of 0 or >= N makes ScalarMult return nil and
  `params.Add` panics: 129 crafted bytes crash a verifier. Newer Go
  versions may also reject or panic on off-curve inputs in the generic
  `CurveParams` methods; that is not modelled.
- **sql_query.** When stepping the rows fails, `rows.Next` returns false,
  and QueryData returns "" with a nil error: it never reads `rows.Err()`,
  so main prints an empty value although the row is in the file.
- **ripemd.** Snapshot, `AddBalance(ripemd, 0)` on an account the trie
  does not hold (a createObjectChange, a touchChange and touch()'s extra
  dirty count), RevertToSnapshot: ripemd stays in `journal.dirties` with
  no object. Finalise's fallback `getStateObject` finds no account and
  returns nil, and `stateObject.suicided` (statedb.go:576) panics. Upstream
  skipped such an address (the commented-out `continue` at 561-569); this
  code fetches it again, which is safe only while ripemd exists in the
  state.

Further counterexamples. The runs are kept to the twelve weightiest
questions; these cfgs reproduce further findings with `tlc -config`, each
checking one property TLC finds violated (module `MC_StateDB`,
`MC_SoHandler`, `MC_Vrf` or `SqlSearch`):

| Name | cfg | Expect | Property |
|---|---|---|---|
| corrupt | `MC_StateDB_Corrupt.cfg` | violation | `CorruptRecordSurfaces` |
| so_alias | `MC_SoHandler_Alias.cfg` | violation | `KeysDoNotAlias` |
| so_history | `MC_SoHandler_History.cfg` | violation | `HistoryReadable` |
| so_head | `MC_SoHandler_Head.cfg` | violation | `HistoryNeverPanics` |
| copy_err | `MC_StateDB_CopyErr.cfg` | violation | `CopyCarriesError` |
| revert_err | `MC_StateDB_RevertErr.cfg` | violation | `RevertRestoresSnapshot` with write failures |
| vrf_honest | `MC_Vrf_Honest.cfg` | violation | `HonestProofsVerify` |
| newcopy | `MC_StateDB_NewCopy.cfg` | violation | `ViewsIndependent` (`SpecNewCopy`) |
| so_putstates | `MC_SoHandler_PutStates.cfg` | violation | `PutStatesStoresPairs` |
| sql_config | `SqlSearch_Config.cfg` | violation | `ConfigApplied` |

- **corrupt.** A record that does not decode is read as missing and then
  silently replaced.
- **so_alias.** Keys that differ only in leading zero bytes, or in bytes
  before the last 32, share a slot. A PutState of one overwrites the other.
- **so_history.** The handler always sets `History_Limit_Reached`. The stub
  decodes only an empty response, so no call returns a history.
- **so_head.** A finish block past the chain head makes GetBlockByNumber
  return nil and `block.Header()` panics (handler.go:148).
- **copy_err.** Copy does not copy `dbErr`: a copy of a view whose Finalise
  write failed reports no error and its trie misses the write.
- **revert_err.** A failed TryDelete leaves the account in the trie; a
  re-create and a revert then bring it back, so a revert after a storage
  error does not restore the snapshot. The spec is silent on this case.
- **vrf_honest.** When r = 2sk mod N, [t]G = [s]PK and `params.Add`
  doubles with the a = -3 formula: a valid proof is rejected.
- **newcopy.** `NewCopy` shares the trie. A Finalise in one view deletes an
  account the other still reads, which contradicts the spec's "copies are
  independent".
- **so_putstates.** The PUT_STATES loop runs `len % 2 = 0` times for every
  accepted message, so nothing is stored.
- **sql_config.** `Config()` writes `_synchronous0` with no "=", so
  go-sqlite3 finds no `_synchronous` parameter and runs `PRAGMA
  synchronous = NORMAL`: main's Synchronous "0" is silently ignored.

Every property of a passing run has a mutant in PROJECT.json. A mutant is a
plausible bug in the translated code, and TLC finds the property violated
once that bug is in.

### Bounds

- **One address.** Addresses are symmetric, and every operation acts on a
  single address. The bugs involving two addresses (the dirty counts of one
  being touched by another's entries) cannot arise, because `dirtied(e)` is
  the entry's own account.
- **`MaxJournal = 2`, `MaxRevisions = 2`.** These allow a nested snapshot
  around two entries. Examples are a reset over a loaded account followed
  by a suicide, and a create followed by a setter. In core the nonce is
  kept at 0 (emptiness still varies through the balance and the code);
  the whole core run reaches about 112,000 states.
- **Copy run.** Three views are the fewest for a copy of a copy. Keys,
  codes and hashes are empty there: `CopyPreservesView` is about which
  objects are copied, not their contents.
- **SoHandler runs.** Bytes are {0,1} and `HashLen = 2`. Inputs of
  lengths 1 to 3 then cover the padding of short keys and the truncation of
  long ones. The chain has two blocks, one of which has the key empty, and
  `MaxSize = 2`. Each violation shows up within two steps.
- **Failures run.** Reads and writes may fail at every step, so the state
  space is larger; one revision is kept.
- **ErrGroupServer.** Three connections let some be in the handler, some
  served and some never accepted when Serve stops; the drain violation
  needs one.
- **Vrf.** The whole group (12 nonces, all scalars) with two keys and two
  messages gives 48 honest proofs, among them both edge cases (t = 0 and
  r = 2sk); crafted proofs take every s, t in 1..12 (0..13 in `vrf_forge`)
  and every point, infinity and an off-curve pair as vrf. The hash is a toy,
  so nothing is claimed about uniqueness or pseudorandomness.
- **SqlSearch.** Three runs on one file: enough for a run to find rows of
  earlier runs, one of them failed half-way, and for a query to read some
  but not all of several rows. Every call may fail at every step.
- **ripemd run.** The core bounds with `Ripemd = {a1}`: one snapshot, a
  zero-value AddBalance and a revert reach the panic.

### Fairness

StateDB, SoHandler and Vrf have none: they are passive single-threaded
APIs and every property is a safety property. ErrGroupServer has weak
fairness on the goroutines' own steps (see above) and none on the
environment's. SqlSearch has none: its two properties are safety
properties, and the last run ends the behaviour, so its cfgs set
`CHECK_DEADLOCK FALSE`.

## 4. What further work could add

1. **SoHandler with StateDB.** The handler talks to `MStateDB`, which is
   not in the repository; a composition would join `SoHandler`'s store to
   StateDB's PDX storage by assumption only, so it is left out.
2. **Two addresses.** The core configuration with two addresses and the
   other data bounds at zero passes (about 40,000 states, 20 s); the Copy
   configuration with two addresses and two views has about 200,000
   states. Neither adds a question the one-address runs do not ask, since
   no StateDB property relates two addresses, so neither is a run.

## 5. Not modelled

- JWT/SM2 signing and verification: `GenTokenSM2` and `verifyTokenSM2`
  have no caller, and what they do is decided by the gmsm SM2 package and
  jwt-go's parser, which are not in the repository: there is no state and
  no sequence of calls to model, only library cryptography over strings.
- sqlSearch's `DBConfig.Encode`/`Decode` (JSON, no caller) and a failing
  `os.Getwd` (an empty path is one more way for the open to fail, which
  the model already allows).
- `SetDirties` and `Setjournal`: they have no caller in the repository and
  inject state from outside. Both alias another view's dirties map or
  journal (Go maps and pointers are shared, not copied), which the models'
  per-view journal cannot express.
- The data race of `Copy` against a concurrent setter: the spec makes a
  view single-writer and takes each call as one step; the race is Go
  undefined behaviour on maps, not a sequence of model steps.
- The strength of the VRF's hashes (uniqueness, pseudorandomness): a toy
  curve with a 4-bit-wide range cannot say anything about them.
- The parameters and the public interface: no behaviour.
- Hashing and encoding: left out (accounts are compared as records), because no
  property depends on hash values.
- `logSize`, `thash`/`bhash`/`txIndex` and `Prepare`: bookkeeping no
  property reads.
- Errors of `OpenTrie` in `New`: no view exists then.
