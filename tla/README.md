# TLA+ models of chainlogs

chainlogs turns tagged ("EGTX") transactions of a UTXO source chain (BCH) into
an EVM-style virtual chain of blocks and logs, stores it, and serves it over
Ethereum JSON-RPC. This directory holds TLA+ models of its stateful parts,
the TLC configurations that check them, and `PROJECT.json`, which maps every
model definition to the source lines it translates.

## 1. Inventory of the system

| Part | Source | State it keeps | Operations | Interacts with |
|---|---|---|---|---|
| Source-chain client | `bch/client.go`, `bch/client_raw.go` | none (connection) | 9 RPC wrappers, each retried up to 999 times at 10 s intervals | BCH node |
| EGTX codec | `bch/egtx.go`, `bch/abi.go` | none | `ExtractEGTXNullData`, `convertToByte20/32`, ABI pack/unpack | scanner |
| Scanner | `scanner/bch.go` | `LatestScanBlockHeight` (cursor), `knownTxCache` (bounded, evicts arbitrarily), `MaxTxsInBlock` | `GetNewTxs` (block scan from cursor+1, then mempool), `AddKnownTx`, `GetConfirmations` | client, store (`IsTxMined`), virtual chain |
| Virtual chain | `chains/adapter.go` | head height, head hash, `PrevBlockHash`, tick counter, subscriptions | `Start` (`RecoveryFromDB`, first forced round, ticker), `GenerateNewBlock`, `publishNewBlock`, `Stop` | scanner, store, filter API |
| Store adapter | `store/store.go` | the moeingdb database: blocks, txs, logs; head block carries the cursor in `GasUsed` | `AddBlock`, `IsTxMined`, `GetLatestBlockInfo`, `QueryLogs`, getters | virtual chain, backend |
| API backend | `api/backend.go` | none | reads; rewrites the first `Data` word (the ABI confirmations slot) of each log with the live confirmation count | store, scanner |
| Filter registry | `rpc/api/filters/filter_api.go` | `filters` map under `filtersMu`, per-filter deadline timer, buffered hashes/logs | `NewFilter`, `NewBlockFilter`, `GetFilterChanges`, `UninstallFilter`, `GetLogs`, `timeoutLoop`, websocket subscriptions | virtual chain events, backend |
| Eth API | `rpc/api/eth_api.go` | none | `GetBlockByNumber` (block-number conversion), single store reads, formatting | backend |
| Config, cmd, utils, test doubles | `config/`, `cmd/`, `utils/`, `testchain/`, mocks | none of interest | wiring | — |

The one concurrent pipeline that decides what the virtual chain contains is:
the ticker of `VirtualChain.Start` → `GenerateNewBlock` → `BchScanner.GetNewTxs`
(RPCs to the node, reads of the cache and of the store) → `Store.AddBlock` →
`publishNewBlock`. The source node changes between every RPC. The process
can die at any point (every RPC error and several decode errors `panic`), and a
restart recovers only what `AddBlock` persisted: height, hash and the cursor in
`GasUsed`.

### Hard behaviours, and the properties each part needs

* **Scanner / virtual chain** (`hazards` in `PROJECT.json`):
  - a tx can be pending in one round and mined in a later one;
  - the block scan does not cache the txs it converts;
  - the cache evicts arbitrarily and is lost on a crash;
  - the cursor is persisted only with the next block;
  - one poison tx can panic the process on every restart;
  - the cap check runs after a whole source block;
  - the recovered head timestamp decides how long a restart waits;
  - amounts pass through float64.
  
  Needed: no duplicate tx, completeness below the persisted cursor, the round
  cap, a gap-free store, hash-linked parents, unique tx indexes, and every
  tagged tx eventually included.
* **Client retry:** an answer of "not found" or "rejected" is retried for
  hours, which can stall production, and the node changes between attempts.
  Needed: a call that returns, and an answer the node really gave during
  the call (linearizability).
* **Filter registry:**
  - a lock is held across `Unsubscribe`;
  - a timer stop/drain races `timeoutLoop`;
  - unpolled buffers grow without bound.
  
  - a `NewHeads` subscription is replied before its goroutine subscribes;
  - a websocket client can leave at any moment.

  Needed: no deadlock, removal of expired filters, no lost or duplicated
  change delivered to a poll, and release of a websocket subscription whose
  client left.
* **GetLogs range:** `uint32(end+1)` wraps, and `from > to` is not rejected.
* **Codec:** byte padding, and a hex string used as bytes.

## 2. Modules

| Module | Models | State (VARIABLES) | Actions / operators |
|---|---|---|---|
| `SourceChain` | the BCH node, as environment | `mempool`, `srcChain` (a sequence of sets of tx ids), `dropped`, `reorgs` | `Submit`, `MineBlock`, `Drop`, `Reorg` (the tip replaced by a competing block) |
| `ChainLogDB` | `store/store.go`, as the chain sees it | `storeHeight`, `storeHash`, `storeParent`, `storeCursor` (`GasUsed`), `storeTxs` | `AddBlock`; `IsTxMined` and `GetLatestBlockInfo` as operators |
| `BchScanner` | `BchScanner.GetNewTxs` and its helpers | `pc`, `cursor`, `known`, `scanBlock`; the round's `newest`, `scanH`, `result`, `txIndex`, `snapshot` | `BeginRound`, `ScanBlock`, `ScanDone`, `GetRawMempool`, `PoolSkip`, `PoolFetchFail`, `PoolPanic`, `PoolReject`, `PoolConvert`, `PoolEnd` |
| `VirtualChain` | `chains/adapter.go`; composes the three modules above | `height`, `curHash`, `prevHash`, `tryCount`, `crashes` | `Start`, `Tick`, `SkipEmptyRound`, `GenerateNewBlock`, `Crash` |
| `FilterRegistry` | the pull filters and websocket subscriptions of `rpc/api/filters/filter_api.go` | `phase`, `buf`, `timer`, `timerC`, `lst`, `inflight`, `subs`, `errd`, `chanQ`, `unsub`, `since`, `got`, `published`, `polls`, `stuck`; `push`, `gone` | `Publish`, `NewFilter`, `NewBlockFilter`, `InstallFilter`, `TimerFire`, `ListenerRecv`, `ListenerAppend`, `ListenerErr`, `UninstallFilter`, `UninstallUnsubscribe`, `GetFilterChanges`, `Sweep`; `NewHeads`, `HeadsSubscribe`, `Logs`, `ClientGone`, `PushNotify`, `PushUnsubscribe` |
| `RetryableClient` | the retry loop of `bch/client.go`, seen through `BchScanner.GetConfirmations`; the node as environment | `conf`, `pc`, `arg`, `i`, `nfail`, `res`, `seen` | `Accept`, `Evict`, `MineBlock` (node); `GetConfirmations`, `AttemptFound`, `AttemptNotFound`, `AttemptNetErr`, `Retry` |
| `VirtualChainClock` | the wall-clock side of `chains/adapter.go` (`Start`'s downtime test and sleep, the ticker, the `Timestamp`/`Size` fields of `GenerateNewBlock`) and `ChainLogDB.GetLatestBlockInfo` | `now`, `pc`, `wakeAt`, `nextTick`, `blocks` | `Tick` (time), `Start`, `FirstBlock`, `TickerFire`, `Crash` |
| `AmountConversion` | the amount of a value record: `uint64(vout.Value*1e8)*1e10` in `convertUtxoInfoToTx` and `ExtractSenderInfo` | none (operators) | `RoundFloat` (RECURSIVE exponent search), `DecodeValue`, `MulFloat`, `ToUint`, `ValueAmount`, `SenderAmount`, checked against `AmountRef` |
| `EGTXCodec` | `bch/egtx.go`: `ParseEGTXNullData`, `ExtractEGTXNullData`, `convertToByte20/32` | one input script | operators, checked against the spec 4.1 reference `PayloadRef` (which uses `FixedWidthRef` at every push position) |
| `TxConversion` | `convertUtxoInfoToTx`, `buildTokenInfo`, `extractInputInfos` (`scanner/bch.go`); `ExtractSenderInfo` (`bch/egtx.go`) | one source tx shape | `VoutLoop` (RECURSIVE), `convertUtxoInfoToTx`, checked against the spec 4.3 reference `ConversionRef` |
| `AbiLayout` | `bch/abi.go` (the build ABI `a`, the read ABI `b`, `PackEGTXLogDataEvent`, `UnPackEGTXLog`) and `BuildLogData` of `bch/egtx.go`; extends `ConfirmationRewrite` | none (operators) | `SchemaA`, `SchemaB`, `Encode`/`Decode` (go-ethereum's encoding, from spec 4.1), `PackEGTXLogDataEvent`, `UnPackEGTXLog`, `BuildLogData` |
| `ConfirmationRewrite` | `BchScanner.GetConfirmations` and the confirmation-word rewrite of `api/backend.go` | none (operators) | `Flip`, `GetConfirmations`, `ConfirmationWord`, `RewriteLog` |
| `EthQueries` | `filterAPI.GetLogs` and `getLogsByBlockNumberRange`, the backend reads, `ChainLogDB.QueryLogs`, `ethAPI.GetBlockByNumber`; extends `ConfirmationRewrite` | `head`, `storeLog`, `node`, `crit`, `blockNum` | operators, checked against `GetLogsRef` and `BlockByNumberRef` |

`MCReferences` checks `EGTXCodec`, `TxConversion`, `AmountConversion`,
`AbiLayout`, the `GetLogs` path of `EthQueries` and `RetryableClient` in one
run. A state is one input: a script, a tx, an amount, the arguments of
`BuildLogData`, or a store with a node state and a criterion. The inputs
that are absent are `None`. The sixth kind of state is a running
`RetryableClient` (its variables renamed `rc*`); its steps are the only
steps of the model, and in the other kinds every step stutters. `MCEthShapes` holds the stores and
criteria shared with the `EthQueries` violation runs.

Each `MC*` module gives the model values and small definitions (negative
numbers, sequences) that a `.cfg` cannot state.

### How the modules correspond to the code

**Scanner and virtual chain**
* A step of `BchScanner` is one RPC round trip, so the node may change
  between any two steps.
  - `ScanBlock` is one iteration of the height loop of
    `collectMainChainBlockTxs`. It converts the block's fresh txs, sets the
    cursor, and stops at the cap.
  - Each `Pool*` action is one iteration of the mempool `range` loop. The
    code's conditions choose the branch: known or mined, fetch error,
    conversion panic, conversion error, or success.
* Conversion outcomes are abstracted to three sets:
  - `Tagged` converts;
  - `Poison` panics in `extractInputInfos`;
  - every other id returns an error and is cached.

  `TxConversion` checks, per tx shape, which of the three outcomes
  `convertUtxoInfoToTx` produces.
* A block hash `sha256(ChainName:k)` is represented by `k`, since the hash is
  injective in `k`.
* `Reorg(S)` replaces the tip block by `S` and puts an empty block on top
  (the longer competing branch). The old tip's txs that `S` lacks return
  to the mempool; `S` may hold txs the node never saw.
* A panic is a `Crash`: all memory is lost and `pc` becomes `"stopped"`.
  `Start` is the supervisor's restart.
* `tryCount` is `tryGenerateBlockCount % ForceScanEvery`, which is all the
  code reads of it.

**Filter registry**
* An action is one critical section under `filtersMu`, or one step of a
  goroutine between two of them. Examples:
  - `NewFilter` is the `SubscribeLogs` call;
  - `InstallFilter` is the insert under the lock;
  - the listener goroutine is `ListenerRecv` (its receive), `ListenerAppend`
    (the append under the lock) and `ListenerErr`;
  - `UninstallFilter` and `UninstallUnsubscribe` are the two halves around
    the unlock.
* A Go timer is a state (`off`, `running`, `fired`) plus the flag `timerC`
  for its one-slot channel.
* `stuck` records a `GetFilterChanges` call blocked on `<-f.deadline.C`
  while it holds the lock.
* The event system is not in this repository. It is modelled from spec 4.5
  and 5 (`Unsubscribe` is marked spec_modelled): delivery to a subscription
  queue `chanQ` never blocks the publisher and keeps publish order.
* Websocket subscriptions:
  - `NewHeads` is the reply, and `HeadsSubscribe` is the goroutine's
    `SubscribeNewHeads`, a later step;
  - `Logs` subscribes and replies in one step;
  - `PushNotify` and `PushUnsubscribe` are the two cases of the goroutine's
    `select`;
  - `ClientGone` is the client's `eth_unsubscribe` or a dropped connection,
    which makes `rpcSub.Err()` or `notifier.Closed()` ready.

  What a notification carries is not modelled: `PushNotify` only takes the
  block off the subscription's queue.

**Clock**
* `VirtualChainClock` counts whole seconds. `Tick` is time passing.
* `Start` is `RecoveryFromDB` plus the downtime test. It reads
  `GetLatestBlockInfo`'s timestamp: `time.Now()` for an empty store, and
  otherwise the head's `Timestamp` field.
* `FirstBlock` is the forced round after the sleep, then `NewTicker`.
* `TickerFire` is one tick. Whether the round stores a block is left open,
  since `VirtualChain` models the contents.
* A block records what `GenerateNewBlock` writes: `Timestamp` 0 and the
  time in `Size`.

**Client retry**
* A step of `RetryableClient` is one attempt or one `Delay`, so the node may
  change between any two.
* An attempt is answered with the tx (`AttemptFound`), with "not found"
  (`AttemptNotFound`), or fails in the network (`AttemptNetErr`). The last
  two are followed by `Delay` and `i++`.
* `Retry` is the loop condition `i < maxRetry`. Once it fails, the last
  error is returned, and `GetConfirmations` turns it into -1.
* `seen[c]` is a history variable. It holds every answer the node would
  have given between the call and its return.
* All nine wrappers share this loop. It is modelled once, through the one
  caller whose result depends on what the node answers.

**Algorithms**
* These are operators over a single state chosen in `Init`, with
  `Next == UNCHANGED`, so TLC checks every input in the bounded set.
* Widths are scaled down so that TLC reaches the edge cases:

  | Quantity | Code | Model |
  |---|---|---|
  | word (`WordBytes`) | 32 bytes | 2 |
  | contract address (`AddrWidth`) | 20 bytes | 2 |
  | topic (`TopicWidth`) | 32 bytes | 3 |
  | `uint32` (`UintWidth`) | 32 bits | 3 bits |
  | `uint64`/`int64` (`IntWidth`) | 64 bits | 4 bits |

  The wraps are computed modulo `2^width`, as the code's conversions do.
* `AmountConversion` models float64 arithmetic with `Prec` significant bits
  (53 in the code, 10 here) and `UnitsPerCoin` units per coin (1e8 in the
  code, 100 here):
  - a float is an exact fraction `m * 2^e`;
  - `RoundFloat` rounds a fraction to the nearest float, ties to even, as
    `strconv.ParseFloat` and float multiplication do;
  - `ToUint` truncates, as `uint64(f)` does.

  Amounts stay below `2^(Prec-2)` units. That mirrors the BCH supply of
  2.1e15 satoshi, which is below 2^51.
* `AbiLayout` writes the blob as bytes. A word is `WordBytes` bytes,
  big-endian, and the 4-byte method id is a fixed byte sequence. The
  encoder gives a head word per field (the scalar, or the byte offset of
  the field's tail), then the tails; `bytes[]` has an offset word per
  element. The decoder reads with go-ethereum's bound checks and returns
  nil on a read past the end.
* The backend rewrites `Data[:32]`, the first word, which is the
  `confirmations` slot of the ABI-encoded log data. Spec 4.3 says "the
  trailing 32 bytes". The model follows the code; `ConfirmationSlot` shows
  the first word is the right one, and the spec's wording the wrong one.

## 3. Runs

| Run | cfg | Expect | Checks |
|---|---|---|---|
| core_safety | `MCVirtualChain.cfg` | pass | `NoDuplicateTx`, `RoundSizeBound`, `StoreAppendsInOrder` |
| core_liveness | `MCVirtualChain_live.cfg` | pass | `ScanCompleteness`, `EventuallyIncluded` |
| poison_halt | `MCVirtualChain_halt.cfg` | violation | `EventuallyIncluded` |
| parent_hash | `MCVirtualChain_parent.cfg` | violation | `ParentHashLinks` |
| tx_index | `MCVirtualChain_txindex.cfg` | violation | `TxIndexUnique` |
| filter_registry | `MCFilterRegistry.cfg` | pass | `NoStuckPoll`, `ChangesExact`, `EventuallyReleased`, `PushReleased` |
| references | `MCReferences.cfg` | pass | `PayloadAgrees`, `TxConversionAgrees`, `AmountLossBounded`, `GetLogsAgrees`, `RCTypeOK`, `ConfirmationsLinearizable`, `LogDataRoundTrip`, `ConfirmationSlot`, `CallReturns` |
| token_commitment | `MCTxConversion_token.cfg` | violation | `TokenRecordPerTokenOutput` |
| getlogs_wrap | `MCEthQueries_wrap.cfg` | violation | `GetLogsExact` |
| latest_block | `MCEthQueries_latest.cfg` | violation | `BlockByNumberResolves` |
| restart_interval | `VirtualChainClock_restart.cfg` | violation | `RestartWaitsInterval` |
| reorg_duplicate | `MCVirtualChain_reorg.cfg` | violation | `NoDuplicateTx` |

### What each run shows

* **core_safety:** rounds run interleaved with mining, dropping, a
  reorganisation, a poison tx and a crash anywhere. Throughout:
  - no tx is stored twice;
  - the round cap holds;
  - blocks are appended in height order with their derived hashes.

  The bounds make the hard cases happen. `MaxTxsInBlock = 1` makes the cap
  bite. `MaxCacheSize = 0` makes eviction happen: only `t1` and `t2` are
  ever cached (`p1` panics first), and `AddKnownTx` evicts when the map
  holds more than `MaxCacheSize` ids, so the second insertion evicts.
  `p1` crashes the process.
* **core_liveness:** without reorganisations, every tagged tx below the
  persisted cursor is stored, and under weak fairness of the task every
  pending or mined tagged tx that is not dropped is eventually stored.
  With a reorganisation completeness fails (see the spec gap below), so it
  is checked only here.
* **filter_registry:** two filters (one log filter, one block filter), one
  websocket subscription, two published blocks and one poll.
  - No poll blocks while holding `filtersMu`.
  - Every filter's changes reach its polls exactly once and in order,
    including blocks published between subscribe and insert.
  - Every installed filter is eventually removed, unsubscribed and its
    listener ended.
  - Every websocket subscription whose client left is eventually
    unsubscribed and its goroutine ended. This includes a client that
    leaves a `NewHeads` subscription before the goroutine has subscribed.
* **references:** checks six things.
  - Every script of up to 6 pushes decodes as spec 4.1 says. The pushes
    are shorter than, equal to and longer than each width.
  - Every tx of up to 3 outputs and 2 inputs, drawn from
    the output shapes the node reports, is rejected, fails or converts as
    spec 4.3 and 7 say, with the right record counts.
  - For every value up to 255 units, the receiver's and the sender's
    record amount is the value x1e10 or one unit less: never more, never
    two less. Exact equality fails for about one value in ten, like
    0.29 BCH giving 28999999 satoshi. No run states that as a finding.
  - `GetLogs`, over all of these:
    - every store of up to 2 blocks;
    - every node state (unknown, 0 or 1 confirmations per tx);
    - every criterion over the bounds `{absent, -2, -1, 0, 1, 3}`, a known
      and an unknown hash, address and topic filters;
    - `MaxLogResults = 1`, so the cap is reached.

    For all of them, it returns exactly the matching logs of the resolved
    range, each with its own tx's live confirmation word, or the right
    error.
  - Every `BuildLogData` input of up to one value record and one token
    tuple per side and two extra-data chunks of 0 to 3 bytes unpacks to
    itself (`LogDataRoundTrip`). After the backend's rewrite for -1, 0 or
    1 confirmations, only the confirmations field has changed
    (`ConfirmationSlot`).
  - `GetConfirmations` over the retry loop: one caller, two txs and three
  attempts per call. The node accepts, evicts and mines between any two
  steps, and the network fails up to two attempts of a call. Every
    result, -1 included, is an answer the node gave during the call, and
    every call returns.
* **The violation runs** are the findings below.

Every property of a passing run has a mutant in `PROJECT.json`: a plausible
bug in the mapped code that TLC must find.

### Bounds

* The safety runs of `VirtualChain` cap the virtual height at 4 with
  `CONSTRAINT HeightBound`.
* The liveness runs instead use a `VIEW` that omits height and hashes. No
  guard reads them, so the state graph is finite and cycles are real.
* Two source blocks and one crash are enough to reach the interesting
  orderings:
  - a tx pending in one round and mined in a later one, with a crash between
    the cursor's advance and the `AddBlock` that persists it;
  - eviction followed by a mined copy of the evicted tx;
  - the cap reached inside a block and inside the mempool loop.
* `MaxReorgs = 1` in core_safety and reorg_duplicate: one replaced tip is
  enough to return a scanned tx to the mempool within a round.
* `MaxEvents = 2` and `MaxPolls = 1` are enough for the filter hazards:
  - a block between subscribe and insert;
  - a listener holding a batch while a poll empties the buffer;
  - a timer firing before a poll or a sweep.

  One poll in a behaviour is enough: it can come after a fired timer, or
  while a listener still holds a batch, for either filter. Every mutant of
  the poll and of the timer is caught with one. More polls multiplied the
  state space past what a run can afford.

  One websocket subscription is enough. Whether it is a `NewHeads` or a
  `Logs` subscription is the client's choice, so both occur. It shares only
  the publisher with the filters. A second subscription multiplied the
  state space past what a run can afford.
* **RetryableClient** uses one caller. Callers share nothing but the node,
  so a second caller adds interleavings that no property can distinguish.
  - `MaxRetry = 3` is small enough that the loop bound is reached.
  - `MaxDepth = 2` lets a tx be mined and buried during a call.
  - `MaxNetFails = 2 = MaxRetry - 1`: the network fails at most all
    attempts but one. With `MaxNetFails = MaxRetry`, a call can fail every
    attempt in the network and return -1 for a tx the node has in its
    mempool the whole time. See the hazard at `scanner/bch.go:322`.

* **VirtualChainClock** uses `BlockInterval = 3` and `MaxTime = 6`. That
  is room for a first block after a full interval, a crash and a restart
  inside the next interval.

## 4. Fairness

**VirtualChain:** `WF_vars(TaskStep)`. The production task never blocks for
ever:
* the ticker keeps firing;
* every RPC eventually answers, since a retry loop ends in success or in a
  panic;
* a panicking process is restarted by its supervisor.

Crashes, wallets and miners are not fair: the properties must hold however
little the environment does.

**FilterRegistry:** weak fairness for each step the Go runtime schedules by
itself:
* the rest of `NewFilter` after the subscribe;
* the `Unsubscribe` after the unlock in `UninstallFilter`;
* the listener's receive, append and exit;
* the timer firing, and the sweep ticker.

The websocket goroutine's `HeadsSubscribe`, `PushNotify` and
`PushUnsubscribe` are also weakly fair. Go's `select` picks at random among
ready cases, so a goroutine whose client left eventually takes that case.

Clients (new filters, polls, uninstalls, subscribing and leaving) and block
production are not fair.

**RetryableClient** (inside `MCReferences`): weak fairness of each
caller's attempts and retries, taken only in the retry kind of state.
The calling goroutine keeps running, and `Delay` is a sleep. The node and
the network are not fair.

## 5. Findings

1. **Parent hash** (`chains/adapter.go:137`). `PrevBlockHash` is set only in
   `RecoveryFromDB`. Every block after the first since a start therefore names
   the recovered head as its parent (`ParentHashLinks`).
2. **Tx index** (`scanner/bch.go:91`). The mempool loop never increments
   `txIndex`, so mempool txs of one block share an index (`TxIndexUnique`).
3. **Poison tx halts the chain** (`scanner/bch.go:341`). An input that spends
   a non-P2PKH/P2SH output panics the process. The tx is neither cached nor
   stored, so every restart panics again and nothing more is included
   (`EventuallyIncluded` in poison_halt).
4. **Token commitment** (`scanner/bch.go:183`). `buildTokenInfo` compares the
   length of the commitment's hex string with 40. A commitment of 21 to 40
   bytes is therefore dropped silently, and its output gets no token record
   (`TokenRecordPerTokenOutput`).
5. **GetLogs wrap** (`rpc/api/filters/filter_api.go:293`). `uint32(end+1)`
   wraps to 0 for `toBlock = 2^32-1`, so a filtered query returns nothing
   (`GetLogsExact` in getlogs_wrap).
6. **"latest" block** (`rpc/api/eth_api.go:51`). `GetBlockByNumber` never
   resolves the negative tag to the head. The store reads a negative height,
   and the handler returns null (`BlockByNumberResolves`).

7. **Restart ignores the interval** (`store/store.go:167`).
   `GenerateNewBlock` writes the production time into `Size` and 0 into
   `Timestamp` (`chains/adapter.go:140-141`). `GetLatestBlockInfo` returns
   `Timestamp`. So after any restart, `Start` sees a downtime of the whole
   Unix time and produces a block at once. Spec 4.4 says it should sleep
   the remainder of the interval. TLC's trace: a first block at some
   time t, a crash, then a restart at the same t that makes another block
   at once (t is 3 or 4 depending on the search order)
   (`RestartWaitsInterval` in restart_interval).

8. **Reorganisation duplicates a tx** (`scanner/bch.go:81`). The block scan
   does not cache what it converts (line 130), and the txs of this round
   are not stored yet, so the mempool loop's `isKnownTx`/`IsTxMined` test
   cannot see them. A reorganisation between the block scan and
   `GetRawMempool` returns a converted tx to the mempool, and the round
   converts it twice (`NoDuplicateTx` in reorg_duplicate). TLC's trace
   stores `t1` from source block 1 and again from the mempool.

**Spec gap.** The cursor is a height (`bch.go:110`). A block replaced at or
below the cursor is never scanned, so its new txs are stored only if they
also reach the mempool. Spec 4.2 says nothing of reorganisations;
`ScanCompleteness` holds without them (core_liveness).

## 6. Not modelled yet, and the plan

In order of importance:
1. **Notifications from the reply.** `NewHeads` subscribes inside its
   goroutine, after the reply (`filter_api.go:335`). `FilterRegistry`
   already reaches a block published in between. A property that counts
   notifications from the reply is expected to fail there.
2. **The event system's blocking.** `publishNewBlock` uses
   `event.Feed.Send` (`chains/adapter.go:179`), which blocks until every
   subscriber takes the block, and `UninstallFilter` holds `filtersMu`
   across `Unsubscribe` (`filter_api.go:80`). The feed is go-ethereum code
   outside the repository, and spec 5 says publication never blocks, so
   the model follows the spec and the deadlock hazard has no property.
3. **The retry loop inside a round.** `BchScanner` still treats each RPC as
   "succeed or panic". `RetryableClient` models the loop only through
   `GetConfirmations`.
4. **Amount exactness** as a finding of its own. `AmountLossBounded` bounds
   the loss, and the one-satoshi loss is shown only by evaluating the
   operators.

`VirtualChain.Stop` is not modelled: nothing in the service calls it
(`main.go` exits on SIGTERM).

Not modelled, and not planned:
* the Eth API response formatting, which keeps no state;
* the store's "too many entities" error of `QueryLogs` (`store/store.go:119-122`),
  raised at the database's cap of 10000 results, far above the bounds;
* configuration, the transaction builder, TLS helpers and test doubles;
* `TestMempoolAccept`, `SendRawTransaction`, `GetTxOut` and
  `GetTransaction`, which nothing in the service calls.
