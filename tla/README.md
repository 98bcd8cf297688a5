# TLA+ models of the ZalemCoin service-node ("floating city") layer

The modules here model the service-node code under `src/src/`. They cover:

- the directory of nodes that gossip keeps (`CFloatingcityMan`);
- the local node's own registration agent (`CActiveFloatingcity`), and how it interleaves with the directory;
- the ranking queries and the proof-of-service scanner built on them;
- the `mncache.dat` cache across crashes.

The models are checked with TLC.

## 1. Inventory

### Components, their state and operations

| Component | Source | State | Operations |
|---|---|---|---|
| Directory | `floatingcityman.cpp/.h`, `floatingcity.h` | `vFloatingcities` (vector of records keyed by collateral input `vin`); `mAskedUsForFloatingcityList`, `mWeAskedForFloatingcityList`, `mWeAskedForFloatingcityListEntry` (ask-again times) | `Add`, `Find`, `Remove`, `CheckAndRemove`, `DsegUpdate`, `ProcessMessage` for `dsee` (registration), `dseep` (heartbeat or stop), `dseg` (list request), `mvote` |
| Record | `floatingcity.h` | `sigTime`, `lastTimeSeen`, `lastDseep`, `activeState`, `isPortOpen`, `pubkey`, `pubkey2` and reputation fields | `UpdateLastSeen`, `UpdatedWithin`, `Disable`, `Check` (the body of `Check` is in `floatingcity.cpp`, which is not in the tree) |
| Identity agent | `activefloatingcity.cpp` | `status` (NOT_PROCESSED, SYNC_IN_PROCESS, NOT_CAPABLE, INPUT_TOO_NEW, IS_CAPABLE, REMOTELY_ENABLED, STOPPED), `vin`, `service` | `ManageStatus`, `Register`, `Dseep` (ping or stop), `StopFloatingCity`, `EnableHotColdFloatingCity` |
| Ranking | `floatingcityman.cpp` 437-567 | none (pure functions of the directory and a block hash) | `GetCurrentFloatingCity`, `GetFloatingcityRank`, `GetFloatingcityRanks`, `GetFloatingcityByRank` |
| Proof-of-service scanner | `floatingcity-pos.cpp` | `mapFloatingcityScanningErrors` | `DoFloatingcityPOSChecks`, `ProcessMessageFloatingcityPOS`, `Clean` |
| Persistence | `floatingcityman.cpp` 44-159 | the file `mncache.dat` | `CFloatingcityDB::Write`, `Read` (which ends with `CheckAndRemove`) |
| RPC / GUI / config / chain parameters | `rpcfcengine.cpp`, `qt/`, `floatingcityconfig.cpp`, `chainparams.cpp` and headers | configuration only | `floatingcity start` / `stop` call the agent; the rest format results |

### How they interact, and what is hard

- **Message thread.** `ProcessMessage` runs one message at a time under `cs_process_message`.
  - Its `Find` and `Add` take the directory lock `cs`.
  - It then works on the record through the raw `CFloatingcity*` that `Find` returned, after `cs` is released.
- **Maintenance thread.** It runs `CheckAndRemove`, which erases from the vector under `cs`. Erasing shifts every later record, so any pointer held by another thread is stale afterwards.
- **Agent and RPC.** The agent also goes `Find` → pointer → `Remove`/`UpdateLastSeen`. The RPC `stop` runs it on the RPC thread, at the same time as the sweep.
- **`Remove` never returns.** `CFloatingcityMan::Remove` never advances its iterator. It spins with `cs` held unless the record it removes is first in the vector.
- **Untrusted network.** Messages come from peers and can be replayed, duplicated or reordered.
  - `dsee` carries two fields the signature does not cover: `count`, and `lastUpdated`, which becomes a new record's `lastTimeSeen`.
  - `dseep` only applies a heartbeat when its `sigTime` is newer than `lastDseep`.
- **Stop is not final.** A stop heartbeat sets `lastTimeSeen = 0` (`Disable`) and leaves the record in the vector.
- **Rate limits.** The ask-again maps limit list requests. `CheckAndRemove` sweeps those maps.

### What makes each component correct

- **Directory:**
  - at most one record per input;
  - a replayed or reordered message never rolls a record back;
  - a stop is final;
  - no record is last seen in the future;
  - the rate limits hold across sweeps;
  - nothing blocks forever.
- **Agent:**
  - stop removes only the local node;
  - STOPPED ends only on an RPC `start`;
  - a running node stays listed while it pings.
- **Ranking:**
  - every node computes the same ranks from the same directory;
  - the winner is the top score.
- **Scanner:**
  - at most the quota of nodes audit per block;
  - exactly one report per audit;
  - every honest report passes the receiver's checks;
  - the auditor never audits itself.
- **Persistence:** a crash while writing never loses the directory silently.

The hazards, each at its source line, are listed in `PROJECT.json` under `hazards`.

## 2. Plan

Modules are listed in order of importance.

**Built:**

1. **`FloatingcityMan`** models the directory: the three message handlers, `CheckAndRemove` and `DsegUpdate`. The environment supplies the clock, spent inputs and remote operators.
2. **`ActiveFloatingcity`** EXTENDS `FloatingcityMan`. It adds the agent: `ManageStatus`, `Register`, ping, `StopFloatingCity`, `Remove` and RPC `start`. The agent's `ManageStatus` runs on the maintenance thread and its RPC commands on an RPC thread. Each has its own position, and either may stand between a `Find` and the use of its pointer while the other, the message thread or the sweep moves.
3. **`Ranking`** holds pure operators for `GetCurrentFloatingCity`, `GetFloatingcityRank` and `GetFloatingcityByRank`. The unstable sort is the set of orders it may leave among equal scores.
4. **`FloatingcityPOS`** EXTENDS `Ranking`. It models the scanner over a run of blocks and one agreed directory: `DoFloatingcityPOSChecks` on every node, the `mnse` handler on one observer, and `CleanFloatingcityScanningErrors` expiring the observer's dedup map.
5. **`FloatingcityDB`** models `Write`, `Read` and `DumpFloatingcities`, with crashes, failed writes and rotted bytes.
6. **Votes** are part of `FloatingcityMan`: the `mvote` handler with its one-hour gate, and the RPC `vote` / `vote-many` commands that sign and relay a vote.

**Not yet done** (all twelve run slots are in use):

- scanner violation runs for the quota under equal scores (`DistinctScores = FALSE`) and for the self-audit;
- a violation run for the forged `lastUpdated` (a new record last seen in the future, `floatingcityman.cpp:766`), and one for `stop-alias` stopping our own node whatever alias it names;
- liveness of the agent (a pinging agent stays listed) and of the cache (a cache that fails to read is eventually rewritten, which it is not);
- an abstract spec of persistence that can state spec 7's promise that a failed write leaves the prior snapshot in place. The cache would not refine it: `db_partial` shows the truncated file;
- an abstract spec of the directory as a set of live inputs, refined by `FloatingcityMan`.

Each `MC_*` module gives the model values and the definitions a `.cfg` cannot express, such as negative numbers, functions and sets of model values.

## 3. Modules and how they correspond to the code

### `FloatingcityMan`

**State.**

| Variable | Models |
|---|---|
| `vFloatingcities` | the vector, as a sequence of records |
| the three map variables | the ask-again maps; 0 stands for "no entry" |
| `hd` | the message thread's position. `pc` says where the handler is between its `Find` and its pointer use; `ptr` is the held pointer, as an index. |

- A pointer past the end of the vector is a dead slot: writes through it are lost.
- The history variables `disabled`, `served` and `askedEntry` record the applied stops, the times a list was served and the times we asked for an entry.

**Actions.**

| Action | Models |
|---|---|
| `DseeRecv` | the `dsee` checks, then `Find` |
| `DseeUpdate` | the known-entry branch, through the pointer |
| `DseeNew` | `AcceptableInputs`, `Add` with `UpdateLastSeen(lastUpdated)`, then `EnableHotColdFloatingCity` |
| `DseepRecv` + `DseepApply` | the `dseep` found branch |
| `DseepAskMissing` | the unknown-entry branch |
| `DsegRecv` | the `dseg` handler (no `cs`) |
| `DsegUpdate` | our own list request |
| `VoteRecv` + `VoteApply` | the `mvote` handler: `Find`, then through the pointer the one-hour gate, the `pubkey2` signature check, and the write of `nVote` and `lastVote = now` |
| `OperatorVote` | RPC `vote` / `vote-many`: the operator signs `vin + nVote` (no time) and relays it; the node does not apply its own vote |
| `CheckAndRemove` | `Check` of every record, erase of `REMOVE`/`VIN_SPENT`, and the three sweeps |

- Early returns that change nothing (bad signature, wrong protocol, `cs_main` busy, too few confirmations) are the same as the message not being delivered.
- `net` is the set of signed messages. Any of them can be delivered any number of times, in any order.
- A relaying peer chooses the unsigned `count` (`CountValues`) and `lastUpdated` (`LastUpdatedValues`).
- `VoteStatus` is the votes listing of RPC `floatingcity list`: YAY or NAY while `lastVote` is less than 30 days old (`VoteLifetimeSeconds`), else ABSTAIN. The history variable `votedAt` records when the operator last signed each vote.

### `ActiveFloatingcity`

**State.** `apc`, `aptr` and `asig` are `ManageStatus`'s position on the maintenance thread, its pointer and the `sigTime` it signed. `rpc`, `rptr` and `rsig` are the same for a stop on the RPC thread, and `target` is the input `Remove` is looking for. The agent takes no lock of its own, so a ping and a stop can be half done at once: the stop may erase the record a held ping pointer points to.

| Action | Models |
|---|---|
| `ManageStatusSyncing`, `ManageStatusNotCapable`, `ManageStatusRegister` | the branches of `ManageStatus` |
| `RegisterAdd` | `Register`'s `Add` and relay |
| `ManageStatusPing` + `PingUpdate` | `Dseep(false)` |
| `StopFind` + `StopRemove` + `RemoveLoop` | `StopFloatingCity` → `Dseep(true)` → `Remove` |
| `RpcStopAlias` (`StopFloatingCityRemote`, `FirstCoins`) + `StopRemove` + `RemoveLoop` | RPC `stop-alias` / `stop-many` (and the GUI stop buttons, which make the same call): `StopFloatingCity(ip, key)`, where `GetFloatingCityVin` replaces the input and key with the wallet's first collateral coin and its collateral key. `Dseep(true)` then runs with no status test and no STOPPED, and relays a stop that peers reject because it is not signed with `pubkey2`. `FirstCoins` may be empty, since the wallet code that lists coins is not in the tree and may skip the locked coin. |
| `RpcStartAlias` (`RegisterAlias`) + `RpcRegisterAdd` | RPC `start-alias` / `start-many`: `Register` of the output the `floatingcity.conf` entry names (`AliasInput`), on the RPC thread. It fails once the coin is spent. Otherwise it is `Find`, then `Add` in a second lock hold, then relay, the same two steps `ManageStatus` takes on the maintenance thread. |
| `RpcStart` | `floatingcity start`: the status reset. The `ManageStatus` it then calls is taken by the `ManageStatus` actions, which the maintenance thread also runs from `NOT_PROCESSED`. |

- `CsFree` disables every step that takes `cs` while `Remove` loops.
- `avin` and `arelay` are the input a stop's `Dseep` signs for, and whether its signature is one peers accept.
- `Aliases` is the set of `floatingcity.conf` entries, and `AliasInput` is the output each one names. `Aliases` is empty in every run but `unique`. There, its one entry names our own input, so a `start-alias` can race `ManageStatus`'s `Register` of that input.
- `MaintenanceMayRun` keeps the sweep off the thread that is pinging.
- `RpcStart` calls `ManageStatus` on the RPC thread, but the model takes that `ManageStatus` on the maintenance thread's position. Two `ManageStatus` running at once are therefore not modelled.

### `Ranking`

- `SortedByScore(S, score)` is every order of `S` by descending score. It is the `sort(rbegin, rend, CompareValueOnly)` that each query does.
- `GetFloatingcityRank` and `GetFloatingcityByRank` return the set of answers those orders give. There is one answer when scores are distinct.
- `GetCurrentFloatingCity` is the code's running maximum, as a `FoldLeft` over the vector.
- `TopScorer` is the reference it is checked against: the qualifying node with the largest positive score, the first in vector order among equals.

### `FloatingcityPOS`

**State.**
- `height` and `now` are `pindexBest->nHeight` and `GetTime()`. `NewBlock` advances both, by a gap from `BlockGaps`. `Tick` advances `now` alone: the clock moves on while the chain waits for its next block, and the cleanup and replays are not tied to blocks.
- `score`, `enabled` and `vec` are the directory snapshot. They are chosen in `Init` and are the same at every node. `score` holds one scoring per report height.
- `scanned`, `audits` and `reports` are what the auditors did. A report carries its `nBlockHeight` (`height - LagBlocks`) and its `nExpiration` (made time + `ExpirySeconds`).
- `seen`, `applied` and `errors` are the observer's `mapFloatingcityScanningErrors`, the bag of reports it applied (with multiplicity), and `nScanningErrorCount`.
- `taken` and `stale` are history: the reports the handler took past its dedup check, and those it refused as too old.

**Actions.**
- `DoFloatingcityPOSChecks(n)` ranks `n` among enabled records and stops past `GetCountScanningPerBlock`. It then picks the record at `count - a` among all records and probes it, with the result chosen. It relays `ProbeReports`: on a failed probe these are NO_RESPONSE *and* SUCCESS, as the code does.
- `ProcessScanningError(r)` dedups and inserts `r` first. It then refuses `r` if it is more than `AgeBlocks` old (`TooOld`), ranks both inputs at the report's height with the observer's own sort (`RanksValid`), and applies `ApplyScanningError`.
- `CleanFloatingcityScanningErrors` erases every entry whose `nExpiration` has passed. After that, a replay of the report gets past the dedup check again.
- `nExpiration` is set in the report's constructor, in `floatingcity-pos.h`, which is not in the tree. The model takes the spec's reading: an hour after the report was made.
- `ApplyScanningError` is in `floatingcity.cpp`, which is not in the tree, so it is modelled from the spec: an error adds one, a success subtracts one down to 0.
- `MaxTime` bounds the clock, and `MaxApplies` bounds how often one report is applied: once its entry has expired, each cleanup lets one more replay through, so without a bound the count grows without end.

### `FloatingcityDB`

**State.**
- `file` is `mncache.dat`: absent, complete, rotted, truncated, of another network, or of an older format.
- `mem` is the in-memory directory, as a snapshot value.
- `wpc` and `wbuf` are an open `Write` and its serialized buffer.
- `committed` and `loaded` are history.

**Actions.**
- `DumpFloatingcities` reads the file, proceeds only on `FileError`, `Ok` or `IncorrectFormat`, serializes, and truncates with `fopen "wb"`.
- `WriteCommit` and `WriteFail` finish `Write`.
- `Restart` is start-up's `Read` into `mnodeman`. `ReadResults` gives each file the results `Read` returns, and `Loaded` gives what it leaves in the manager.
- `Crash`, `Rot` and `Gossip` are the environment.

## 4. Runs

| Run | Expect | What it shows |
|---|---|---|
| `rates` | pass | `AskRateLimits`: a peer is served the full list at most once per `DSEG_SECONDS`, and an entry is asked for at most once per `MIN_DSEEP`, even though the sweep erases the maps. |
| `unique` | pass | `UniqueVin`: `Register`'s Find-then-Add never lists an input twice, while it races the message thread's replays across stop/start cycles, and a `start-alias` of the same input on the RPC thread. `ReplayNeverRegresses`: under replays, duplicates and reordering, neither `sigTime` nor `lastDseep` of a listed record ever goes back. Both hold with `CheckAndRemove` free to run between each `Find` and the use of its pointer, and with one alias configured. Relayers send only `count = -1` here: any other count makes the known-entry branch a no-op. |
| `pos` | pass | Over three blocks with distinct scores. `QuotaBound`: no more than `max(1, count/100)` auditors at a height. `ReportsAccepted`: every report another auditor relays that arrives young enough passes the observer's rank checks. `WinnerIsTopScorer`: `GetCurrentFloatingCity` equals the reference, for every score function and enabled set over three nodes. All hold with the clock moving between blocks and the dedup map cleaned at any time. |
| `db` | pass | `NeverSilentlyWrong`: a start loads either the empty directory or the last completely written snapshot. This holds across truncated writes, crashes, rotted bytes and foreign or old-format files. |
| `stop` | violation | `StopIsFinal`: a replay of a stopped node's own registration (`count = -1`) revives its record. |
| `votes` | violation | `VoteListingIsCurrent`: the signed vote carries no time, so a relay delivers a vote signed 30 days earlier; the handler stamps it with the arrival time and the listing shows it as a current YAY or NAY. |
| `spin` | violation | `StopNeverSpins`: stopping the local node while a remote record is first leaves `Remove` spinning with `cs` held. |
| `stalestop` | violation | `StopRemovesOnlySelf`: an RPC stop racing `CheckAndRemove` erases another node's record through the stale pointer. |
| `revive` | violation | `StoppedStaysStopped`: a replay of the node's own registration takes a STOPPED agent to REMOTELY_ENABLED. |
| `pos_reports` | violation | `OneReportPerAudit`: a failed probe relays a NO_RESPONSE report and then a SUCCESS report for the same audit. |
| `pos_replay` | violation | `ReportAppliedOnce`: a report is taken at height 1; the clock passes its expiry within height 2; the cleanup erases its map entry; a peer's replay, still within the age limit, is applied to the auditee again. |
| `db_partial` | violation | `NoPartialFileRead`: a crash between `fopen "wb"` and `FileCommit` leaves a truncated cache for the next start. Later dumps then refuse to replace it, because `DumpFloatingcities` returns on `IncorrectHash`. |

Every property of a passing run has a mutant in `PROJECT.json`: a plausible bug in the code it is about, under which TLC finds the property violated.

### Bounds and why they are enough

**Time** (in `FloatingcityMan` and `ActiveFloatingcity`) is scaled to small integers that keep the code's order of windows:

| Window | Scaled value |
|---|---|
| `MIN_DSEE` | 1 |
| `MIN_DSEEP` | 2 |
| one hour (the signature window) | 3 |
| `EXPIRATION` | 4 |
| `REMOVAL` | 5 |
| `DSEG` | 3 |

- The clock runs from 1 to `MaxTime = 6`. That is long enough for a record to pass every window and for a rate-limit entry to lapse.
- `MaxSigned` bounds the messages each operator signs. `votes` uses 3: a registration and two votes. `unique` uses 2, such as a registration and a ping, or a ping and a stop. That is enough for an old heartbeat to arrive after a newer one, and its four mutants are all caught at 2. At 3, the two agent threads take the run past an hour. `rates` uses 2, because its peer multiplies the interleavings.

**Sizes.**

- The directory runs use one input. The directory's interactions are per input, except for the index shifts, and those are what the two-input violation runs show.
- One peer is enough for the per-peer rate limits.
- `pos` uses three nodes with scores 0..2. Every subset can be enabled and every vector order occurs. The nodes scan on the first block only (`MaxScanHeight = 0`), and two more blocks age the reports (`MaxHeight = 3`). That is the least run in which an entry expires while its report is still young enough, and in which a replay later meets the age check. Scanning on a second height takes the run past the time limit. Height and time are scaled. A report stays acceptable for one block after the one it was made on; in the code that is five of ten. A block comes 1 unit after the last, `Tick` adds single units between blocks up to `MaxTime = 4`, and an entry lasts 2 units. Nothing in the code bounds the time between blocks: `BLOCK_SPACING_MAX` in `mining.h` is a difficulty-retarget parameter. `MaxApplies = 2` lets a report be applied twice, once more than `pos_replay` needs. Three is the least count at which the auditee (position `count - 1`) differs from both the top node and the last one. Score 0 is included because it can never win.
- `db` uses three snapshot values, one of them the empty directory. That is enough for a rotted file to hold a snapshot other than the committed one.

**Deadlock checking.**
- It is off (`CHECK_DEADLOCK FALSE`) in the directory, agent and scanner runs. Those models stop once the clock reaches `MaxTime` and the signatures are spent, or once every node has scanned; the real system does not stop.
- `db` checks for deadlock: a running process can always gossip or dump, and a stopped one can always start.

**Fairness.** Every run checks safety only and assumes no fairness. The liveness properties still to be stated are listed under "Not yet done".

## 5. Not modelled, and why

- **Cryptography.** Signatures are taken as unforgeable. A message is in `net` only if its key holder signed it; the fields the signature leaves out are chosen by the relayer.
- **Undefined behaviour.** These are listed as hazards but not modelled:
  - the data races on the `std::map`s;
  - iterating the vector without `cs` in `dseg`;
  - reallocation of the vector in `push_back`.

  The model keeps pointers as indices and map writes as atomic.
- **Scanner across blocks.** All nodes share one directory, so receivers whose directories differ from the auditor's are not modelled. Nodes scan on the first block only.
- **`CalculateScore`.** The block-hash score is a chosen function.
- **Not yet modelled:** coin selection beyond its outcome, and RPC `connect`. `stop-alias` is modelled: its stop for the wallet's first coin is signed with the collateral key, which peers reject. Two effects get no violation run, because all twelve run slots are used: it removes our own record from the local directory, and it can set a STOPPED agent NOT_CAPABLE, after which `ManageStatus` starts it again. The `revive` run keeps `Aliases = {}` so that its trace shows the replay path.
- **Unused helpers.** `FindOldestNotInVec`, `FindRandom` and `FindRandomNotInVec` have no caller in the tree. In `floatingcity.h`, `SliceHash` has no caller, and `GetFloatingcityInputAge` and `SecondsSincePayment` are used only by `FindOldestNotInVec`. `Status()` only formats the RPC list output. `CalculateScore` and `Check` live in `floatingcity.cpp`, which is not in the tree, so `Check` is modelled from the spec.
- **Out of scope:** configuration parsing, the GUI and chain parameters.
