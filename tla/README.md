# TLA+ models of minio: namespace locks, FS multipart, erasure heal, admin and peer RPC

This directory holds TLA+ models of the concurrent parts of the sources under
`src/`, the TLC configurations that check them, and `PROJECT.json`. That file
lists the components, runs, mutants, the source-line map, findings and hazards.

## 1. Inventory of the system

| Component | Source | State | Operations | Concurrency |
|---|---|---|---|---|
| Local namespace lock map | `src/cmd/namespace-lock.go` 100-355 | `lockMap` (param → `*nsLock`), per-entry `ref` (Go `uint`) and `lsync.LRWMutex` | `lock` (Lock/RLock/GetLock/GetRLock), `unlock`, `ForceUnlock` | any number of request goroutines; `lockMapMutex` makes each map step atomic, but the RW acquire happens after it is released |
| Distributed lock (dsync) | `namespace-lock.go` 62-99 (`newDsyncNodes`); the library is outside `src/` | lock clients per host, `myNode`, `globalLockServer`; remote lock tables | client construction; Lock/Unlock by majority | message passing |
| FS multipart coordinator | `src/unnamed/part_002` (fs-v1-multipart.go) | upload dirs, `fs.json`, part files `NNNNN.ETAG`, `appendFileMap` of `fsAppendFile{parts, mutex}`, object data and object `fs.json` | NewMultipartUpload, PutObjectPart (CopyObjectPart), backgroundAppend, CompleteMultipartUpload, AbortMultipartUpload, cleanupStaleMultipartUploads, ListObjectParts / ListMultipartUploads (read only) | request goroutines, one backgroundAppend goroutine per PutObjectPart, one cleaner goroutine; Complete takes the object's namespace write lock |
| Erasure heal | `src/unnamed/part_001` (HealFile) | per-stale-disk write error and hasher, read buffers | HealFile: size arithmetic, read, block loop, checksums | sequential over blocks; fallible disks |
| Admin RPC client | `src/cmd/admin-rpc-client.go.orig` | per-peer results | getValidServerConfig, getPeerUptimes, listPeerLocksInfo, WriteTmpConfig/CommitConfig fan-out | one goroutine per peer, partial failure |
| Admin RPC server | `admin-rpc-server.go` | `config.json` and temporary config files in the config dir | GetConfig, WriteTmpConfig, CommitConfig (no authentication check), ServerInfoData, SignalService; other handlers delegate | per request |
| Peer RPC server | `peer-rpc-server.go` | per-node bucket policies, notification rules, IAM users, server credential; the backend copy of each | DeleteBucket, Set/RemoveBucketPolicy, PutBucketNotification, ListenBucketNotification, LoadUsers, LoadCredentials (under the config transaction read lock), getPeerUptimes | per request, from the admin node's broadcasts |
| JWT | `jwt.go` | the server credential; tokens (HMAC key, subject, expiry) | authenticateNode/Web/URL, newAuthToken, isAuthTokenValid, webRequestAuthenticate | pure, but tokens cross nodes and outlive credential changes |
| Logger, router, gateway stubs, Dockerfile, tests | remaining files | none relevant | formatting and I/O, routing, NotImplemented | none |

These behaviours are hard to test:
- **Namespace locks.** An operation keeps an `nsLk` pointer across a blocking acquire and later looks the entry up again by name. `ForceUnlock` replaces the entry under both of them. The `uint` reference count is decremented without a check on the timeout path.
- **Peer RPC.** Tokens signed before a credential rotation reach peers after it. URL tokens, which `jwt.go` says "might be exposed", are signed with the same secret as node tokens. LoadCredentials releases the transaction lock before it loads the credential.
- **Multipart.** Goroutines started by PutObjectPart run at any later time, including after Abort or Complete. Complete looks up the append record in two separate critical sections. The object's `fs.json` is rewritten before the data rename. The cleaner and Abort remove directories that Put is about to rename into.

## 2. Modules

### `NsLock` (abstract)
This is the reader/writer contract of `RWLocker` (lines 46-52 and 319-355). Each operation is idle, waiting or holding a (resource, mode). `Grant` is allowed only if every other holder of the resource and the grantee are readers. `GiveUp` is the timeout. `LMutualExclusion` states the promise.

### `NsLockMap` (detailed, `isDistXL = false`)
- **Variables.**
  - `lockMap`, `ref` and `rw` are the map, the counters and the per-object `LRWMutex`.
  - `pc`, `opRes`, `opRead` and `opLk` are per-operation locals. `opLk` is the `nsLk` pointer kept across the acquire.
  - `epoch` and `opEpoch` are ghosts that count `ForceUnlock` calls.
- **Mutex identity.** `nsLock` objects are small integers. A new object takes an identifier that no live pointer refers to.
- **Counter width.** `ref` is taken modulo `RefModulus`. The models use 65536 in place of 2^64. Any power of two above twice the number of operations wraps the same way within a behaviour, so the choice does not matter.
- **Actions.** Each action is one critical section of the code:
  - `LockEnter` is lines 145-172.
  - `LockAcquired` and `LockTimedOut` are the two outcomes of the acquire, lines 174-206.
  - `Unlock` is lines 210-241, including its saturating decrement.
  - `ForceUnlock` is lines 273-304.
- **RW primitive.** `lsync.LRWMutex` lives outside `src/` and is modelled from its contract (`CanAcquire`, `Acquired`, `Released`). Releasing a mode that is not held changes nothing in the model; the real library panics instead.
- **Refinement.** `Abstract == INSTANCE NsLock WITH lpc <- (blocked ↦ waiting, running ↦ holding)` maps the detailed model onto the contract, and `AbstractSpec` is checked as a temporal property.

### `DsyncNodes` and `MCNsLockDsync`
`DsyncNodes` models `newDsyncNodes`. The server starts with any endpoint list of at most `MaxEndpoints` endpoints over `Hosts`, in which a chosen set of hosts is local; these are the variables `endpoints` and `localHosts`, fixed by `DsyncInit`.
- **Loop.** `DsyncLoop` is the `for` loop as a RECURSIVE operator. It skips hosts in `seenHosts`, appends a local locker (and records `myNode` and the server) or a remote client.
- **Reference.** `RefLockerHosts` is the list of distinct hosts in first-appearance order, built with `SelectInSeq` and `SetToSortSeq`.
- **Composition.** `MCNsLockDsync` extends `MCNsLockMap` and `DsyncNodes`. Its `MCSpecNoForce` runs the lock map's steps with the endpoint variables unchanged, so one run checks both.

### `PeerRPC`
This module models the peer RPC server and the JWT tokens that authenticate its callers, on an admin node `Admin` and the `Peers`.
- **State.**
  - `store` is the backend copy of the credential, policies, rules and users, which a starting node loads.
  - `cred`, `pol`, `rules` and `users` are each node's in-memory copies; `up` says whether its object layer is set.
  - `chan[p]` holds the RPCs sent to peer p and not yet served. Each RPC is served by a goroutine of its own, so `PeerHandle`, `LcStart`, `SignalService` and `Lose` take any of them (`Served(p, i)`), not only the oldest.
  - `lc`, `lkpc`, `lkres` and `lkread` are the LoadCredentials steps and the config transaction lock, through `Lk == INSTANCE NsLock`.
  - `apc` and `newCred` are the admin's credential rotation.
  - `clock` and `issued` are time and the web and URL tokens issued.
  - `lost` is a ghost: `lost[p]` records that an RPC to p was lost.
- **Tokens.** A token is a record of its HMAC key, subject and expiry. `SignatureValid` and `ClaimsValid` are the two checks of `isAuthTokenValid`. `Expiry` holds the three expiry durations of `jwt.go`, scaled to `MaxClock`. The ghost field `aud` records which function issued the token; no code reads it.
- **Admin actions.** `AdminBucketOp`, `AdminSetUser` and `AdminSignal` store the change and broadcast it. A broadcast waits until every connection has room (`Room`, the `MaxQueue` bound), so the bound never drops an RPC silently. `AdminRotate`, `AdminLocked`/`AdminLockTimeout` and `AdminSaveCred` take the transaction write lock, save the credential, and broadcast LoadCredentials.
- **Peer actions.** `PeerHandle(p, i)` takes the i-th RPC in flight. It rejects it when the token fails `isAuthTokenValid` or the object layer is down; otherwise it applies the handler (`SetBucketPolicy`, `PutBucketNotification`, ...). `LcStart`..`LcLoad` are the steps of LoadCredentials. `Crash`, `SignalService` and `Startup` restart a node, which then loads everything from `store`. Only `Crash` counts against `MaxCrashes`; restart signals are bounded by `MaxOps` and `MaxAttacks`.
- **Environment.** `Login` issues web and URL tokens. `Tick` advances the clock. `Attack` sends an RPC signed with the attacker's key, or, when `Exposed`, with a replayed URL token. `Lose` drops an RPC.

### `FSMultipart`
This module models one object with upload ids `Uploads`, request goroutines `Workers`, a bag `bg` of spawned backgroundAppend goroutines, and the cleaner.
- **Abstraction of data.** A part's content is its ETag, an integer. That makes `sort.Strings` order on `NNNNN.ETAG` names the order on pairs. An appended file is the sequence of `<<partNumber, etag>>` it was built from.
- **Handlers are split where another goroutine can interfere:**
  - PutObjectPart: the `fs.json` stat, then the tmp write (`PutObjectPartFail`) or the rename plus `go backgroundAppend`.
  - Abort: the map delete, then the stat and `fsRemoveAll`.
  - Complete:
    1. the stat and part validation;
    2. the inline backgroundAppend, in two halves;
    3. taking the record from the map;
    4. file.Lock, the verification and the fallback append (`CompleteVerify`), or the nil dereference (`CompleteVerifyNil`);
    5. the object write lock, through `Lk == INSTANCE NsLock`;
    6. the commit (`CompleteCommit`): truncate the object's `fs.json`, read the upload's `fs.json`, write the metadata, rename the data (which may fail), remove the directory.
- **Shared background append.** backgroundAppend is `FetchRecord` (under `appendFileMapMu`) followed by `ScanAppend`, which is the sorted loop `AppendLoop` under the record's mutex. Goroutines and Complete use the same definitions.
- **Cleaner.** `Expire` is time passing. `CleanerStat` then `CleanerRemove` is the stat-then-remove of one tick, and `CleanerStop` is `doneCh`.
- **Outside `src/`.** `fsRenameFile` creates missing parent directories, and the model uses that. A rename into a removed upload directory re-creates it without `fs.json`.
- **ListObjectParts.** It only reads, so it is operators over the upload directory, not an action. `ListedParts` is the partsMap dedupe (one ETag per part number; ModTimes are not modelled, so every choice is a possible listing) and the sort by number. `MarkerIndex`/`SkipToMarker` is the marker skip loop, and `ListPage` the page loop with IsTruncated and NextPartNumberMarker. `PagesFrom` is a client that follows the markers from 0.
- **`StateView`.** This is the cfg `VIEW`. It ignores the contents of records that nothing points to any more.

### `ErasureHeal`
This module models `ErasureStorage.HealFile` for every size `0..MaxSize`, block sizes `{3, 4}`, two data blocks and four disks, with any non-empty set of stale disks.
- **Arithmetic.** `ChunkSize`, `NumBlocks`, `LastChunkSize`, `ReadLen` and `CSize` translate lines 76-87 and 125-128. `RefChunks` is the reference layout of spec 4.3: block b holds min(blocksize, remaining) bytes, split into `DataBlocks` chunks.
- **Data.** A shard is abstracted to the sequence of chunk lengths appended to it (`written`) and fed to its hasher (`hashed`).
- **Actions.**
  - `ReadShards` is `readConcurrent`, which may fail.
  - `HealBlock` is one loop iteration. Each stale disk without an earlier error appends, and the append may fail; the error is sticky. If no disk succeeds, HealFile returns the joined error.
  - `DecodeFailed` is the `ErasureDecodeDataAndParityBlocks` error return.
  - `Finish` sets the checksums of the stale disks without errors.

### `AdminQuorum`
This module models the `getPeerConfig` and `getPeerUptimes` fan-outs.
- **State.** Each peer holds a `config.json` and an uptime, chosen in `Init` to cover any divergence.
- **Actions.** `PeerReply(i)` is peer i's goroutine: its reply succeeds, fails, or for the config may not unmarshal. `GetConfigReplies`, `ServerInfoDataReplies` (the admin's ServerInfoData, reduced by the `.orig` getPeerUptimes) and `ServerInfoReplies` (the peer's ServerInfo, reduced by peer-rpc-server.go's getPeerUptimes) are the replies the server handlers can give. `Reduce` is the code after `wg.Wait()`.
- **Loops.** The loops of `getValidServerConfig` and of the `.orig` `getPeerUptimes` are RECURSIVE operators (`MatchConfig`, `CountConfigs`, `MaxOccurrence`, `PickUptime`). Each follows the `continue`/`break` structure of its loop.
- **References.** The operators are compared with reference definitions: `RefMajorityConfig`, and `RefQuorumUptime`, which is the quorum time the comment describes.
- **Sentinels.** `Err`, `Corrupt`, `Pending` and `Panic` are model values, because they sit in the same functions as integers.

### `AdminConfig`
This module models setting `config.json` on all nodes in two phases: `writeTmpConfigPeers` and then `commitConfigPeers`.
- **Actions.**
  - `WriteTmp` is the WriteTmpConfig handler. `ioutil.WriteFile` can fail and leave a partial file, or leave nothing.
  - `EndWrites` commits the round only when every write succeeded, as `TestWriteAndCommitConfig` does. Otherwise the round is given up and its temporary files stay behind.
  - `CommitPeer` is the rename, which can fail; its reply can be lost.
  - `UnauthCommit` is the CommitConfig handler reached without credentials. The handler has no `IsAuthenticated` check, unlike GetConfig and WriteTmpConfig.
- **Ghost.** `committed` records which configs an admin decided to install.

## 3. Runs and what they show

| Run | Expect | Checks |
|---|---|---|
| nslock_refines | pass | `EntryLifecycle` (without ForceUnlock, an entry exists exactly while operations use it, they all point to it, and `ref` equals their number), `AbstractSpec` (the lock map implements the NsLock contract) and `DsyncNodesMatchReference` (newDsyncNodes makes one locker per distinct host in order, with the right locality, `myNode` and server, for every endpoint list of up to 4 endpoints) |
| nslock_force | pass | `NoEntryWhenIdle`: no map entry outlives its users, although pre-force unlocks and timeouts decrement newer entries, with up to two forces |
| nslock_force_exclusion | violation | `FreshOpsExclusion`: two writers that both arrived after ForceUnlock hold the same resource |
| fsmp_meta_rename | violation | `ObjectMetaMatchesData`: the object's `fs.json` describes its data, with one part and two ETags |
| fsmp_gaps | pass | `TypeOK`; `RecordHoldsUploadedParts`: append records list uploaded parts numbered 1..n, with parts arriving out of order; `PartListingPagesCoverParts`: in every reachable state, ListObjectParts pages followed through NextPartNumberMarker list every part once, in order, for every `maxParts` in 1..2 |
| fsmp_nil_record | violation | `NoNilAppendRecord` |
| fsmp_orphan_dir | violation | `UploadDirsHaveMeta` |
| heal | pass | `TypeOK`, `HealedShardsComplete` (every checksummed disk got exactly the reference chunks, written and hashed), `ReadLenMatchesLayout` (no slice past `readLen`; a completed heal consumed exactly the reference shard length), `HealOutcome` (the heal fails exactly when every stale disk failed) |
| admin_config | pass | `TypeOK`, `ConfigChoiceIsMajority`: getPeerConfig returns the config of a strict majority of all peers, or an error, for 2-4 peers and any errors, unparsable replies and divergence |
| admin_config_unauth | violation | `ConfigOnlyFromCommittedRounds` |
| peer_rpc | pass | `WebAuthAgrees`: webRequestAuthenticate accepts exactly the tokens isAuthTokenValid accepts, at every node, across logins, expiry and one credential rotation, with RPCs served in any order, crashes, restarts and lost RPCs |
| peer_rpc_url_token | violation | `NoForgedRPCApplied` when URL tokens reach the attacker |

Some properties are stated in the modules and found violated, but are not among the runs:
- `RefNoWrap` in NsLockMap, with one ForceUnlock. Its interleaving is the same as that of `FreshOpsExclusion`.
- `NoOrphanAppendRecord` in FSMultipart, with one part. It is a leak of memory only.
- `OrigUptimeIsQuorumTime` in AdminQuorum. It is about a `.orig` file that the build does not compile.
- `LiveUptimeDefined` in AdminQuorum: with every ServerInfoData reply an error, `times[0]` indexes an empty slice (`peer-rpc-server.go:312`). A unit test reaches this directly.
- `PeersConverge` in PeerRPC with two rotations (`RotateTo <- MCRotateTo`), found violated in 17 states when RPCs were still served in order. LoadCredentials RUnlocks before it loads (`peer-rpc-server.go:240`), so a peer loads a credential saved by a second rotation. It then rejects a queued LoadUsers signed with the first one, and never re-reads the users. The sender signing with its current credential is the admin handler, outside `src/`.
- Notification rules do not converge (`peer-rpc-server.go:109`): AddRulesMap adds to the rules a peer has, and the backend keeps only the new configuration. With two rule sets, two PutBucketNotification calls with a Startup between them leave the peer with both. The runs use one rule set, and `PeerInSync` leaves rules out for this reason. It also leaves them out because listener rules share the same map.


- ListObjectParts with a marker that names no part (`part_002:425`): the skip loop runs to the end, so `ListPage(<<1,2,5>>, 3, 2)` is an empty, untruncated page rather than part 5. Markers the server returns always name a listed part, so `PartListingPagesCoverParts` holds.
- `PeersConverge` in PeerRPC (`peer-rpc-server.go:74`): every running peer that holds the admin's credential and lost no RPC ends with the backend's policies and users. SetBucketPolicy carries the policy, and a peer serves the RPCs in flight in any order, so TLC finds it violated in 6 states: Startup, two bucket operations on one bucket, and their RPCs served in reverse. A LoadUsers served before the LoadCredentials that installs its credential is rejected and never re-read. Neither spec.md nor a comment promises convergence, so no run checks it.
- StartProfiling (`peer-rpc-server.go:323`): two concurrent calls both read `globalProfiler` before either writes it, so one profiler is stopped twice and the other leaks. A scratch model of the read-stop-start-write sequence finds this in 7 states; `startProfiler` is outside `src/`.

Each is described in the hazards of `PROJECT.json`.

### Findings (details in `PROJECT.json`)
1. **Timed-out lock deletes the new entry** (`namespace-lock.go:191`). After ForceUnlock, a timed-out `lock()` deletes the map entry by name. That entry is the post-force one, so two new writers can hold the same object. The same interleaving also wraps the `uint` ref past zero (`RefNoWrap`).
2. **Nil dereference in Complete** (`part_002:570`). An Abort, or another Complete, between Complete's inline append and its map lookup makes Complete dereference a nil record, and the request panics.
3. **Put re-creates an aborted upload** (`part_002:336`). A Put racing an Abort or the cleaner re-creates the upload directory without `fs.json`. This breaks ListMultipartUploads for the object.
4. **CommitConfig is not authenticated** (`admin-rpc-server.go:215`). A caller without credentials can rename onto `config.json` a temporary config no admin round decided to commit. TLC's trace uses the file of a round that is still writing; files left behind by a round given up after a failed write are exposed the same way.
5. **A URL token authenticates peer RPCs** (`jwt.go:109`). `authenticateURL` signs with the server secret and subject, as `authenticateNode` does, and `isAuthTokenValid` checks the signature, the expiry and the subject, all of which a URL token passes. A URL token, which the code says might be exposed, therefore makes a peer apply a forged SetBucketPolicy or SignalService within its expiry.
6. **Metadata before data in Complete** (`part_002:612`). Complete truncates the object's `fs.json`, reads the upload's `fs.json` and writes the new etag before it renames the appended data. A failed rename returns an error with the new metadata in place (11 states); an upload `fs.json` removed after the truncation leaves the object's `fs.json` empty. spec.md 4.4 step 6 and 8.4 say the two renames succeed together and metadata is never mixed.

### Mutants
Each property of a passing run has a mutant in `PROJECT.json`. Each mutant is a plausible bug in the mapped code, and TLC finds the property violated under that run's cfg:

| Mutant | Bug it represents | Property it breaks |
|---|---|---|
| `LockTimedOutAlwaysDelete` | the timeout path deletes the entry whatever `ref` is | `EntryLifecycle` |
| `LockEnterNoRef` | `ref++` is missing for an existing entry | `AbstractSpec` |
| `AppendLoopNoSkip` | appended parts are not skipped | `TypeOK` |
| `AppendLoopNoStop` | the loop does not stop at a gap | `RecordHoldsUploadedParts` |
| `ListPageNextUnlisted` | NextPartNumberMarker names the first part not returned | `PartListingPagesCoverParts` |
| `HealBlockRetry` | a disk that failed earlier is written again | `HealedShardsComplete` |
| `HealBlockNoAbort` | the loop goes on when every disk failed | `HealOutcome` |
| `FinishNoNilCheck` | checksums without the `disk == nil` skip | `TypeOK` |
| `LastChunkSizeNoCheck` | `lastChunkSize` from `size % blocksize` even for a full last block | `ReadLenMatchesLayout` |
| `ConfigQuorumHalf` | quorum `len/2` | `ConfigChoiceIsMajority` |
| `PeerConfigFirstPeer` | the single-node shortcut taken in distributed mode | `TypeOK` |
| `DsyncLoopNoDedupe` | the `seenHosts` check is missing | `DsyncNodesMatchReference` |
| `WebRequestAuthenticateNoSubject` | the subject is not checked against the access key | `WebAuthAgrees` |
| `LockTimedOutNoRef` | the timeout path returns without `ref--` and the delete | `NoEntryWhenIdle` |

## 4. Bounds and why they suffice

**Namespace locks.**
- Three operations and two resources. Symmetry is over operations: they are interchangeable model values.
- The force runs use one resource and at most one or two ForceUnlocks. Every interleaving in the findings needs three operations on one resource and one force, and the second force covers a force during an already-forced generation.

**Multipart.**
- Two workers and one upload id.
- `MaxBg = 1` background goroutine in flight. PutObjectPart's rename waits while it is pending, so this bound restricts behaviours and never adds any.
- Two content sets: `fsmp_meta_rename` uses part 1 with two possible ETags (re-upload), and `fsmp_gaps` uses parts 1..2 with one ETag (gaps and out-of-order arrival). `TypeOK`, whose mutant skips no appended part, is checked under the second, where a re-scan then appends a part numbered past `MaxPart`.
- All contents have the minimum part size, so validation never rejects a claim for size.
- The other violation runs use one part and one ETag. Each found trace needs at most two workers and one goroutine.

**Erasure heal.**
- Sizes 0..12 with block sizes 3 and 4 cover zero size, exact multiples, and short last blocks whose chunk size rounds up. They give up to four blocks.
- Four disks give every pattern of stale and failing subsets.

**Admin fan-outs.**
- The runs use 2, 3 and 4 peers, covering odd counts and the even two-two tie. Distributed XL needs at least two nodes.
- Three configs, with symmetry over them, because configs are only compared for equality.
- The uptime values 1..3 cover ties and orderings.
- `AdminConfig` uses two nodes and two round names; its finding needs one round.

**Dsync nodes.** Three hosts, endpoint lists of length 1..4 with repeats, and no local host or one. Four endpoints on three hosts always include a repeated host, and repeats can be adjacent or apart, before or after the local one.

**Peer RPC.**
- One peer besides the admin node. Every handler runs on a single peer, and the broadcast to two peers took more than the time budget without adding an interleaving of the findings.
- One bucket, one policy, one rule set and one user: the properties are about who may change state, not about which value.
- Two access keys and two secret keys. The passing run rotates once, to a new access key under the same secret (`MCRotateOnce`). Old tokens then keep a valid signature but name the wrong subject, which is the case that tells the two token checks apart. Two rotations (`MCRotateTo`) are used by the URL-token run.
- `MaxOps = 3` admin operations, `MaxQueue = 2` RPCs in flight, `MaxCrashes = 1`, `MaxLogins = 1`, `MaxAttacks = 1`, `MaxClock = 2`. The URL token (expiry 1) is accepted at the next tick and expires at the one after, and the web token expires later, so expiry is reached in both orders. The finding needs one login, one attack and one startup.

## 5. Fairness
`NsLockMap` states weak fairness of each operation's acquire-or-timeout and of its unlock. A blocked acquire ends in success or timeout because `GetLock` has a timeout, and the request handlers always unlock through `defer`. `PeerRPC` states weak fairness of each step a peer's RPC server takes: serving each RPC in flight, the restart signal, and the steps of LoadCredentials. It also states weak fairness of the admin's credential handler once it has asked for the lock. Each RPC is served by its own server goroutine, which runs to completion, and the lock wait ends in a grant or a timeout. Admin requests, logins, time, attacks, crashes, lost RPCs and server starts get no fairness. `PeersConverge` therefore conditions on `up[p]` and on `~lost[p]`, never assuming a start or a delivery. No passing run checks a liveness property: `PeersConverge`, the one the project states, is found violated (section 3), and the fairness above is what it is checked under. The other modules state no fairness, because their properties are safety properties. `ErasureHeal` and `AdminQuorum` end when the call returns, so their cfgs turn the deadlock check off. In `PeerRPC` every action answers an external request, a fault or time passing, all bounded, so the bounded environment stops and its cfgs turn the deadlock check off too.

## 6. Not modelled
- `dynamicTimeout` adaptation: only the outcome, success or timeout, matters.
- The lock-status debug bookkeeping (`statusNoneToBlocked`, ...).
- The panic of `lsync` on an unbalanced unlock: see `Released` above.
- `listPeerLocksInfo`: its reduction uses `reduceErrs`, which is outside `src/`.
- ListMultipartUploads beyond `UploadDirsHaveMeta`: it only reads, and its paging over several objects is outside the one-object model. The stat of each listed part in ListObjectParts (a read of sizes the model does not keep).
- Bitrot verification of the healthy shards in HealFile, which is inside `readConcurrent`, outside `src/`.
- In the peer RPC server: RemoteTargetExist, SendEvent, GetLocks, profiling and ReloadFormat. They read state, or delegate to code outside `src/`; the profiling race is a hazard, above. ServerInfo is modelled only by its replies, in `AdminQuorum`.
- The stop signal of SignalService, and the admin node's own restart in `sendServiceCmd`.
- ReInitFormat and ListLocks of the admin RPC server.
- The sender's choice of credential after a rotation is modelled from the spec: newAuthToken reads the sender's current credential, so LoadCredentials and later RPCs are signed with the new one. A peer that still holds the old credential rejects them until it restarts, which is why `PeersConverge` conditions on the peer holding the admin's credential.
- The logger: it keeps no state another component reads (`quiet` and the JSON flag are set once at start), `FatalIf` exits, and `getTrace`/`trimTrace` format the runtime stack.
- The admin router: it only registers routes.
- The gateway stubs, the Dockerfile and the tests.

## 7. Plan for the remaining work
1. `DsyncLock`: a spec-modelled majority lock with lost replies and expiry over the clients of `DsyncNodes`. It refines `NsLock`, and namespace-lock.go's distributed path instantiates it.
2. Liveness for `NsLockMap`: every blocked operation eventually runs or times out; an entry is eventually removed once unused.
3. A profiler module for StartProfiling once a run slot is free, and a ListObjectParts run with client-chosen markers.
4. `AdminConfig` with the authentication check in place: a passing run for convergence once every commit succeeded.
5. `PeerRPC`: a convergence property that survives reordering would need the admin to send full state (or peers to reload from the backend) instead of the change; a fix of that kind would be checked against `PeersConverge`. Rules convergence waits on a model of the listener rules apart from the bucket rules.
