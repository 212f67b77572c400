# Formal model of the index-provider engine

TLA+ modules, TLC configurations and TLAPS proofs for the advertisement
engine of `index-provider` (`src/unnamed/part_001`, engine.go) and the
encoding of its datastore keys. The `list` command of the provider CLI
(`src/unnamed/part_000`) and the admin server's listen address
(`src/config/adminserver.go`) are listed as components that are not modelled.

## 1. The system

| Part | Source | What it does |
|---|---|---|
| Write path | `publishAdvForIndex`, `NotifyPut`, `NotifyRemove` (part_001:381-603) | consults the datastore index, obtains the entries link, builds the ad, links it to the head, signs it, publishes it |
| Index helpers | `putKeyCidMap` ... `getLatestAdCid` (part_001:606-748) | rows `map/keyCid/` (key to entries CID), `map/cidProvAndKey/` and legacy `map/cidKey/` (entries CID to key), `map/keyMD/` (key to metadata), `sync/adv/` (latest ad CID) |
| Publication | `PublishLocal`, `Publish`, `PublishLatest`, `Start` (part_001:108-299) | stores the ad in the link system, moves `sync/adv/`, announces it with `UpdateRoot`; `Start` restores the publisher's root from `sync/adv/` |
| Lister registration | `RegisterMultihashLister` (part_001:365-370) | sets `e.mhLister` under `cblk` |
| Chunker and cache | not under src/ | turns a multihash list into a chain of entry blocks, memoised |
| CLI `list` | part_000 | fetches an ad through a provider client and drains its entries up to a depth limit |
| Admin server config | adminserver.go | `ListenNetAddr` turns the configured multiaddr into the `host:port` the admin HTTP server listens on |

How they interact: a caller calls `NotifyPut`/`NotifyRemove` in its own
goroutine. `publishAdvForIndex` reads and writes index rows, reads `sync/adv/`
for the PreviousID and calls `Publish`. `Publish` calls `PublishLocal` (store,
then `putLatestAdv`) and then the publisher's `UpdateRoot`. An indexer follows
the announced root backwards through PreviousID links. It asks for entry
blocks, which the link system's loader re-chunks lazily by looking up the
reverse row of the entries CID.

What is hard in this code:

- **Concurrency.** The write path holds no lock; `cblk` guards only the lister
  registration.
- **Partial failure.** Each of the 4 to 7 datastore operations of a call can
  fail after the earlier ones committed.
- **Crash and restart.** These lose the in-memory lister and publisher root,
  while the datastore and blocks persist.
- **Reordering.** `UpdateRoot` calls of concurrent publishes can happen in
  either order.
- **Key encoding.** Keys are strings built from raw context ID bytes and
  cleaned as paths by `datastore.NewKey`, so the encoding is not injective and
  a context ID can leave its keyspace.

## 2. Modules

### `Engine.tla`: the write path and publication

State, as VARIABLES:

| Variable | Code |
|---|---|
| `fwd`, `rev`, `mdRow` | rows `map/keyCid/`, `map/cidProvAndKey/`, `map/keyMD/`; `None` = no row |
| `blocks` | ads stored in the link system |
| `latest` | `sync/adv/` |
| `pubRoot` | the publisher's root (`SetRoot`/`UpdateRoot`) |
| `up`, `listerSet` | `Start` returned; `e.mhLister # nil` |
| `pc[c]` | the datastore operation caller `c` does next |
| `op`, `ctxKey`, `callMd`, `existing`, `cidsLnk`, `prevAdvID`, `adCid` | the locals of the call in progress (`isRm`, `p/contextID`, `md`, `c`, `cidsLnk`, `prevAdvID`, `adCid`) |
| `calls`, `faults`, `crashes` | counters bounded by `MaxCalls`, `MaxFaults`, `MaxCrashes` |

Data abstraction:

- A multihash list is a model value.
- An entries CID is `Chunk(list)`: the list itself, or `NoEntries` for the
  empty list. This is content addressing: equal lists give equal CIDs.
- An ad's CID is the ad record, whose `previous` field is the previous ad
  record. Identical ads are therefore one block, as in the code.

Actions. Each caller action is one datastore operation of the code, with its
guard taken from the code's branches and early returns:

- `NotifyPut`/`NotifyRemove` (getKeyCidMap, ErrContextIDNotFound)
- `ChunkEntries` (ErrNoMultihashLister, lister and chunker, the `NoEntries` fallback)
- `PutKeyCid`, `PutCidKey` (the two Puts of putKeyCidMap)
- `GetMetadata` (getKeyMetadataMap with its empty default, ErrAlreadyAdvertised)
- `PutMetadata`
- `DeleteKeyCid`, `DeleteCidKey`, `DeleteMetadata` (a removal ad with `NoEntries` and empty metadata)
- `GetLatest` (getLatestAdCid as PreviousID)
- `Store` (PublishLocal's `lsys.Store`)
- `PutLatest` (putLatestAdv; without a publisher, Publish returns)
- `Announce` (UpdateRoot; a failure is swallowed, so `pubRoot' \in {pubRoot, ad}`)
- `PublishLatest`, `PublishLatestUpdate`
- `DatastoreFail`: any datastore operation of a call returns an error, leaving
  its earlier writes in place. This also covers a cancelled context and a
  signing or validation error.

Environment actions:

- `Start`
- `RegisterMultihashLister`
- `Crash`: drops every in-flight call, the lister and the publisher's root.

`MC_Engine.tla` gives the model values and two listers:

- `MCListerDistinct`: the keys' lists differ or are empty.
- `MCListerShared`: two keys list the same multihashes.

`EngineProofs.tla`, `EngineRefinement.tla`, `EngineIndexProofs.tla` and
`EngineIndexRefinement.tla` hold the TLAPS proofs (section 4).

### `AdLog.tla`: the abstract chain

The promise of spec §3 and §5 as an append-only log with three variables:
`head`, `store` and `root`. Its actions:

- `Append`: new ads are stored, each linked to the current head.
- `Advance`: the head moves to a stored ad whose PreviousID is the old head.
- `Announce`: the root becomes the head.
- `Forget`: the root is lost.

Engine.tla instantiates it as
`Log == INSTANCE AdLog WITH head <- latest, store <- blocks, root <- pubRoot`.
The property `ImplementsAdLog == Log!Spec` states the refinement.

Engine.tla also defines `FairSpec`, which is `Spec` with weak fairness on each
caller's steps (see section 3). `PublishLatestPanic` models `PublishLatest`
without a publisher. The call reaches `e.publisher.UpdateRoot` on a nil
interface, and the process dies with the same effects as `Crash`
(`ProcessDies`).

### `IndexMap.tla`: the abstract index

The promise of spec §4 and §8 about the index: a map `idx` from each key to
`<<entries CID, metadata>>`, or `None`. It changes one whole key at a time:

- `Put(k, m)`: a new key gets the chain of its lister's multihashes
  (`Entries[k]`) and metadata `m`.
- `Update(k, m)`: a known key keeps its entries and takes metadata `m`, which
  must differ from the stored one (else `AlreadyAdvertised`).
- `Remove(k)`: a known key is forgotten.

Engine.tla maps its rows to it. `Adding(k)` holds while a call that found no
keyToCid row for `k` is between `putKeyCidMap` and `putKeyMetadataMap`.
`IndexOf[k]` is `None` when `k` has no keyToCid row or is being added, and
otherwise `<<fwd[k], mdRow[k]>>`. So a put of a new key takes effect at its
metadata write, an update at the same write, and a removal at
`deleteKeyCidMap`. `Idx == INSTANCE IndexMap WITH idx <- IndexOf, ...`, and
`ImplementsIndexMap == Idx!Spec` states the refinement.

### `KeyEncoding.tla`: datastore keys

The key builders are `keyToCidKey`, `keyToMetadataKey`,
`cidToProviderAndKeyKey`, `cidToKeyKey` and `dsLatestAdvKey`
(part_001:34-46, 606-630). The model follows what the code does to a key:

- A string is the sequence of its `/`-separated fields, so a context ID is a
  non-empty field sequence.
- `datastore.NewKey` is `path.Clean` of the rooted path. It is written as a
  fold (`CleanStep`): `""` and `.` vanish, and `..` pops a field but never
  climbs above the root.
- For the engine's own peer ID the provider is left out of the key.

State:

- `ds`: the datastore, as a map from key to the logical row last written there.
- `written`: the rows written and not deleted.

Actions, one per helper:

- `PutKeyCidMap` (both Puts)
- `PutKeyMetadataMap`
- `PutLatestAdv`
- `DeleteKeyCidMap`
- `DeleteKeyMetadataMap`
- `DeleteCidKeyMap` (both Deletes)

`MC_KeyEncoding.tla` gives two families of context IDs:

- `MCPlainIDs`: single plain fields.
- `MCUnsafeIDs`: `Q/a`, and `../../sync/adv`.

## 3. Runs

Common setup:

- Providers `{p1,p2}`, one context ID, so two keys.
- Metadata `{m1,m2}` plus the empty metadata.
- Lists `{l1, empty}`.

The bounds of the sequential runs (4 or 5 calls, 1 or 2 failures, 1 crash) are
enough for a put, a metadata update, a removal and a re-put of the same key,
with a failure or a crash at any step of any of them. MC_Concurrent checks
liveness as well, which costs much more per state. It keeps 2 calls, so that
two calls run concurrently with a failure and a crash at any step, and
finishes in seconds. With 3 calls it takes about 4 minutes. Each Engine
violation below needs only 2 or 3 calls.

| Run | Expect | Properties | Shows |
|---|---|---|---|
| MC_SeqFaults | pass | ImplementsAdLog | one caller, 4 calls, 2 failures, 1 crash: the engine implements AdLog |
| MC_SeqIndex | pass | IndexMatchesChain, ServableEntries, NoRepeatedPut, ImplementsIndexMap | one caller, 5 calls, no failures, distinct lists, no publisher: the index agrees with the chain, every advertised entry chain is servable, no put repeats its key's newest put, and the rows implement IndexMap |
| MC_Concurrent | pass | TypeOK, HeadsResolve, CallsReturn | two callers under `FairSpec`, 2 calls, a failure and a crash, with a publisher: links resolve under any interleaving, and every call returns |
| MC_ConcurrentFork | violation | HeadAdvancesByOneLink | two concurrent NotifyPut read the same `sync/adv/`; the chain forks |
| MC_ConcurrentPut | violation | NoRepeatedPut | a second NotifyPut with the same arguments reads keyToCid after the first wrote it and keyMD before the first wrote it; it does not answer AlreadyAdvertised, and the same put is advertised twice |
| MC_RootRegress | violation | PubRootNeverRegresses | UpdateRoot of two publishes in the opposite order; the root moves back |
| MC_FaultIndex | violation | IndexMatchesChain | a failure mid-call leaves index rows never advertised (retry answers AlreadyAdvertised / ContextIDNotFound) |
| MC_SharedEntries | violation | ServableEntries | removing one of two contexts with the same entries CID deletes the reverse row the other needs |
| MC_NilPublisher | violation | StopsOnlyByCrash | without a publisher, `PublishLatest` panics on the nil publisher and the engine goes down |
| MC_KeyEncoding | pass | RowsReadBack | plain context IDs, own peer P and peer Q, every sequence of puts and deletes: each row reads back what was written (1,024 states) |
| MC_KeyUnsafe | violation | RowsReadBack | own provider with context `Q/a` overwrites Q's row for `a`; context `../../sync/adv` overwrites the latest-ad pointer |

Bounds of the new runs:

- **KeyEncoding.** The models have no counter, and the state space is finite
  because rows and keys are. Each collision needs two writes, and the pass run
  explores every sequence of writes and deletes.

The properties:

- **HeadsResolve.** Every published link names a stored block.
- **HeadAdvancesByOneLink.** A change of `sync/adv/` links to the previous head
  (spec §3, §4.1 line "single write lock").
- **PubRootNeverRegresses.** A new root has the old one on its chain.
- **IndexMatchesChain.** For a key with no call in flight, the index rows
  exist together. They agree with the most recent ad about the key on the
  head's chain.
- **ServableEntries.** An advertised entries CID has the reverse row the
  loader needs.
- **NoRepeatedPut.** No stored put repeats the entries and metadata of the
  newest put about its key on the chain it extends. `publishAdvForIndex`
  answers AlreadyAdvertised instead (spec §7: a second identical NotifyPut
  returns AlreadyAdvertised).
- **ImplementsAdLog.** With one caller, the engine refines AdLog. For one
  caller this subsumes HeadAdvancesByOneLink and PubRootNeverRegresses, which
  remain as the properties of the two concurrency violation runs.
- **ImplementsIndexMap.** With one caller and no failures, the index rows
  refine IndexMap. With one failure allowed, or with two callers, TLC finds
  it violated. With two callers, one caller's nil-publisher `PublishLatest`
  panic kills the other between `putKeyCidMap` and `putKeyMetadataMap`,
  leaving a keyToCid row with no metadata row.
- **CallsReturn.** Every call in progress eventually returns, or the process
  dies.
- **StopsOnlyByCrash.** The engine goes down only by a crash, never by an API
  call. It is checked only where it fails (MC_NilPublisher): with a
  publisher, the panic step is disabled by its guard.
- **RowsReadBack.** Every row written and not deleted is still under its key.

Each property of a passing run has a mutant in PROJECT.json, that is, a
plausible bug in the mapped code that TLC catches:

| Mutant | What it does | Caught by |
|---|---|---|
| `DeleteMetadataNoSentinel` | forgets `cidsLnk = NoEntries` | TypeOK |
| `StoreErrorIgnored` | does not check the error of `lsys.Store` and moves `sync/adv/` to a block that was never stored | HeadsResolve |
| `ChunkEntriesWaitForLister` | waits for a lister instead of failing ErrNoMultihashLister | CallsReturn |
| `GetLatestFromPublisher` | takes PreviousID from the publisher's root | ImplementsAdLog |
| `GetMetadataNoPut` | skips the metadata Put | IndexMatchesChain |
| `ChunkEntriesNoSentinel` | drops `lnk = schema.NoEntries` for an empty chain | ImplementsIndexMap |
| `PutKeyCidOnly` | writes only the forward row | ServableEntries |
| `KeyToMetadataKeyCidPrefix` | builds metadata keys with the keyToCid prefix | RowsReadBack |
| `GetMetadataNoCompare` | drops the `md.Equal(prevMetadata)` check | NoRepeatedPut |

Fairness. `FairSpec` assumes weak fairness of `CallerStep(c)` for each caller:

- A goroutine that can take its next step eventually does.
- Every datastore, link-system and publisher call returns, with a result or an
  error.
- This holds because the write path takes no lock and never waits.

Nothing is assumed of the environment. `Start`, `RegisterMultihashLister`,
new calls and `PublishLatest` are driven by the host application or an
operator, and may never happen.

For that reason the spec's "a missed announcement is recovered by a later
PublishLatest" is not a liveness property here, and no property requires a
missed announcement to be recovered. ImplementsAdLog checks only that every
announcement, the recovering one included, carries the current head.

## 4. What is proved

`EngineProofs.tla` proves, for every value of the constants and any number
of callers, failures and crashes:

- `TypeCorrect == Spec => []TypeOK`
- `HeadsResolveHolds == Spec => []HeadsResolve`

The assumption used is `ConstantsAssumption` in Engine.tla: non-empty
providers and context IDs, the lister maps keys to lists, and the sentinels
are distinct from real values.

HeadsResolve is not inductive on its own. A caller between `Store` and
`PutLatest` holds an ad it is about to make the head. A caller at `store`
holds a PreviousID it read earlier. A caller at `plUpdate` holds a head it
read earlier. The strengthening `IInv == TypeOK /\ HeadsResolve /\ \A c :
CallInv(c)` records, for each step a caller can be at, which of its locals are
set and which links it holds are already in `blocks`. Blocks are never
removed, so a held link stays valid across other callers' steps.

The proof has these parts:

- `InitIInv`.
- One lemma per action. `DiesIInv` covers the effect of the process dying,
  which `Crash` and `PublishLatestPanic` share.
- `NextIInv`, which combines them.
- The two temporal theorems, by PTL.

`EngineRefinement.tla` proves, for a single caller (`Callers = {c0}`) and every
value of the other constants:

- `RefinesAdLog == Spec => ImplementsAdLog`. The engine implements the
  append-only log AdLog.

The argument has two parts:

- **The invariant.** `RInv == IInv /\ \A c : LogInv(c)`. `LogInv` says that
  what the caller holds still agrees with `sync/adv/`:
  - at `store` and `putLatest`, the PreviousID it read is the head;
  - at `announce`, the ad it made the head is the head;
  - at `plUpdate`, the CID `PublishLatest` read is the head.

  This holds only because no other caller can move `sync/adv/` in between.
  TLC confirms `RInv` on the one-caller instance and finds it violated with
  two callers.
- **The step simulation.** `LogStep` maps each step as follows:
  - `Store` is `Append`;
  - `PutLatest` is `Advance` (the ad is stored, by `CallInv`);
  - `Announce` and `PublishLatestUpdate` are `Announce` or a stutter;
  - `Start` is `Announce` or `Forget`;
  - `Crash` and the panic are `Forget`;
  - every other step leaves the three mapped variables alone.

  Then `Init => Log!Init`, and PTL combines the rest.

`EngineRefinement.tla` also proves, for a single caller:

- `HeadAdvancesOneCaller == Spec => HeadAdvancesByOneLink`. The lemma
  `RInvHolds` (`Spec => []RInv`) is shared with `RefinesAdLog`. Each step maps
  to an AdLog step or a stutter (`LogStep`), and every AdLog step keeps the
  head or advances it by one link. MC_ConcurrentFork shows that two callers
  break it.

`EngineIndexProofs.tla` proves a theorem about the index rows. It takes
one caller, `MaxFaults = 0` and `MaxCrashes = 0` as hypotheses. Each
hypothesis matches a violation the runs find without it:

- A failure or a crash between the two Puts of `putKeyCidMap`, or between
  the keyToCid and keyMD writes, leaves rows behind (MC_FaultIndex).
- Two callers working on the same key interleave their writes.

The hypotheses are satisfiable: MC_SeqIndex runs exactly under them.

- `RowsPairedHolds == Spec => [](\A k : Settled(k) => RowsPaired(k))`. This
  is the first conjunct of IndexMatchesChain: a settled key has a metadata
  row exactly when it has a keyToCid row. The strengthening `PInv` says two
  things:
  - a key is paired unless the caller is at one of the steps between its
    first and last row write;
  - at each row step, the keyToCid row of the caller's key is absent or
    present, as that step expects.

  The early returns `ErrNoMultihashLister` and `AlreadyAdvertised` come
  before any write, so they leave the key paired.

`EngineIndexRefinement.tla` proves, under the same hypotheses (one caller,
`MaxFaults = 0`, `MaxCrashes = 0`):

- `RefinesIndexMap == Spec => ImplementsIndexMap`. The rows implement the
  abstract index map, step by step. The invariant is `XInv == IInv /\ PInv /\
  FwdChains /\ PathInv(c0)`, checked by TLC on the MC_SeqIndex instance
  (with distinct and with shared lists) before the proof. `PathInv` records
  which path of `publishAdvForIndex` the call took:
  - a put that chunks found no keyToCid row (`existing = None`);
  - at `putFwd` it holds its key's chain;
  - a put that reuses the row holds, at `putMd`, metadata that differs from
    the present metadata row. `GetMetadata` compared them, and no other
    caller can write the row in between.

  The step lemmas are:
  - `PutMetadataIndex`: `putKeyMetadataMap` is `Put` on a new key (by
    `FwdChains`, the row holds `Chunk(Lister[k])`) and `Update` on a known
    one (by `PathInv`);
  - `DeleteKeyCidIndex`: `deleteKeyCidMap` is `Remove`;
  - `PutKeyCidIndex`: `putKeyCidMap` on a new key is a stutter;
  - `IndexStep`: every other step is a stutter.

  `IndexOfAt` and `IndexOfExcept` are the lemmas about the mapping used at
  every step.

`Engine.tla`'s `ConstantsAssumption` includes `None \notin Keys \cup
(EntriesCids \X AllMetadata)`: an absent row is neither a key nor an
(entries, metadata) pair, as the model value standing for it is distinct
from every value.

Only model-checked:

- The rest of IndexMatchesChain, and PubRootNeverRegresses. Both are stated
  with the recursive chain walk `Walk` (`LatestAbout`, `OnChain`). What a
  recursive function computes can only be obtained through the library's
  induction theorems, which take an operator parameter that the installed
  provers cannot instantiate.
- ServableEntries and NoRepeatedPut. ServableEntries is false with two keys
  that share an entry chain (MC_SharedEntries), NoRepeatedPut with two callers
  (MC_ConcurrentPut).
- HeadAdvancesByOneLink, ServableEntries and PubRootNeverRegresses with two
  callers. There they are false: see the violation runs.
- ImplementsIndexMap with a failure or two callers. There it is false.
- CallsReturn. Liveness under fairness is out of TLAPS's reach.
- RowsReadBack. Its module uses recursion (the fold of `path.Clean`), and
  what a recursive definition computes for every input is beyond the
  provers. TLC enumerates the whole finite input alphabet instead.

## 5. Not modelled, and the plan

| Component | Status | Reason |
|---|---|---|
| Legacy `map/cidKey/` row and `getCidKeyMap` precedence (part_001:683-709) | not yet | with the link system's lazy loader (spec-modelled, since it is not under src/) |
| `PublishLatestHTTP`, `httpAnnounce`, senders, `Shutdown` | not modelled | network I/O; planned as an announce module with lost and duplicated messages |
| Chunker LRU cache | not modelled | not under src/; spec-modelled if added. KeyEncoding notes that a context ID can reach its `/cache/links` namespace |
| CLI `list` and `Entries.Drain` depth limit (part_000) | not modelled | argument parsing and printing; a walk bounded by the recursion limit is planned |
| Admin server `ListenNetAddr` and timeouts (adminserver.go) | not modelled | parsing and conversion by go-multiaddr and manet, library code; no state and no interaction with the engine; the timeouts are plain durations passed to `http.Server` |

Plan for later sittings, in order:

1. The loader and the legacy index.
2. An announce module with lost and duplicated messages.
3. A bounded `Drain` walk for the CLI.
