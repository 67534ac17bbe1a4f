# A TLA+ model of krx-cli

`krx-cli` reads Korea Exchange (KRX) open-data through a Rust SDK, a
command-line program and a Node binding. Several processes share one *state
root*: a response cache, a daily quota ledger, configuration with approval
observations and a watchlist. The SDK has no server and no database; what
keeps those files right is a set of protocols over `mkdir`, `link`, `rename`
and `unlink`, in processes that are cancelled, killed and paused at any point.
These protocols are what the modules here specify.

Paths below are relative to `src/`; `state.rs`, `quota.rs` and the like are in
`src/crates/krx-sdk/src/`.

## Inventory

| Component | State | Operations | What is hard | What makes it right |
|---|---|---|---|---|
| Plain directory lock, `state.rs` | `<file>.lock/` with `owner`, `steal`; tombstones `<file>.lock.stale-<claim>` | acquire, steal if stale, drop | every step is a system call others can interleave with; crashes in the middle; live processes that pause | mutual exclusion; a steal moves only what it claimed; a dead owner's lock is recovered |
| Cache lease, `state.rs`, `cache.rs` | `cache/.leases/<key>.lock/` with `owner.json`, `steal` | acquire, observe, steal if unchanged, drop | as above, and the lease expires at an absolute age though its holder lives | below that age one holder with its `owner.json` in place, and a live one loses the lease only past that age |
| Quota ledger, `quota.rs` | `rate-limit.json`: count and KST day per credential | reserve | concurrent read-modify-write; cancelled callers whose worker goes on; midnight; legacy format; full ledger | never undercounts, never above the limit, never decrements, stays readable |
| Retry engine, `transport.rs` | per call: attempt, deadline, cancellation | execute, wait to retry | a reservation per attempt, raced by cancellation and deadline | no attempt without its own unit; every call returns |
| Query coordination, `client.rs`, `cache.rs` | a flight per key and process (gate, `network_result`), a lease per key | query under Prefer, Refresh, Offline | singleflight, lease and files are three layers with different lifetimes; blocking tasks outlive their call | entries are not lost or replaced by older ones; a refresh returns something new; every call returns |
| Cache files, `cache.rs` | `v2` and legacy `v1` file per key | read, probe, write, promote, quarantine, remove legacy | two pathnames per entry; check-then-act on pathnames; writes committed but not durable | v1 goes only after a durable v2; only invalid entries are quarantined |
| Cache maintenance, `cache.rs` | the whole cache directory | status, inspect, prune, clear | runs without the leases of the keys | deletes only what it recognised |
| Credential store, `credential.rs` | keychain entry; `apiKey` of the legacy `config.json` | set, remove, resolve, migrate | two stores, one of them without locks; rollback of half a migration | the secret is in one place, approvals belong to the credential in use |
| Approval observations, `approval.rs` | rows of `config.json` bound to a credential fingerprint | status, record, clear for rotation, migrate | probes that end late; rotation in between | an observation is shown only for the credential it was made with |
| Watchlist, `watchlist.rs` | `watchlist.json`, v0 or v1 | list, add, remove | concurrent mutations; cut-over of v0; entry bound | no mutation lost, no duplicate, bound kept |
| Release check, `crates/krx-cli/src/release_check.rs` | a cache record: evidence, last failure | incidental and explicit check | processes load, ask the network and save one file without a lock; clocks that are set back | requests are rationed whoever saves last |
| Upgrade, `crates/krx-cli/src/upgrade.rs` | archives, pnpm's global package | check, download, install, clean up | pnpm fails half-way; overlapping runs; the archive of the installed package must stay | the recorded archive stays; krx is neither lost nor downgraded |
| Calendar, `calendar.rs` | a verified snapshot of some years | classify, select a range, resolve the last session | years the snapshot does not know, on either side | no session of a known year is passed over, none of any year is lost from a range; a range tells what is unverified |
| Composites and ranges, `client.rs`, `range.rs`, `composites.rs`, `completeness.rs` | the units of a call under way | range, search, market summary, watchlist prices | units end in any order, the deadline and the token come in between; reductions of mixed outcomes | the result tells of each unit; partial is never complete |
| Price adjustment, `adjustment.rs` | none | adjust a history | suspensions, changes of the number of shares, rounding | the history is rebased as a whole; rounding makes nothing up |
| Request observations, `observation.rs` | one buffer a command | record, take | concurrent units share the buffer | told unit by unit, in order |
| Command line, `crates/krx-cli/src/args.rs`, `output.rs`, `main.rs` | one command line | parse, call, filter, write, exit | many commands reduce many outcomes to one exit status | the status tells the outcome; only a unique match is added |
| Node binding, `crates/krx-node/src/lib.rs`, `packages/node/dist/client-factory.js` | calls in flight, a thread-local flag | call, abort, poll, settle | futures move between threads; panics inside polls; abort before, during and after | an abort reaches the call; only its own panics are hidden |
| Windows state backend, `state_windows.rs` | the same files | the same protocols through handles | what is open cannot go away, deletion is pending, renames are denied | the same, under any pause |
| Operations, requests, conformance, errors, results | none | types and validation | | |
| Contracts, generated code, scripts | none | | | |

How they interact: a query (`client.rs`) probes the cache, joins the flight of
its key in its process, then the lease of its key in the state root, then calls
the retry engine (`transport.rs`), which reserves one quota unit (`quota.rs`)
per attempt under the plain lock (`state.rs`), and writes the result through
the cache (`cache.rs`). Quota, configuration and watchlist share the plain lock
protocol, each with a lock of its own. Blocking file work runs on tokio's
blocking pool: cancelling a call drops its future and leaves the work running.
Files are replaced by `atomic_write`; its last directory sync can fail after
the rename has happened (*committed, not synced*).

## Modules

| Module | Models | State and actions |
|---|---|---|
| `PlainLock` | `state.rs` 669-842, 984-1008, 1116-1433, 1661-1721 | directories by identity, the pathname, `owner` and `steal` files, tombstones, age; one action per system call of `try_acquire_plain_lock`, `steal_plain_lock_if_stale` and `Drop` |
| `PlainLockProof` | | its theorems |
| `Quota` | `quota.rs` | ledger, legacy entry, lock, day, a blocking worker per call; one action per step of `reserve_blocking` that others can see |
| `QuotaProof` | | theorems of `Quota` and `Transport`, and the refinement of `QuotaSpec` |
| `Transport` | `transport.rs` `execute_until`; `EXTENDS Quota` | per call: attempt and place in the loop; every action is an action of `Quota` with the caller's side, or leaves the quota alone |
| `CacheLease` | `state.rs` 459-653, 1308-1433, 1498-1626; `cache.rs` 1109-1125, 1362-1380 | as `PlainLock`, with `owner.json` that can be half written and an absolute age; an observer reads the mtime (`Observe`) and then `owner.json` (`ReadOwner`) and judges them together; a steal is that of an acquisition or of `delete_stale_leases` |
| `CacheLeaseProof` | | its theorems |
| `CacheCoordination` | `client.rs` 541-958, 1032-1103; `cache.rs` 208-357, 505-777, 1029-1088 | two files of one key, flight per process, lease, call and blocking task as two actors |
| `CacheCoordinationProof` | | its theorems |
| `CredentialStore` | `credential.rs` 115-306; `approval.rs` 196-396, 548-630; `client.rs` 309-423 | keychain, `config.json` and its lock; a call is a rotation, a migration or a probe with its record; one action per access to either store, each of which may fail; `Remove` without a lock |
| `CredentialStoreProof` | | its theorems |
| `AbstractLock` | what callers are promised of the lock | the processes whose guard is alive; take when free, free |
| `WindowsLock` | `state_windows.rs` 846-1108, 1589-2405, 2680-2802 | `PlainLock` through handles: an open file or directory outlives its removal, its name stays taken until the last handle closes, a rename moves the directory of a handle or is denied |
| `WindowsLockProof` | | the refinement of `AbstractLock` |
| `Watchlist` | `watchlist.rs` 106-412 | `watchlist.json` in its forms, the lock as `AbstractLock`, a mutation a call |
| `ServicesProof` | | theorems of `Watchlist`, `NodeBoundary`, `ReleaseCheck`, `Upgrade`, `Calendar` and `CacheMaintenance` |
| `CacheMaintenance` | `cache.rs` 413-490, 816-1023; `state.rs` 277-421, 846-968 | the files of a few keys and their temporaries; calls that list, read, choose and remove one file at a time beside writers; removal by name or by handle |
| `ReleaseCheck` | `release_check.rs` 315-650 | the saved record, a clock, per process what it loaded and when |
| `Upgrade` | `upgrade.rs` 49-761 | what pnpm has installed and recorded, the archive directory, releases, overlapping runs |
| `Sublist` | the loops that keep some items of a list | the sublist at a set of indices: an operator the prover can open, which `SelectSeq` and the folds are not |
| `Completeness` | `range.rs`, `composites.rs`, `completeness.rs` | the reducers, as operators on the outcomes of units; no state |
| `Composite` | `client.rs` `range`, `search_stocks`, `market_summary`, `watchlist_prices` | units waiting, under way and ended; cancellation, deadline; `EXTENDS Completeness` |
| `Command` | `args.rs` 13-682, `output.rs` 26-1377, `lib.rs`, `main.rs` | one command line from its flags to its exit status; `EXTENDS Completeness` |
| `CompositeProof` | | theorems of `Composite`, `Command`, `PriceAdjustment` and `RequestLog`, and the lemmas on lists |
| `PriceAdjustment` | `adjustment.rs` 29-433 | a history that grows by one row at a time; the adjustment is an operator on it, in exact rationals |
| `Calendar` | `calendar.rs` 48-281 | the snapshot; ranges, recent dates and the error without one, asked of every day |
| `RequestLog` | `observation.rs`, and its callers in `client.rs` and `transport.rs` | the buffer, the units that record in it, retries |
| `NodeBoundary` | `krx-node/src/lib.rs` 33-521, `client-factory.js` 123-335 | calls, their signals, which thread polls which, the guard's flag of each thread |
| `MC*` | | constants for TLC, symmetry, initial states; `MCServices` puts the parts that share nothing side by side, one a behaviour |

### What the modules abstract

- *Plain lock and lease.* A candidate file (`.owner.<id>.tmp`) and the link that
  publishes it are one step: nobody reads candidates. An open descriptor pins
  its directory, so identities (device and inode) are never reused while
  somebody compares them; the models never reuse them. `fsync` of a directory
  has no effect there: power loss is not part of the lock's promise. A crash is
  process death. Owner tokens carry a fresh UUID per call; a contender of the
  model is one process, and `DropOpen` compares its token.
- *Lease.* `Discard` joins the release of the stealer's claim and the clean-up
  of its tombstone, whose name is unique. The second read of the claim in
  `release_steal_claim` is the read of `ReadClaim`. The mtime is an old or a young
  one, kept for the directory at the pathname (`still`) and for each observer
  from its `fstat` on (`seen.old`); any change of the entries renews the former
  and not the latter. Time passes at any moment, beside anybody at any place.
  Owners dated in the future are not modelled.
- *Quota.* The lock is one holder at a time whose death frees it: what
  `PlainLock` shows when nobody dwells in the lock for 30 s. `Write` follows the
  last look at cancellation and deadline: past it, the code does not stop. The
  legacy ledger has one entry without a credential; it is attributed to the
  credential that reads it, as `decode_quota` does.
- *Transport.* Responses are outcomes (done, retryable, failed); `Retry-After`
  only changes how long the call waits. No property tells a success from an
  error, so returning is one place.
- *Coordination.* A result is the number of the fetch it came from, so that
  "older" has a meaning; files are a result, `Corrupt` or `None`. The lease is
  taken while its call or its blocking task holds the `Arc`: what `CacheLease`
  shows of leases younger than the absolute age whose `owner.json` is in place.
  The cases of limit 14 and finding 2, where two calls refresh side by side, are
  not in it. `durable` is what a power loss would
  leave at worst. Only entries that can be promoted exist in v1:
  `decode_v1` refuses empty and current-day entries. `Corrupt` is within the
  read bound; an oversized file is never moved.
- *Credential store.* The lock is one holder at a time whose death frees it, as
  in `Quota`. A configuration is its version, its credential and its rows; a row
  is the fingerprint it is bound to, other keys are not modelled. A keychain
  item that is not a valid key is one that differs. A failed `set` of the
  keychain may have stored the item or not. `legacy` and `discarded` are history:
  the credential there was in the beginning and whether the user gave it up.

- *Windows lock.* A handle is the directory a process has open and the file of it
  that it has open; a process has one of each at a time, as in the code. A rename
  is denied whenever somebody else has something of the directory open
  (`Occupied`), and may be tried again. The candidate file is one step with its link.
- *Watchlist.* The lock is `AbstractLock` (`Lock!Take`). A write is committed or
  not, whatever its caller is told. The bound of a later read is an `ASSUME`
  that TLC evaluates with the numbers of the code.
- *Maintenance.* An entry is the number of the write that left it, and its
  `fetched_at`. A scan that meets a change or an error fails as a whole
  (`MtFail`). The numbers that `status` and `inspect` report are left out.
- *Release check.* Time is a counter, evidence is its time. A record that does
  not decode, or whose times lie ahead of the clock, is none.
- *Upgrade.* pnpm is external: a command of it is one step that succeeds or keeps
  what was there. An archive is the version it holds, whether it is verified, and
  whether it is there.
- *Composite and command.* A unit's query is one step with one of the outcomes
  that `CacheCoordination` can return. What is in a row, and the layout of
  output, is left out; that rows were dropped or reordered is not. Of the kinds of
  errors that `output.rs:85-91` tells apart, approval (6) and those that exit 1
  come from a call; 2 and 4 come from the steps before it; authentication (4) and
  rate limit (5) as the error of a unit are left out.
- *Calendar.* Years and weeks are short and holidays few; which day is one is a
  constant, the arithmetic of dates is left out.
- *Node.* Conversion of arguments and results is left out; the SDK's call is open
  but for its first look at the token. A poll may panic anywhere.

## Runs

Every run takes two workers at most a few minutes.

| Run | What it shows | Bounds, and why they suffice |
|---|---|---|
| `plain_lock` | `ImplementsAbstractLock` and `DeadLockRecovered`, crashes anywhere, no pause of 30 s inside the lock | 3 contenders, all of which may die: a dead owner and two that steal, one of which acquires; 3 directories: the stale one, its successor and the next |
| `plain_lock_pauses` | `PublishedHolderKeepsPath`, `StealMovesOnlyTheClaimed`, with pauses of any length | 3 contenders, 3 directories, 2 crashes; the proof has no bounds |
| `windows_lock` | `ImplementsAbstractLock` under pauses of any length, `OrphanRecovered` | 2 contenders over 2 successive directories (a successor beside a late stealer), or 3 in the last directory (an owner held open by a third while it is released); all may die |
| `quota` | `CountsEveryUnit`, `WritesValidLedger`, `NeverDecrements` | 3 calls of 3 credentials in a ledger with room for 2, limit 2, 2 days: every count reaches the limit, the ledger fills and is pruned |
| `transport` | `AttemptsAreReserved`, `NeverUndercounts`, `EveryCallReturns` | 2 calls of one credential, 2 retries each; limit 4 below the 6 attempts they may make |
| `transport_midnight` | violation (finding 1) | the same calls, one retry, midnight anywhere |
| `cache_lease` | `LeaseExclusion`, `LiveHolderLosesOnlyAged`, `DeadLeaseRecovered` while no live claim is evicted (`EvictsDead`, finding 2) | 2 contenders that pause anywhere and for any time, one of which may die, over 3 successive directories, on any remains of 2 that died: an owner file, whole, torn or none, with a claim or none. `DeadLeaseRecovered` holds without the condition, too |
| `cache_lease_evict` | violation (finding 2) | the same without the condition, nobody else dying |
| `cache_coordination` | `EntryNeverLost`, `NeverGoesBack`, `WriterRemovesWhenDurable` | 2 calls in one process and 1 in another, all mixtures of old entries, three fetches |
| `cache_refresh` | `RefreshIsNew`, `EveryCallReturns` for command-line use | 3 processes of one call each, two refreshes and an offline read; no v1 entry (with one to promote: limit 2) |
| `credential_store` | `SecretSurvives`, `ConfigStaysReadable`, `MigrationSparesOthers`, `ObservationsAreKept`, `RotationStartsClean` | 3 calls, 2 credentials, 2 categories, any configuration and keychain to start from: a rotation, a migration and a probe beside each other, and two of one kind; the proof has no bounds |
| `services` | the fifteen properties below, each of its part | see below |

`services` is one run of ten parts. A behaviour is one of one part, from all of
its initial states, and the others stay as they began.

| Part | Property | What it says | Bounds |
|---|---|---|---|
| watchlist | `MutationsCompose` | a write applies its operation to the list that was there when it wrote, and keeps it readable | 2 calls, 3 mutations, 3 ISINs, room for 2: the list fills, with additions under way |
| maintenance | `PruneKeepsNewest`, `UndisturbedMeetsRule` | racing prunes keep the newest entry unless an unlink by name hits a replacement; a call nobody disturbs leaves what it promises | 2 calls, 2 keys (one with a legacy file), bound 1, one write in between |
| releases | `RequestsAreRationed` | no second incidental request within the cooldown of the first, whoever saves last | 2 processes, cooldown 3, interval 4, 5 seconds: every process asks, waits and asks again |
| upgrade | `RecordedArchiveStays`, `NoLossNoDowngrade` | the archive pnpm will read again stays; krx goes away or back only where stated | 2 overlapping runs, 2 new releases |
| adjustment | `AdjustedRowsAreReal`, `HistoryIsRebased` | rounding makes up no price; a new day rebases all earlier factors alike | histories of 3 rows: a boundary, a suspension in between, and one after |
| composite | `ResultTellsEachOutcome`, `PartialIsNeverComplete` | whatever the order of the units | 3 days, 2 at a time; two markets |
| command | `ExitTellsTheOutcome`, `AddsOnlyTheUniqueMatch` | the exit status is what became of the units | 2 days, 5 outcomes, every command line |
| calendar | `NoSessionIsGuessedAway` | a range loses no session of any year and tells what is unverified; the recent date is a session, and neither it nor its error passes over one of a covered year | 3 years of 5 days: the snapshot's year with one before and one after |
| log | `TakenTellsUnitByUnit` | what is taken tells one unit after the other | 2 units, 1 retry each |
| node | `BoundaryHolds` | an abort reaches the call; a panic of the boundary is hidden and no other | 2 calls polled by 2 threads |

Each passing property has a mutant in `PROJECT.json`: a variant of one mapped
definition, defined beside it, under which TLC finds the property violated.

### Fairness

Nobody has to crash, to cancel or to be late. `PlainLock` and `CacheLease`:
weak fairness of each contender's steps (processes are scheduled, and a caller
polls until its deadline) and of time passing. `Transport`: weak fairness of
the call and of its worker; the provider's answer or the 15 s timeout of an
attempt always comes. `CacheCoordination`: weak fairness of calls and blocking
tasks, except for `Stop`; a call that finds the lease taken polls it again.
`WindowsLock`: as `PlainLock`, and strong fairness of a stealer's rename: those
who keep something of the directory open only read it, so that a rename that is
tried again and again is not denied for ever.
A call of the code has a deadline of 45 s that would end every wait: the models
leave that out of fairness, so what they show is that calls return without it.

## What is proved

The proofs hold for every value of the constants.

- *Plain lock.* `TypeCorrect`, `Fenced`, `HolderKeepsPath`, `PublishedExclusion`,
  `StealsOnlyClaimed`, under no assumption about pauses or crashes. The
  inductive invariant adds four parts. `OnlyLivingAct`: the dead do nothing.
  `ReliedOnClaims`: the claim a stealer relies on is in place and stays,
  because it is its own or its claimant is dead and will not withdraw it.
  `TombstonesRetained`: the directory a tombstone is named for stays there with
  its claim. `RenameTarget`: a stealer about to rename finds what it claimed, or
  an adopter of the same claim has already retained it. The last two are why a
  late rename fails on the tombstone instead of moving a successor; with
  `ClaimFence`, no holder in good order can be in the directory that is moved.
  `PlainImplementsAbstractLock`: when no live process dwells in the lock past
  `staleAfterMs` (`LongPauses = FALSE`), `Spec => ImplementsAbstractLock`. Then the
  directory has one user, who finds it at the pathname and young (`OneUser`), and
  whoever goes on to steal it has seen it old, so its user has left it
  (`StolenIsLeft`).
- *Quota.* `QuotaTypeCorrect` unconditionally; `QuotaCountsEveryUnit` and
  `QuotaNeverDecrements` when no reservation spans midnight
  (`MidnightRaces = FALSE`; without it both fail, see finding 1). The invariant
  adds that a worker in the critical part holds the lock (`OneWriter`), that
  its day is today's (`DaysAreFresh`), that what it is about to write is still
  one unit more than what is on disk (`BufferIsCurrent`), and that nothing is
  committed ahead of time or before a legacy ledger is replaced
  (`NothingCommittedAhead`). `QuotaStaysReadable`: no ledger is written that a
  later read would refuse, over midnight too. The room for the new key is looked
  for after the prune and before the unit is counted; the invariant follows it
  from there to the file (`RoomInv`, `Fits`).
- *Transport.* `ImplementsQuota`: `Spec => QuotaSpec`, step by step or
  stuttering, so that everything proved of `Quota` holds of the engine.
  `TransportTypeCorrect` bounds the attempts. `EveryAttemptReserved`: a granted
  unit is spent once, on the attempt of the call it was granted to
  (`UnitsCoverAttempts` counts the granted and not yet spent). It holds over
  midnight, too. `QuotaNeverUndercounts` joins it with `QuotaCountsEveryUnit`,
  when no reservation spans midnight.
- *Credential store.* All its properties. The invariant says of each call what
  it knows under the lock: a migration under way still has the credential in
  `config.json` (`MovingInv`), stores it only where nothing is and removes only
  what it stored (`CreatedInv`); when a write is about to drop the credential
  from `config.json`, the keychain holds it or the user has given it up
  (`WritingInv`); what is about to be written is readable and keeps the rows
  unless it is a rotation's (`BufferInv`). Only the holder of the lock changes
  `config.json`, so that what one call knows is not disturbed by another
  (`Others`). `SecretSurvives` alone is not inductive: it does not tell why the
  write that drops the credential is harmless.
- *Windows lock.* `WindowsImplementsAbstractLock`: `Spec => ImplementsAbstractLock`,
  under no assumption about pauses or crashes, and on the way
  `WindowsHolderKeepsPath`. `ImplementsAbstractLock` says nothing of files, so
  the invariant carries the argument: a directory has one creator, which alone
  may own it or delete it (`OneCreator`, `Standing`, `Published`); a stealer goes
  on only over an absent or dead owner and on a claim that stays
  (`OwnerSeenDead`, `Relied`); so an owner that found no claim and a stealer that
  found no live owner are never in one directory (`Fenced`), and the one that is
  renamed is no holder's (`KeepsPath`). What closing a handle may complete is
  stated once (`SettleResult`) and used by every step that closes or deletes.
- *Lease.* All three properties about who has it, of the behaviours in which an
  eviction unlinks no live claim (`EvictsOnlyTheDead`): finding 2 is the only way
  that a recovery takes what it did not claim. However long processes dwell
  (`KInv`): a claim found in place again stays, and keeps the directory at the
  pathname until the rename (`ClaimsStay`, which an eviction of a live claim
  breaks), hence `RecoveryTakesTheObserved`. `HolderKeepsLease` needs to know what
  the stealer saw: a process writes owner.json once in a directory (`WritesOnce`),
  so the whole one of a live process that is there now is the one that was seen
  stale, past the absolute age (`SeenAged`), and a stealer about to rename has seen
  that of anybody past the fence (`FencedOut`). From there
  `LeaseIsExclusive`: a holder whose `owner.json` is in place and younger than the
  absolute age is at the pathname (`IntactInPlace`), because it was when it
  entered (`IntactBefore`), nobody else writes that file or makes it younger
  (`OwnerIsOlder`), and only a rename past the absolute age moves the directory
  (`LeaseTakenIsAged`). The old mtime of limit 14 does not matter here: it leads a
  recovery to a directory that had no owner file, so its claim either finds none
  again or gives way.
- *Coordination.* The lease is one (`LeaseIsOne`), and whoever is past taking it
  is the only one to write v2 (`Owns`). `EntryNeverGoesBack` rests on what a call
  knows under the lease: what it fetched is newer than what the file holds, and
  what it promotes is no older than what is in v2 (`Knows`). `EntryIsNeverLost`
  and `LegacyOutlivesTheWrite` add that nobody moves a valid entry away
  (`LeasedOnly`: no offline reads, limit 3). `RefreshReturnsNew`: a refresh
  returns what was fetched after it was called, when it shares its process with
  offline reads only (`RefreshesAlone`, limit 6) and v1 holds nothing that can be
  promoted (`NothingToPromote`, limit 2); without either it fails.
- *Services.* Watchlist, `WatchlistComposes`: what a call writes is a mutation of
  what is in the file at that moment, because the guard is one
  (`WatchlistGuarded`) and what a call has read under it stays current; and the
  next read accepts it, because what was read decodes, an addition has been given
  room and a removal takes a sublist, which is no longer and names no ISIN twice
  (`ListInv`). Node,
  `BoundaryIsKept`: a call is polled by one thread, whose flag is up exactly while
  it is inside the boundary (`NodeInv`). Release check, `ChecksAreRationed`: what a
  process knows is no older than what it loaded, and a process that is about to
  ask has found no evidence within the cooldown (`RationInv`). Upgrade,
  `UpgradeKeepsItsArchive` and `UpgradeNeitherLosesNorDowngrades`: each place of a
  run is described by what it has seen of pnpm's record and of the archive
  (`Knows`), beside any number of other runs (`UpgradeInv`). Calendar,
  `CalendarGuessesNoSessionAway`: what is known of a session (`StatusOfSession`)
  rests on the last weekday of a year being the last (`YearEndIsLast`), which
  exists by the least element of a set of numbers (`LeastNatural`), which
  well-foundedness gives.
- *Composites and ranges.* `CompositeTellsEachOutcome` and `PartialIsMarked`, for
  any number of days and any width. A sublist is led by its indices in order
  (`SublistLed`), so it keeps the order of the units and repeats none
  (`ThoseAre`); the lists of a result hold every unit between them and are as long
  together as the units are many, so no two have one in common (`SharedOut`).
  `ReducedTells` says of every reducer and any outcomes which lists there are, what
  the state means of them and what is shown. `CoInv` follows the units: what has
  ended and been collected has one outcome, in the slot of its unit, whatever order
  they ended in, and nothing is answered before that.
- *Command line.* `ExitIsTold` and `UniqueMatchIsAdded`, for every line and any number
  of days. What a line calls has one outcome a unit (`OutcomesTold`), the answer
  says of them what its state and error mean (`AnswerSays`, from `ReducedTells`),
  and filtering can empty an answer but makes up none (`CmInv`).
- *Price adjustment.* `RoundingKeepsRows` and `LaterDaysRebase`, for histories of any
  length with any suspensions in them. A ratio is reduced and positive
  (`RationalIs`). The factors are a recursive function over the history: that it
  exists, and that each factor follows from the next, comes from the least index
  at which it would fail (`FactorsAre`, by `LeastNatural`). So a later row
  multiplies all factors by one ratio (`RatiosCompose`, `LaterRowRebases`). A row
  stays real because rounding is monotone (`RoundedProductIs`) and an adjusted row
  that parses has a close.
- *Request log.* `LogTellsUnitByUnit`, for any number of units and retries. A unit
  tells its phases in ascending order (`ToldInOrder`: what it has told lies below
  the `Floor` of the place it is at) and the buffer holds just what the units told
  (`Buffered`). So no two entries sort alike, a sort of them has one outcome
  (`SortedIs`), and telling one unit after the other is sorted (`FlattenIs`).
- *Maintenance.* `PruneLeavesNewest`: the ranking of prune is a strict order
  (`PrecedesOrders`, from the existence of the listing); whatever a call has read
  is still there or something that comes before it is, and before each of its
  targets there is something (`NewestKept`), because no step lowers what is there
  (`Higher`): so a target is never the last of the newest. `CallMeetsRule`: while
  nobody writes, a call has read, or is to remove, all that its rule does not let
  it keep (`QuietCall`), and of ranked entries fewer than `n` of which come before
  each there are `n` at most (`FewAreRankedFirst`).

Assumptions: the named `ASSUME`s of the modules (`None` is no contender, the
limits are positive, the calls and the keys of the cache are finitely many, no
configuration and no entry is `None`, a command has a unit at least, and its units
are numbered in the order of operation and date).

No run repeats what is only a part of an inductive invariant or implied by a
property that a run checks: the type invariants, `ClaimFence` and
`PublishedMutualExclusion` of the lock are proved and not listed in a `.cfg`.

Only model-checked: all liveness (the prover has no `ENABLED`). Every safety
property of a run is stated by a theorem, under the conditions named above.

## Findings

Runs that expect a violation state what a document promises.

1. `transport_midnight`, `NeverUndercounts`: a reservation keeps the day it read
   before the lock wait (`transport.rs:301`), and its write prunes the entries of
   the next day (`quota.rs:174`). `docs/HTTP-RELIABILITY.md:14`: "a crash may
   overcount but must never undercount".
2. `cache_lease_evict`, `RecoverySparesReplacement`: evicting a dead claim
   compares it and then unlinks by name (`state.rs:1422`). With a dead owner, a
   dead claimant and two live stealers, one unlinks the other's claim; both pass
   revalidation, and the later rename moves the lease of whoever acquired in
   between. `docs/CACHE.md:46`: "exact observed claims so a replacement owner
   cannot be removed accidentally".
Limits of the properties that pass, some visible by changing the named constant, the others as the conditions the
properties state:

1. *Plain lock, pauses.* The new lock directory is opened by pathname
   (`state.rs:691`). A creator that pauses for 30 s before that opens its
   successor's directory and, failing to link, unlinks the successor's `owner`
   file, though the comment at `state.rs:1186` leaves recovery to the stale-lock
   path "instead of ever deleting a replacement contender's lock". Hence the
   condition on the owner file in `PublishedHolderKeepsPath` and
   `PublishedMutualExclusion`.
2. *Refresh and promotion* (`Call = {a, b}`, `OldV1 = {1}`, `ProcessOf <- Separate`,
   `PolicyOf <- OnePrefers` in `CacheRefresh.cfg`). The baseline of a refresh is probed in two files one after the other, without the lease; a
   promotion in between leaves no baseline, and the promoted entry is taken for
   the work of another refresh (`client.rs:1086`).
3. *Offline quarantine* (`Call = {a, b}`, `PolicyOf <- OneOffline`,
   `ProcessOf <- Separate` in `CacheCoordination.cfg`). Quarantine compares a file with the observed one and
   then renames the pathname (`state.rs:314`); an offline read does so without the
   lease and can move the valid entry that replaced the invalid one.
   `EntryNeverLost` is checked of calls that take the lease.
4. *Durability.* After a v2 write that was committed but not synced, the next
   call finds the v2 entry and removes v1 without a sync of its own
   (`client.rs:840`). `WriterRemovesWhenDurable` speaks of the call that wrote.
5. *Removal beside a migration.* `remove` takes no lock and deletes the keychain
   item only (`credential.rs:124`, `authRemoveDeletes: keychain-only` in
   `contracts/product/v1/migrations.yaml`). Between the verification and the write
   of a migration it leaves the credential in neither store; `SecretSurvives`
   counts that as the user's wish.
6. *Shared refresh* (`Call = {a, b}`, `ProcessOf <- OneProcess`,
   `PolicyOf <- TwoRefresh` in `CacheRefresh.cfg`). Two refreshes in one process share a flight, and the
   second can be answered with a result fetched before it was called
   (`client.rs:763`), though `docs/CACHE.md:23` says that `--refresh` forces a
   network result. The command line makes no two such calls; an SDK user can.
7. *Prune by name.* On Unix, removal of an observed entry compares and then
   unlinks the pathname (`state.rs:314`, `state.rs:333`, stated at
   `state.rs:246`): it can remove the newer entry that replaced it in between.
   `PruneKeepsNewest` excepts exactly that, and on Windows nothing.
8. *Windows, a claim left behind.* A stealer that finds the owner file being
   deleted returns an error at once and leaves its own claim in place
   (`state_windows.rs:1021`): nobody recovers that directory while it lives.
   `OrphanRecovered` excepts it (`ClaimLeftBehind`).
9. *Release check.* The comment at `release_check.rs:414` does not hold for a
   record saved in a later second, or saved between load and save; builds for
   different targets take turns in invalidating one record. Hence the step that
   `RequestsAreRationed` allows.
10. *Overlapping upgrades.* Runs for different releases can delete the archive that
   pnpm recorded, downgrade, or remove a package just installed; the properties of
   `Upgrade` are of runs for one release, and say so. That includes the run that
   found no archive and removes krx while another release's run brings one back
   (`upRaced`).
11. *Command line.* `--output` is ignored by ranges, `--date` beside `--from` and
   `--to`, and `--asc` without `--sort`: accepted, without effect.
12. *Ranges.* A range of which every session failed but one day is closed is
   "partial" without data.
13. *Node.* A panic in a blocking task that the SDK spawned runs on a thread
   without the guard: it is printed, not redacted. `BoundaryHolds` is about polls.
14. *Lease without its owner file* (`Holds` in place of `Intact` in
   `LeaseExclusion`). Two processes can hold the lease of a key together, though
   `docs/CACHE.md:42-43` says that "per-key leases serialize promotion and
   replacement". As limit 1 by a pause: a creator that pauses before it opens its new
   directory by pathname (`state.rs:482`) opens its successor's, fails to create
   `owner.json` there and unlinks the successor's (`state.rs:1624`). The successor
   goes on to refresh without one, is taken for abandoned after 30 s
   (`cache.rs:1366-1370`), and another process refreshes beside it. But nobody has
   to pause for long:
   - a holder past 30 s drops its lease while another observes it: the observer has
     read the old mtime (`state.rs:1552`), the drop unlinks `owner.json`
     (`state.rs:1611`), the observer finds none (`state.rs:1576`), judges by the
     mtime it read (`cache.rs:1366-1370`) and takes the lease away;
   - if it does so between the last look of the drop (`state.rs:1615`) and its
     `rmdir` by pathname (`state.rs:1618`), the `rmdir` hits the empty directory that a
     successor has just made;
   - that successor opens by pathname (`state.rs:482`) the directory of the next,
     which is in order, cannot create `owner.json` in it and unlinks the one that is
     there (`state.rs:1624`): from there as above.

   `LeaseExclusion` and `LiveHolderLosesOnlyAged` are therefore of holders whose
   `owner.json` is in place, whoever pauses or not: they show that this is the only
   way before the absolute age, beside finding 2.
15. *Recent date.* `docs/KRX-CALENDAR.md:6-7` says that a fallback "emits a
   diagnostic rather than silently claiming official coverage". Ranges do; the
   recent date does not: `resolve_recent` collects the years it does not cover and
   the days it cannot verify (`calendar.rs:255-270`), and all its callers keep only
   the date (`client.rs:98`, `client.rs:119`, `client.rs:343`). After the last year
   of the snapshot it answers with the last session of that year, and past 370 days
   with an error (`calendar.rs:277`). `NoSessionIsGuessedAway` allows that: it says
   of the sessions that are passed over that their years are not covered.

## Plan

Done, in this order: `PlainLock` and its proofs; `Quota` and `Transport` with
their proofs and the refinement; `CacheLease`; `CacheCoordination`;
`CredentialStore` and its proofs; `AbstractLock`, implemented by `PlainLock` and
`WindowsLock` and used by `Watchlist`, with the proofs of the last two;
`CacheMaintenance`; the calendar, composites, completeness, adjustment and the
command line; release check and upgrade; the request log and the Node boundary;
the proofs of the lease and of the coordination, of the calendar, of release check
and upgrade, of the Node boundary and of maintenance, of the watchlist, composites
and the command line, of the adjustment and of the request log.

Models still worth having: `Quota` and `CredentialStore` with `AbstractLock` in
place of a lock of their own; the Windows lease; leases of processes whose clocks
disagree.

## Not modelled

Parsing, rendering, HTTP decoding, request validation, operations and the error
types: conversions without state, of which the models take the outcomes. Access
control lists and modes of files: nobody but the program writes in the state
root. Generated code and contracts are data; the generators, linters and release
scripts run in CI and are not part of the program.
