# Verification of repo-offline-sync

TLA+ models of `repo-offline-sync` (`src/repo_offline_sync/`): a host packages Git
repositories onto removable media, a machine without a network installs them.
TLC checks the models on small instances, TLAPS proves the invariants for every
instance. Line numbers below are those of the modules in `src/repo_offline_sync/`.

    tlc -workers 2 -config TargetEngine.cfg MCTargetEngine.tla    (one run)
    tlapm TargetEngineProofs.tla                                  (one proof module)

`PROJECT.json` lists every run, mutant, mapped definition, finding, hazard and
theorem; this file says what they mean together.

## 1. Inventory

| component | code | state it keeps | operations | hard behaviour | what makes it correct |
|---|---|---|---|---|---|
| target engine | `target_engine.py` | `transactions/<id>.json`, `results/<id>.json`, `releases/`, `repos/`, `adopted/`, the destination path, the service unit | `apply_package`, `_restore_previous`, `recover_transactions` | a crash or an exception between any two durable steps; a write that fails after its rename; a rollback that fails itself; a record that cannot be read | the old contents are never lost, only releases marked ready go live, the record always says what has to be undone, everything settles |
| transition matrix | `domain/policies.py` | none | `transition_transaction`, `failure_terminal_phase` | the engine does not call it: the two diverge | from activation on the engine's phases follow it, or leave it in known ways |
| target scanner | `scan_target.py` | `/run/.../lock`; in memory the copied packages | `scan_once`, `_copy_candidates`, `_choose` | exceptions inside a loop with `finally`, several media and mount points, a crash between the result and its queue | newest package per repository, nothing from a medium that is still mounted, no downgrade |
| removable media | `media.py` | `inbox/`, `staging/`, `results/` on the medium, `pending-results/<medium>/` on the target | `publish_package`, `verify_ready_package`, `local_copy`, `queue_result`, `replay_pending`, discovery, `normal_unmount` | the medium can be pulled out at any time; receipts are copied in place and durable only with the unmount | a receipt is never lost on a medium that is unmounted, a cut publication is never taken |
| packager | `packager.py`, `package_update.py` | receipts per target, the generation in the profile | `package_repository`, `build_package`, `_ingest_receipts`, `_latest_bases` | what it knows of the target is as old as the last medium; no lock; interruption between publication and profile; the developer checks out something else meanwhile | increments start from commits the target holds, a package is one graph |
| Git facts and bundles | `gitrepo.py` | none (reads work trees and Git) | `repository_facts`, `discover_graph`, `create_bundle`, ancestry, LFS discovery | HEAD is compared at one moment and bundled at another; submodules are read one after the other | the bundle carries what the base lacks and ends where the manifest says |
| profiles and target configuration | `configuration.py` | profile JSON, target JSON | load, save | read, prompt, write back without a lock | as packager |
| durable JSON, hashes, commands | `core.py` | files | `atomic_write`, `copy_verified`, `run` | failure after the rename; a timeout that kills only the child | a caller treats a failed write as perhaps done |
| profile store (new, not yet called by the packager) | `packaging/profiles.py`, `_profile_storage.py`, `_private_directories.py` | one profile file per repository, one identity file per clone, a lock | `initialize`, `reuse`, `load`, `edit`, `reset`, `rotate_token`, `link` | two files that must agree, concurrent processes, undo after a failed write, clones that move | one profile per clone, stable answers, no lost update |
| command runner (new, not yet called by the engine) | `platform/_command_runner.py`, `_command_start.py`, `command_types.py`, `commands.py` | a process group, two pipes, a self-pipe token | `run_command`, `CancellationToken.cancel` | deadline, cancellation, signals, output and exit race; descendants that ignore SIGTERM or leave the group | a stopped command leaves no group, a completed one has its whole output, a stopped call returns |
| atomic replacement (new; `core.atomic_write` is the one in use) | `platform/durability.py`, `filesystem.py`, `syscalls.py` | one file, its temporary files | `atomic_replace`: write, sync, recheck the identity, rename, sync the parent | failure on either side of the rename, power loss, concurrent calls, file systems that cannot sync a directory | a register that is old or new, never torn; committed is durable |
| locks and paths | `platform/locks.py`, `runtime.py` | a lock file | acquire, release | — | mutual exclusion by `flock` |
| domain values | `domain/models.py`, `identifiers.py`, `errors.py`, `outcomes.py` | none | validation | — | — |
| profile records, destination policy | `_profile_models.py`, `_profile_codec.py`, `_profile_json.py`, `destination_policy.py` | none | parsing, validation | — | — |
| target identity | `target/identity.py` | none | parsing | — | — |
| installer and tools | `installer.py`, `install_target.py`, `profile_tool.py`, `status.py`, `notifier.py` | installed files | copy, print | — | — |
| units and rules | `systemd/`, `udev/` | — | start a scan at boot and on insertion | an insertion during a scan starts nothing | every medium that is brought at other times meets a scan |

How they interact: the packager reads the receipts on a medium, builds a package from
the Git facts and publishes it there. The scanner, started by udev or at boot and alone
thanks to its lock, first lets the engine recover, then visits each medium (replay the
pending receipts, copy the verified packages, unmount), then hands the newest package of
each repository to the engine and queues the result for the medium it came from. The next
packaging run finds it there. Host and target share nothing but the media.

## 2. Modules

| module | models | state and actions |
|---|---|---|
| `TransactionPhases` | `domain/policies.py` and the engine's phase names | the phases, `Allowed` (the matrix) |
| `TargetEngine` | `target_engine.py` with the start of `scan_once` | `dest`, `aside` (adopted original), `release`, `service`, `tx`, `result` are on disk; `pc`, `cur`, `mem`, `recovering`, `todo` die with the process. One action between two durable effects, named after the code: `Import`, `Snapshot`, `Materialize`, `Populate`, `WriteStaged`, `Build`, `StopService`, `WriteActivating`, `PrepareDestination`, `Activate`, ..., `WriteCommitted`; the `except` clause (`Handler`, `PreserveStop`, `ReportFailure`, `SettleFailure`), `_restore_previous` (`RestoreStop`, `RestoreDestination`, `RestoreAdopted`, `RestoreStart`) and `recover_transactions` (`Recover...`) |
| `AbstractUpdate` | what the target promises at the destination path: one atomic change, kept or undone | `Begin`, `Move`, `Commits`, `Restores`, `Breaks`, `Downgrades` |
| `UpdateRefinement` | the refinement mapping from `TargetEngine` to `AbstractUpdate` | |
| `OfflineSync` | what the loop between host and target promises, without media, scans and crashes | `Offer`, `Tear`, `Install`, `Refuse`, `FailToInstall`, `Post`, `Lose` |
| `Delivery` | `packager.py`, `media.py`, `scan_target.py`, `configuration.py` | host: `generation`, `receipts`, `packager`; media: `inbox`, `torn`, `returned`, `unsynced`; target: `mounted`, `wanted` (an insertion has started the service), `store`, `results`, `pending`; the scanner: `scan`, `copied`, `chosen`; history: `queued`, `stuck`, `taken`. Host: `LoadProfile`, `SaveConfirmed`, `BuildPackage`, `Publish`, `Sync`, `SaveGeneration`, `PackagerStops`; the operator: `Insert` (at one or several mount points), `Pull`, `TakeAway`, `OperatorUnmounts`; the scan: `StartScan`, `NextMedium`, `BeginCopy`, `FinishCopy`, `FailCopy`, `UnlinkReceipt`, `CopyCandidates`, `CopyingRaises`, `Unmount`, `UnmountFails`, `Choose`, `ApplyPackage`, `ApplyRaises`, `QueueResult`, `QueueRaises`, `EndScan`, `Crash` |
| `DeliveryRefinement` | the refinement mapping from `Delivery` to `OfflineSync` | |
| `Registry` | what the store promises: a directory whose changes happen at one moment | `Register`, `Withdraw`, `Change`, `Link`, `Tell` |
| `ProfileStore` | `packaging/profiles.py`, `_profile_storage.py` | `profile`, `identity` on disk, `lock`, one `call` per process; a write is two actions (`WriteProfile`, `SyncProfile`), so it can raise before or after its rename |
| `RegistryRefinement` | the refinement mapping from `ProfileStore` to `Registry` | |
| `AtomicReplace` | `platform/durability.py`, `filesystem.py`, `syscalls.py`; `atomic_write` and `fsync_dir` of `core.py` (the calls in `Plain`) | `dest`, what a loss of power may leave there (`possible`), one record per `call`: where it is, its data, its temporary file, the boundaries passed, the stage it failed at. One action per system call, `FailsBeforeRename`, `FailsAfterRename` and the like for its failure, `Kill`, `PowerLoss` |
| `Register` | what a replacement promises | `Begin`, `Compare`, `TakeEffect`, `Harden`, `Commit`, `Fail`, `Lose`, `PowerLoss` |
| `PackageContents` | `gitrepo.py`, `build_package` of `packager.py`; `_select_bundle`, `_import_repositories`, `_materialize` of `target_engine.py` | host: `head` of each work tree, the packager (`pack`), `manifest`; target: `store` (commits in the bare repositories), `release`, `registered` (worktrees Git knows), `apply`. Host: `Checkout`, `ReadFacts`, `ReadRoot`, `Visit`, `ReadReceipts`, `CheckIncrement`, `WriteIncrement`, `CheckFallback`, `WriteFull`, `Publish`, `PackagerStops`; target: `StartApply`, `SkipHeld`, `Fetch`, `NeedsFull`, `Reuse`, `RemoveStale`, `Prune`, `BeginTree`, `AddRoot`, `AddChild`, `MarkReady`, `MaterializeRaises`, `Succeed`, `TransactionEnds` |
| `CommandRunner` | `platform/_command_runner.py`, `_command_start.py`, the token of `command_types.py` | the processes (`life`, `grouped`, `holds`), the pipes (`buffered`), the token, the clock (`expired`) and the runner (`pc`, `active`, `ready`, `retained`, `reason`, `outcome`); one round of the wait looks at the token (`Look`) and then at the clock (`LookAtClock`). Processes fork, write, close, leave the group and die whenever they like |
| `<X>Invariants` | the inductive invariants of `<X>` | |
| `<X>Proofs` | theorems and proofs about `<X>` | |
| `MC<X>` | TLC instances of `<X>` | |

The engine appears in `Delivery` as one action per package (`ApplyPackage`, `ApplyRaises`,
`Crash`): it reports a result or raises, and an exception or a crash may leave a result
on the disk that the scanner never sees and never queues. What happens inside is `TargetEngine`'s, and
`UpdateRefinement` is the justification for seeing it as one step. `PackageContents` looks
inside a package and a release, where `Delivery` and `TargetEngine` have one commit: how a
package travels and which one is chosen is `Delivery`'s, the transaction around a release
`TargetEngine`'s, so that in `PackageContents` a published package may be applied at any
time, again and again until it succeeded, and a ready release may or may not be installed.
`AtomicReplace` is what the writes of all the others rest on: they let a write that raises
have happened or not, which is what `Register` says of a call that failed.

### Abstractions

- Git, LFS, systemd, package actions and the profile's prompts are environment choices:
  a step does its work or raises. In `TargetEngine` a commit of the root repository stands
  for the graph of its submodules; a release is `absent`, `partial`, `ready` (complete and
  marked) or `torn` (marked but incomplete: the marker was written, the write raised, and the
  `rmtree(ignore_errors=True)` at 245 got stuck half way). A retried build may succeed there;
  `PackageContents` shows when it cannot.
- In `Delivery` the graph of a commit is a tree (`Gitlinks`, with a pair for nested
  submodules too), imported parents first in any order of the children.
  A base is found, and a bundle selected, for each repository; `needs` is the repository
  the message of exit 4 names. `git bundle verify` is taken to agree with `_has_commit`:
  exit 4 from a bundle that has its base and does not verify (114-115) is a failure.
- `core.atomic_write` syncs the directory after the rename, so a write that raises may
  have happened: `WriteState`, `WriteResult` choose.
- A crash is the death of the process. What a power loss takes from the page cache is
  modelled where a medium is carried (`Loses`, `unsynced`) and in `AtomicReplace`.
- `TargetEngine` has one root repository and one destination. The adopted path is
  identified by its transaction, as in the code. A crash does not change the service.
- `Delivery` identifies a result by its package and status: two results of one package
  with the same status are delivered as one. A package is on a medium from its
  `READY.json` on; directories without one are never looked at again (`uuid4` names).
- `torn` of `Delivery` says that the files of a package are not those that `READY.json` lists:
  `copy_verified` syncs every file and `publish_package` syncs the package directory, its
  parent and `READY.json`, but no one syncs `bundles/` and `lfs/` as directories until
  `os.sync`, which reports nothing when the medium is gone.
- `copy_verified` syncs a receipt on the medium but not its directory: it is `unsynced` until
  the last mount point is unmounted, and any of these may be gone when the medium is taken
  away before (`TakeAway`). A scan that visits such a medium goes on without it, and what it
  copies to the place where it was mounted stays on the target's own disk. `taken` remembers
  the media that had such receipts or a scan on them.
- `ProfileStore` has no malformed files, and calls that raise before their first write
  change nothing and are no actions. The directories opened by descriptor only refuse
  paths that were swapped; nobody swaps them here.
- In `AtomicReplace` all calls are on one file, each writes contents of its own and runs
  once, and an identity (path, device, inode, type, mount) is the file it was read from:
  inode numbers are not reused. The disk keeps the order of renames only as far as a sync
  says so: until then any file in `possible` may be there after a loss of power. A sync of
  the directory makes the last rename durable with all before it.
- In `PackageContents` submodules have one level (the recursion of `visit` treats nested
  ones alike) and LFS files, which are found by their hash, are part of the bundles. Which
  receipts have come back is a choice: none, or those of any earlier success. Git's own gc
  may forget a missing worktree after three months; that is not an action.
- In `CommandRunner` a pipe holds up to `PipeSize` bytes and the sum written is unbounded;
  SIGTERM leaves the choice to the process, SIGKILL marks it `killed` until it exits.
  Process numbers are not reused, so a signal never reaches a stranger.

## 3. Runs

The bounds are named in the modules: `MaxFaults` (calls that raise; in `Delivery` also
crashes and media taken away), `MaxCrashes`, `MaxUnreadable` (records a scan cannot read),
`Limit`, `PipeSize`.

| run | properties | instance and why it is enough |
|---|---|---|
| `target_engine` (2.7 million states) | `TypeOK`, `OriginalPreserved`, `ActiveReleaseReady`, `WriteAhead`, `SettledHasResult`, `OneUnfinished`, `RolledBackRestores`, `CommitIsLive`, `ReleaseNotRebuilt`, `PhasesFollowMatrix` | two transactions, three packages (both policies, two commits), two raising steps, two crashes, one unreadable record. Two faults let a rollback fail after the failure it undoes; two crashes interrupt a recovery; two transactions and a skipped record are undone in the wrong order; an existing release is reused by the third package |
| `update_refinement` (440 thousand states) | `ImplementsUpdate`, `EverySettles` | the same packages, no unreadable record: with one, an old transaction can be undone after a new one committed, and the path is no longer one atomic change |
| `delivery` (1.8 million states) | `TypeOK`, `BasesHeld`, `IncrementNeverRefused`, `ReceiptKept`, `WholeCopied`, `ImplementsOfflineSync` | a root with an old and a new commit, the newer of which adds a submodule, two packages, one medium, one fault anywhere (a raising call, a crash, a medium taken away): full, increment on a receipt, an increment of the root refused for its submodule, second delivery of an old package, interrupted replay, publication cut short, a pull between the unlink of a receipt and the unmount |
| `delivery_liveness` (810 thousand states) | `ReceiptReturned` | two packages on one medium, so that a packager and a waiting receipt compete for it, and one fault: the scan that would have returned the receipt raises, dies, or loses its medium |
| `profile_store` | `TypeOK`, `OneProfilePerSource`, `AnswersAgree`, `ProvenanceKept`, `CrashesAreRepaired`, `ImplementsRegistry` | two processes, three clones of which two have one remote, three identifiers, two failing writes (a write and the undo after it) and a crash |
| `command_runner` (580 thousand states) | `TypeOK`, `StoppedGroupIsGone`, `CompletedIsWhole`, `OverflowIsReported`, `CancellationBeatsDeadline`, `StoppedCallReturns` | a leader and one descendant, both pipes with two bytes each, two bytes kept: the descendant outlives the leader, holds its pipes, leaves the group; the limit is reached within one read and across two |
| `atomic_replace` (1.2 million states) | `TypeOK`, `SurvivorsAreWhole`, `CommittedIsDurable`, `ImplementsRegister` | two calls of `atomic_replace`, with or without an expected identity, and one of `core.atomic_write`, on file systems that can and cannot sync a directory; two failures (of a step and of the close or undo after it) and one crash. Two calls overwrite one another between the recheck and the rename; a file of the third call survives a power loss |
| `package_contents` (3.6 million states) | `TypeOK`, `InstalledIsExact`, `RefusedLacksBundle` | a root with two versions, the newer of which adds a submodule, two packages, and a developer who checks out anything at any moment. Nothing is bounded but the sets: packager and transaction may fail at every step, any number of times. Increment, full, held and missing bases, a graph that changes shape, a release that is reused, half built and rebuilt |

Deadlock is checked except in `profile_store` (nobody has to call the store, and the
identifiers run out), `atomic_replace` (all calls have returned) and `command_runner` (the call has returned).
Symmetry is used in the safety runs only, over identifiers that the modules only compare
for equality: transactions, package identifiers, processes, settings, tokens, calls of one
kind, and the two clones that share a remote.

### Where code and documents disagree

Each of these runs checks one sentence of a document or comment, and TLC finds the code
violating it. `PROJECT.json` quotes the sentences.

| run | what happens |
|---|---|
| `success_is_committed` | the result `success` is written before the record is `committed`; a crash in between makes the next scan roll back an update that stays reported as success and is never installed again. The run has packages of the policy `rollback` and no raising calls, so that the trace is this one; a write at 468 that raises is handled with `committed` in memory and overwrites the result |
| `unmounted_before_apply` | a medium mounted at two mount points: the first cannot be unmounted and its packages are dropped, the second copies them again and is unmounted, and they are applied with the medium still mounted at the first |
| `every_result_queued` | a scanner that dies between a result and its queue entry, or inside the transaction, or whose `apply_package` raises after it wrote the result, leaves a result that no scan ever queues. The run has `FairSpec`, so it does not rest on a scanner that is never started again |
| `release_can_be_rebuilt` | a release whose build failed after its first worktree is removed without `git worktree prune`; every later attempt to install that commit fails at `git worktree add`, which refuses a path that is missing but registered |

Observed while modelling, without a run of its own:

- A `rollback` package that fails before its activation ends as `failed-preserved` with the
  service stopped (`target_engine.py:477-478`, `490-496`); `failure_terminal_phase`
  (`policies.py:288-291`), which nothing calls, and the README of the repository say it
  rolls back.
- The engine leaves the matrix of `policies.py:241-273`: a terminal phase whose write raised
  after its rename is overwritten (`committed` by `failed-preserved`, 468 with 490-496;
  `rolled-back` by `recovery-failed`, 516 with 520-521), and an interrupted activation of
  the other policy becomes `rejected` (524). Before the activation `failed-preserved` (496)
  and `rejected` (524) are written from every phase. `PhasesFollowMatrix` names the three
  steps after activation (`Departs`) and excludes every other.
- A release whose marker was written by a write that raised, and whose removal (245) got
  stuck, is marked and incomplete; the next transaction reuses it (219).
- A medium pulled out after its pending receipts were unlinked (`media.py:245`) and before
  it was unmounted loses them: no directory of the medium was synced. `ReceiptKept` and
  `ReceiptReturned` except such media.
- A package whose root counts on a receipt is refused with exit 4 when a submodule has no
  base and the package no full bundles (`packager.py:237-257`).
- A cancellation that completes between the look at the token
  (`platform/_command_runner.py:83`) and the look at the clock (85), with the deadline
  passing in between, is reported as a timeout. `CancellationBeatsDeadline` excepts this
  window and no other.
- A temporary file whose creation fails half way, and whose removal by
  `create_temporary_binary_file` fails too (`platform/filesystem.py:129`), is reported as
  cleaned.
- With the policy `keep-failed-stopped` a crash after the switch is recorded as `rejected`,
  "aborted before activation" (`target_engine.py:524`); the destination shows the new release.
- A packager that dies between the publication and the profile (`packager.py:335-337`) uses
  the generation again; the target then skips one of the two packages for good.
- Once the clone a profile was made for has moved, `link`, which is for that case, raises
  for it and `initialize` raises for new clones (`packaging/profiles.py:209` resolves the
  stored path strictly).
- The root may move between `packager.py:217` and `218`: the release directory is then named
  after the first commit and holds the second, and a later exact package of the first one
  reuses it. `InstalledIsExact` promises the named commit only without such a package
  (`Moved`); that a release is one pinned graph holds always.
- `core.fsync_dir` returns silently when it cannot open the directory, so that
  `atomic_write` may return before its file is durable (`Claims`).
- Two calls of `atomic_replace` that expect the same file can both succeed: the recheck and
  the rename are two steps. `Register` has `Compare` and `TakeEffect` apart for this reason.
- `initialize` undoes its profile when the identity write raises; when that write raised
  after its rename, the undo leaves an identity file that leads nowhere and every later
  call for the clone raises. This is why `CrashesAreRepaired` begins with `faults = 0`.
- "update failed before result creation" (`scan_target.py:144`) is also printed when the
  result exists: the write of the result may raise after its rename, and so may the record
  that follows it (`ApplyRaises` in `Delivery`).
- A completed command may leave a member of its group alive that closed its streams.
- `_drain` does not return while a process that left the group keeps writing; this is the
  premise of `StoppedCallReturns`.
- `teardown-failed` can be reported for a group whose last members are only zombies.

## 4. Fairness

- `TargetEngine`: weak fairness of `Scan`. A running process goes on, and the boot unit and
  the udev rule start another after a crash. Nothing is asked of crashes and failures;
  they are bounded, without which nothing could ever settle.
- `Delivery`, of the programs (`Scheduled`): a running scan goes on (`WF` of `Replaying \/
  Applying`); a scan that an insertion started begins (`WF` of `wanted /\ StartScan`; the
  unit is a oneshot, so that an insertion during a scan starts nothing and sets no
  `wanted`); `os.sync` returns (`WF` of `Sync`), because a host that stays between its
  publication and the sync keeps the medium for ever. Nothing else of the host is fair.
- `Delivery`, of the operator (`Patient`, an assumption and not a property of the code): a
  medium that no scan unmounted is unmounted by hand (`WF`), and each medium is brought
  again and again also at times when no scan is running (`SF` of `Insert` then). Without
  the second a medium could always arrive during a scan and never be visited.
- `CommandRunner`: the runner's thread is scheduled, and so is a cancelling thread between
  its two steps. The clock, signals and the processes of the command owe nothing: the
  stopped call has to return without them. `Interrupted` (a signal during `select`) is not
  part of the runner's fairness.

## 5. Proofs

Constants are arbitrary sets (finite or not) under the named assumptions of the modules:
the special names are outside the sets (`NamesAssumption`, `NoneAssumption`, ...), the
constant functions have their types, `Ancestry` is transitive, the bounds are naturals.
No theorem needs a bound to be small, and the bounds on faults, crashes and unreadable
records are arbitrary.

**`TargetEngineProofs`.** `TypeCorrect`, `OriginalIsPreserved`, `ActiveReleaseIsReady`,
`LiveReleasesAreKept`, `CommitsAreLive`, `SettledIsReported`, `MatrixIsFollowed`, `OnlyOneUnfinished`,
`RecordsWriteAhead`, `RollbacksRestore`, `ScansAdvance`. The invariant is built in layers, each
inductive given the ones before it. `CoreInv` ties the record in memory to the one on
disk at every control point (equal inside the `try` block; at most the phase differs on
the way back); without it no step of the handler can be justified. On it rest `OriginalInv`
(where the unmanaged directory is), `ReleaseInv` (what is marked ready), `LiveInv` (what the
swapped destination is), `ResultInv`, `RejectInv` and `TerminalInv` (from which settled record
which write can still come: what bounds the exceptions of `MatrixIsFollowed`). `ReadableRollbackInv` says, while
every record could be read, that the one unfinished transaction remembers what the
destination was and that it can still be brought back from where it is. Its premise
is part of the invariant: a skipped record really breaks it. `ServiceInv`: after
the last step of a restore the service runs until the record is written as rolled-back.
`ScansAdvance` is the part of `EverySettles` that needs no fairness: each step of a running
scan lowers a rank (`Advances`: recovery before application, every record once, and then
`StepsLeft` of the control point), because no handler leads back to what raised.

**`UpdateRefinementProofs`.** `UpdateIsAtomic`: with no unreadable record
(`MaxUnreadable = 0`) the whole engine implements `AbstractUpdate`, for any packages,
policies, failures and crashes. The mapping calls a transaction open while its record is
unfinished, its base what was there when it began, its target the commit of its package.
`OwnInv` is the one new invariant: the scanner works on the package of the record it has
open and no other record is unfinished meanwhile; without it a record could be closed under
the open one. A step that writes no record moves the destination of the open transaction or
stutters (`QuietStep`); the write of a record begins it (`BeginStep`), closes it or finds
after the fact that it failed (`WriteStep`). That a commit shows the new release and a
restored transaction the old contents is where `LiveInv` and `RollbackInv` are used.

**`DeliveryProofs`.** `DeliveryTypeCorrect`, `BasesAreHeld`, `IncrementsAreAccepted`,
`ReceiptsAreKept`, `OnlyWholePackages`, `InstalledGenerationsGrow`, `ScansAdvance`, for any
graphs, histories, mount points and number of faults. `OriginInv`: every receipt on
its way, host or medium, is a result of the target, and every package on its way has a
manifest. `HeldInv`: the whole graph of a success is in the target's store, which only
grows, so what a package counts on from any old receipt is held, repository by repository,
and a refusal names one that counts on nothing. `ReplayInv`: what a replay works on is still
pending, so a receipt is unlinked only after its copy, or for a medium that was taken away.
`ChoiceInv`: what is chosen is newer than everything installed, for distinct root
repositories, until it is applied. `PublicationInv`: a package that is not yet synced has one
packager and is on no mounted medium, so that nothing that could still be lost has been
copied. `MountInv`: where the scan is, and that it goes on without a medium only when that
one was taken away. `ScansAdvance` does for the loops of `scan_once` what the theorem of that
name does for the engine: mount points, then packages, then receipts get fewer, whatever
else happens. `UnmountedBeforeApply` is no theorem: with two mount points it fails.

**`DeliveryRefinementProofs`.** `DeliveryIsAnExchange`: for any repositories, packagers,
media, mount points and faults `Delivery` implements `OfflineSync`. A receipt is
in the post from its queue entry on: it waits on the target or lies on the medium, so that
truncating a copy, finishing it and unlinking the pending one are stutters (`QuietStep`,
by `ReplayInv`), except on a medium that was taken away, which may lose what it had
(`LoseStep`). Building a package is an offer whose bases are commits of a receipt, each an
ancestor in its repository (`OfferStep`), a publication cut short tears one (`TearStep`),
and every way through or out of `apply_package`, with its result or without, installs,
refuses or fails (`TryStep`). `UntriedInv` is the one new invariant: what can still be torn
is not chosen and has no result, and what is chosen is whole. Without it a package could be
torn after it was tried. That the abstract target installs only what is newer, and refuses
only for a repository that counts on nothing, makes `GenerationsGrow` and
`IncrementNeverRefused` parts of one promise; both are theorems of their own as well, and
only the second is still a run property.

**`ProfileStoreProofs`.** `StoreTypeCorrect`, `ProfilesAreUnique`, `AnswersDoAgree`,
`ProvenanceIsKept`, `CrashesDoNoHarm`, `NoUpdateIsLost`, `StoreIsARegistry`. `LockInv`: only the holder of the
lock has a call under way. `CallInv`: at each step of a call what it is about to write is
still consistent with both files. `MintedInv`: identifiers are new. `StoreIsARegistry`: the
store implements `Registry`. A clone leads to what its identity file says, without the file
to its own profile (`LeadsTo`; `LeadsRight` states it without `CHOOSE`, which the matching
profile being unique allows). An `initialize` therefore happens at its first write and the
identity file is a stutter; `OwnInv` says what is known of a call past that write: nobody
was told of the profile and no other clone leads to it, so that the undo is a withdrawal
nobody can have noticed. That a change is never overwritten (`NoUpdateIsLost`) is implied.

**`AtomicReplaceProofs`.** `TypeCorrect`, `SurvivorsWhole`, `CommittedDurable`
and `Refines`: the whole specification implements `Register` (`Spec => ImplementsRegister`).
`RenameInv`: the data of a renamed file were synced first. `StageInv`: a call that returns
without a failure has synced the parent. `OlderInv`: once it has, nothing that it replaced
is in `possible`, and until then the destination is newer than that; this is what lets the
return of a call be a `Commit` of the register. `NameInv`: what may be found at the
destination was renamed to it. The refinement maps the place and the failure of each call
to a state of the register (`Effect`), a sync to `Harden`, and the steps before to stutters.

**`PackageContentsProofs`.** `ContentsTypeCorrect`, `InstalledGraphsAreExact`,
`RefusalsLackBundles`, for any repositories, ancestry, gitlinks and number of packages.
`GraphInv`: what the packager has visited is what the root commit it started from pins.
`BaseInv`: a base is a commit the target held, hence holds, and comes with an increment
unless it is the packaged commit itself. `ImportInv`: past the import the target has every
commit of the graph. `ReleaseInv`: a release holds, worktree by worktree, what is being
built, and a marked one never changes again.

**`CommandRunnerProofs`.** `CallTypeCorrect`, `StoppedGroupsAreGone`,
`CompletedIsComplete`, `OverflowsAreReported`, `CancellationsBeatDeadlines`. `GroupInv`: a
teardown believed complete has no group, and no process can bring one back, because only a
member can fork into it. `TimeInv`: a cancellation that came in time, outside the window
between the two looks, is seen before the runner decides on the deadline. `OutputInv`: a pipe that is no longer watched is at its end and
stays there, because nobody who could pass it on holds it.

Only model-checked: the liveness properties (`EverySettles`, `ReceiptReturned`,
`StoppedCallReturns`), which need `ENABLED`; the two theorems `ScansAdvance` prove what they
rest on besides fairness. That a descending rank over a finite set ends is induction over
data, and so not stated.

## 6. Not modelled, and why

Prompts, status output, the installer and the notifier have no protocol. LFS discovery
only reads objects that are named by their hash. Records, codecs, identities and the destination policy are pure
validation. Persistent paths and the contents of `adopted/` are folded into one step each. `failure_terminal_phase`
has no caller. Hazards that no property covers are in `PROJECT.json` with the reason.

## 7. Plan

Order: the engine first, because a mistake there loses the user's data; then the loop that
feeds it; then the self-contained parts with concurrency of their own, and what is inside
a package. Done: `TransactionPhases`, `TargetEngine`, `AbstractUpdate`, `UpdateRefinement`,
`Delivery`, `ProfileStore`, `CommandRunner`, `Register`, `AtomicReplace`,
`PackageContents`, each with invariants and proofs, and the abstract specifications
`AbstractUpdate`, `Register`, `Registry` and `OfflineSync` with proofs that the detailed ones
implement them. Next, in this order:

1. `TargetEngine`: persistent paths as state (a copy interrupted half way,
   `target_engine.py:268`), and a property that the service runs again after every
   transaction that was settled without keeping the failed release.
2. `Delivery`: an instance with two repositories of one target (the newest receipt of the
   other hides the bases, `packager.py:171`), one with two packagers, one with two faults.
   The theorems cover these; the runs do not.
3. Theorems: a rank for the teardown of `CommandRunner` (what `StoppedCallReturns` rests on);
   that `PackageContents` and `TargetEngine` agree on what a ready release is.
