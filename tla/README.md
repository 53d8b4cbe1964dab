# A TLA+ model of usbipd-darwin

`usbipd` exports USB devices of a macOS host over USB/IP. This directory models
the daemon and its hotplug monitor, checks the models with TLC on small
instances, and proves their safety properties with TLAPS for every number of
URBs, threads, sessions, devices, consumers and instances of the daemon.

## Inventory

| Part | Source | Module | Status |
|---|---|---|---|
| URB session: `urb_loop`, `handle_cmd_submit`, `handle_cmd_unlink`, `drain_inflight`, `run_submit` | `crates/usbipd/src/daemon.rs` 508-815 | `UrbSession` | modelled, proved |
| Transfers and caches: `control_transfer`, `data_transfer`, `cancel_endpoint`, `endpoint_kind`, `ensure_endpoint`, `ensure_interface` | `crates/host-mac/src/lib.rs` 587-897 | `EndpointCache` (caches), `UrbSession` (locks, outcomes), `Transfers` (lengths) | modelled, proved |
| Import: `handle_import`, `try_attach`, `AttachGuard` | `daemon.rs` 127-173, 408-498 | `DeviceImport`, `ImportLock` | modelled, proved |
| Open, force-capture, release: `OpenedDevice::open`/`drop`, `maybe_capture`, `release_capture`, `reenumerate_with_options` | `lib.rs` 227-248, 394-507, 919-972; `capture.rs` 253-423 | `DeviceImport` | modelled, proved; IOKit external |
| Daemon start and shutdown: `run`, `serve` | `daemon.rs` 175-278 | `DeviceImport` (sessions and devices), `Serve` (the socket's path) | modelled but for TCP, proved |
| Hotplug events: `run_async`, `IdMap`, `Hub`, `accept_loop`, `serve_subscriber` | `crates/usbipd/src/events.rs` | `EventsHub` | modelled, proved; nusb's stream external |
| Dispatch and device list: `handle_session`, `handle_devlist`, accept loops | `daemon.rs` 280-406, 827-867 | `Serve` | modelled, proved |
| Access policy | `daemon.rs` 63-93 | `Serve`, `DeviceImport` (the constant `Permitted`) | modelled, proved |
| USB/IP codec | `crates/usbip-proto/src` | `Wire`, `Transfers` | op messages and `RET_SUBMIT`; not the byte order of integers; proved |
| Bus and device numbers: `format_busid`, `derive_bus_dev`, `parse_bus_id`, `fold_to_u8` | `lib.rs` 106-168, 254-264 | `BusDev` | modelled, proved |
| Command line, sudoers fragment | `main.rs`, `sudoers.rs` | policy flags in `Serve`, `release-capture` in `DeviceImport` | partly |

Tests, benches, fuzz targets and the example keyboard are not part of the
program.

For a component `C` with a proof, `CInv` has the inductive invariant, `CProofs`
the theorems, and `MCC` the values of the constants and the symmetry for TLC.
Symmetry is used for safety only. Definitions with the comment "Fault:" are
plausible bugs; no specification uses them, and each breaks a property when it
takes the place of the definition that follows it.

## Modules

### `UrbSession`: one imported device

State: where `urb_loop` is (`loop`, `cur`, `target`), each URB's tokio task
(`task`) and blocking closure (`blk`, `ep`, `hnd`, `outcome`), the `cancelled`
flags, the used `AbortHandle`s (`aborted`), the `inflight` map and whether the
loop holds its mutex across a blocking call (`mapHeld`), the cached endpoint
handles and the endpoints' mutexes (`cache`, `epLock`), the shared writer's
mutex, the socket, the semaphore's `permits`, and everything written to the
client (`wire`).

| Action | Code |
|---|---|
| `ReadSubmit`, `AcquireAndSpawn`, `InsertInflight` | `handle_cmd_submit`: read, wait for a permit, spawn, insert. The task may run before it is inserted. |
| `ReadUnlink`, `CancelEndpoint`, `LockForUnlink`, `WriteUnlink`, `WriteUnlinkFails` | `handle_cmd_unlink`. `cancel_endpoint` waits for the endpoint's mutex while `inflight` is locked. |
| `ReadEnds`, `DrainInflight` | the loop's exits and `drain_inflight` |
| `PollFirst`, `JoinTransfer`, `CheckCancelled`, `AwaitWriter`, `LockWriter`, `WritePart`, `WriteRest`, `WriteFails`, `FinishTask` | `run_submit` and the spawned block around it |
| `DropTask` | tokio drops an aborted task at the await where it is suspended; a task inside a poll runs on to its next await |
| `StartControl`, `EnsureFails`, `EnsureEndpoint`, `StartData`, `EndTransfer` | the closure: `control_transfer` and `data_transfer` |

A URB is named by its seqnum. The client uses a seqnum once and unlinks only
what it has submitted, as Linux's vhci driver does. Payloads are abstracted to
how the transfer ended. A handle is abstracted to its identity: which
configuration and setting it belongs to is the subject of `EndpointCache`.

### `EndpointCache`: configurations, settings and handles

The blocking closures of several URBs use the three caches of one
`OpenedDevice`, `interfaces`, `alt_settings` and `endpoints`, and take a lock
only for one access at a time. Every step between two accesses is an action; a
closure's place is `pc` and its locals are `kind`, `ifc` and `hnd`.

| Action | Code |
|---|---|
| `ClearEndpoints`, `ClearInterfaces`, `ClearSettings`, `Configure`, `ConfigureFails` | `SET_CONFIGURATION` in `control_transfer`: the caches are cleared one after the other, then nusb is called |
| `Invalidate`, `Select`, `SelectFails`, `NoteSetting` | `SET_INTERFACE` |
| `LookupInterface`, `Claim`, `ClaimFails`, `SelectZero`, `SelectZeroFails`, `KeepInterface` | `ensure_interface`; its failure to select setting 0 is only logged |
| `FindKind`, `NoKind`, `LookupEndpoint`, `OpenEndpoint`, `OpenFails`, `InsertEndpoint`, `Transfer` | `data_transfer`, `endpoint_kind`, `ensure_endpoint` |

The device is external: `epoch` counts the configurations it was given, and
`selected` has the setting it has selected. `disturbed` records that a request
has overlapped a `SET_CONFIGURATION` or `SET_INTERFACE`, or that a failure was
ignored, since the last `SET_CONFIGURATION` that ran alone; it is read by the
properties only.

### `DeviceImport` and `ImportLock`: the life of one busid

Sessions list, ask the policy, attach, open, reply, serve and end; the
`OpenedDevice` of each is opened on a blocking thread (`op`), kept alive by the
session and by blocking transfers (`pending`), and closes, looks for its device
and releases it when the last of them drops it (`handle`). The host's port holds
a device, which may be in the middle of a re-enumeration (`visible`) and may be
`captured`. A re-enumeration invalidates every remembered registry entry;
`current` is the set of those who remember the present one. `serve` is `proc`.
Two variables are read by properties only: `excused` records that a failure came
after the capture, and `disturbed` has the sessions whose import met a failing
call, or whose device somebody else unplugged or re-enumerated, since they listed
it. `pending` counts the closures that hold the `OpenedDevice`, whether they
transfer or still wait for a thread.

`USBDeviceOpenSeize` is taken to fail while the daemon itself has the device
open, as the comment in `OpenedDevice::drop` says (lib.rs 398-401). A capture
survives the process but not an unplug (lib.rs 230-233). When the runtime is
dropped, sessions are dropped at their awaits, started blocking threads are
waited for, and no new one is started.

The constant `Faults` says which calls may fail and whether devices are
swapped, another process releases the capture, or the daemon is killed.

`ImportLock` is the promise of the repository's README and of SECURITY.md: a
busid is locked to the session that imported it. `LockSpec` is its refinement,
with the owner of the guard as the lock's owner.

### `EventsHub`: `usbipd events`

Devices are plugged and unplugged around the startup (bind, watch, list, seed,
accept) and around connecting consumers. The publisher changes the snapshot and
sends in two steps; `accept_loop` subscribes and takes the snapshot in two
steps. The broadcast channel keeps the last `Capacity` events; a receiver that
falls behind skips, and `missed` has the busids whose last event it skipped. A
consumer's `view` is what it knows after applying every line by busid. nusb's
`HotplugWatch` is external: it delivers events in order, an id is never used
twice, and the stream never ends. The exit after a signal is modelled; the two
signals differ.

### `Serve`, with `Wire`, `BusDev` and `Transfers`: what a client sees

`Serve` composes the data of the program with the sequence of a session:
instances of the daemon check, remove, bind and unlink one socket path, where
both calls of `remove_file` may fail unnoticed and somebody else may put a file
at any time; devices, external hubs and root hubs are plugged, with addresses; a client connects, reads the list, asks for a
busid, reads the reply and sends a URB. One client stands for all, since what
sessions do to each other is the subject of `DeviceImport`. `exposed`, read by a
property only, has the instances that were past their check, and had yet to call
`remove_file`, when the file at the path was put there.

| Module | Code |
|---|---|
| `Wire` | `write_fixed_str`, `read_fixed_str`, `ExportedDevice::encode`, `encode_header_only` and `decode`, the records of a list one after the other, the op messages. A message is a sequence of cells, one per field and one per byte of a busid. |
| `BusDev` | `format_busid` and `derive_bus_dev` on ASCII codes, with the FNV-1a hash in 32-bit arithmetic on four bytes; `^` on bytes is the sum of the bits in which they differ |
| `Transfers` | padding to whole packets, truncation, and `actual_length`, status and payload of a reply |

An import as root re-enumerates the device, which may then have any free
address: the host assigns addresses, and the code does nothing to keep one (its
comments call only the bus id and the port chain stable). The client is external
and keeps eight bits of each number, as Linux does.

## Runs

| Run | Question | Bounds | Distinct states |
|---|---|---|---|
| `urb_safety` | permits, unlinks, drains, replies, framing; an unlink cuts no other URB's transfer short | 2 URBs, a data endpoint and ep 0, 2 permits | 541,639 |
| `urb_live` | nothing but a client that stops reading wedges the session at the permit limit; threads beyond it belong to aborted URBs | 2 URBs, 1 permit | 361,484 |
| `endpoint_sync` | the caches describe the device unless requests overlap, and a lone `SET_CONFIGURATION` repairs them | 2 closures, 2 interfaces with 2 settings and an endpoint each, 2 reconfigurations, every failure | 2,303,131 |
| `import` | the lock, the target of a release, lost captures, failing imports; imports settle, shutdowns end | 2 sessions, 2 devices (one permitted), 1 lingering closure each, every fault | 262,600 |
| `events` | hub and consumer converge, a device that stays is announced | 3 enumerations on 2 busids, 1 consumer, capacity 2 | 285,338 |
| `serve` | what the client reads is what the daemon means; instances clean up their path | 2 instances, 2 sites, 4 products, 2 addresses, at most 2 devices (`MaxPlugged`), lengths -1, 1, packet sizes 0, 1, 2 | 1,206,698 |

All of them but `urb_live`, which has the specification of `urb_safety`, also
check the inductive invariant `IInv` of their proofs, of which `TypeOK` is a
conjunct, so that a mistake in it shows as a trace.

Why the bounds are enough. Two URBs make every conflict between tasks, since the
properties relate two URBs, or a URB and the loop; two sessions are an old and a
new owner of the busid; two closures are one that reconfigures and one that
fills a cache, and two reconfigurations leave a handle from before, between and
after them. The endpoint of one interface changes its type with the setting, the
other exists in one setting only. Consumers share nothing but the hub, which
they do not change, so one stands for all; a capacity of 2 makes it lag with
three events, and one busid is used twice. In `serve` the two port chains would
coincide without separators and the longer busid fills its field; permitted
products have two interfaces, none, or are hubs; a buffer of 1 is a whole packet
of 1 and a part of one of 2, and a negative length makes an empty buffer. Root
hubs, which have no port chain, are not in this run but in the proofs. For
safety, the theorems remove the bounds of all runs.

Deadlock is checked in all of them: the models stop only in states where the
program has ended.

### What the comments promise and the code does not do

Each of these runs has one property, taken from a comment or a document, and
ends with a counterexample. PROJECT.json quotes the lines.

| Run | Property | What happens |
|---|---|---|
| `urb_stale_reply` | `NoStaleReply` | A task that has passed its check of the flag, and is inside a poll when it is aborted, writes its `RET_SUBMIT` after the `RET_UNLINK`. |
| `urb_cancel_waits` | `CancelUnblocks` | `cancel_endpoint` waits for the mutex that the transfer to cancel holds. |
| `endpoint_race` | `CacheInSync` | A handle opened before a `SET_CONFIGURATION` or `SET_INTERFACE` is cached after it. |
| `import_leak` | `CaptureReturned` | When the poll or the open fails after the capture, nobody releases it. |
| `import_late_release` | `CapturedWhileHeld` | An earlier session's late drop undoes the capture of the next one. |
| `devid_changes` | `DevidStable` | The device comes back from the capture with another address, and the reply has another devnum than the list. |

More definitions state such promises without a run of their own. TLC finds a
counterexample to each when it replaces the properties of the configuration
named (with its constants unless the table says otherwise).

| Definition | Configuration | What happens |
|---|---|---|
| `RepliesComplete` | `UrbSession_stale` | An abort during `write_all` leaves half a message on a connection that goes on. |
| `BlockingThreadsBounded` | `UrbSession_stale`, one permit | An aborted task returns its permit while its thread still transfers. |
| `HeldOpenIsAttached` | `DeviceImport` | The guard goes with the session, the device with its last transfer. |
| `ReplyDescribesOpened` | `DeviceImport` | The reply mixes the first listing with the device opened later. |
| `CaptureReturned` | `DeviceImport_late_release` | With a lingering transfer no external failure is needed: the next session, whose own capture fails, opens the device before the first one's release, which then fails. |
| `CapturedWhileHeld` | `DeviceImport_late_release`, `Replugs`, no lingering transfer | A device unplugged between the capture and the poll comes back uncaptured, and is taken for the captured one. |
| `LaggedCatchesUp` | `EventsHub` | Skipped events are never made up for. |
| `SignalRemovesSocket` | `EventsHub` | Only SIGINT is handled. |
| `ServingIsReachable` | `Serve` | A second instance takes the path of the first for a leftover, and either one's exit removes the other's socket. |
| `FileKept` | `Serve` | A file put at the path after the check is removed, by the start or by the exit of an instance. |

`LostOnlyByFailure`, `ImportFailsOnlyIfDisturbed`, `SyncUnlessDisturbed`,
`NoEventMissed` and `FileOutlivesStarts` say what remains true: they name the
failures or overlaps without which the promise holds.

### Fairness

`UrbSession`: the loop, each task and each closure are weakly fair. tokio polls
every task that was woken and its mutexes and semaphore are queues; the blocking
pool has more threads than permits; a transfer ends by its 60 s timeout. Neither
that the client sends anything is assumed, nor that it reads: `write_all` has no
timeout, so the steps that write to a live socket are not fair, and only a broken
socket makes them fail. `UrbSettles` and `LoopReturns` therefore leave out the
behaviours in which one message is being written for ever (`WriteStuck`);
`DeadSocketEnds` needs no such exception.
`DeviceImport`: shutdown, sessions, opens, transfers and drops are weakly fair;
that a device reappears is not assumed, since the poll has a deadline; sessions
end their URB loop only when the runtime drops them. `EventsHub`: the publisher
and the serving tasks are weakly fair; plugging, connecting and signals are not.
`EndpointCache` and `Serve` state safety only.

## Proofs

Each theorem about a specification has the form `Spec => []P` (or `[][A]_vars`,
or the refinement), and rests on an inductive invariant `IInv` for which the
proof shows `Init => IInv`, `IInv /\ [Next]_vars => IInv'`, one lemma or step per
action, and `IInv => P`. The assumptions are those on the constants, and no
others.

| Module | Assumptions | Theorems |
|---|---|---|
| `UrbSessionProofs` | `ConstantsAssumption`: finitely many URBs (a seqnum is a `u32`), at least one permit, distinct names | `Invariance`, `TypesHold`, `PermitsAreConserved`, `UnlinkFindsAll`, `DrainIsComplete`, `NoUrbLost`, `UnlinkIsTruthful`, `StreamIsFramed`, `RepliesAreTrue`, `UnlinksSpareOthers`, `ThreadsAreBounded` |
| `EndpointCacheProofs` | `CacheAssumption`, `NoneAssumption`: every endpoint has an interface and a type in each setting, setting 0 exists | `CachesHold`, `CacheTypes`, `CachesInSync`, `TransfersFit` |
| `DeviceImportProofs` | `ImportAssumption`: distinct names, any subset of the faults | `ImportsHold`, `ImportTypes`, `GuardsExclude`, `ImplementsLock`, `CaptureLostOnlyByFailure`, `OnlyDisturbancesFailImports`, `ReleasesItsOwn` |
| `EventsHubProofs` | `HubAssumption`, `NoEventAssumption`: every id has a busid, the capacity is positive | `HubHolds`, `HubTypes`, `HubConvergesAlways`, `NoEventMissedEver`, `RemovedAfterAdded` |
| `ServeProofs` | `ServeAssumption`, `NoneAssumption`, see below; `WireAssumption` | `ServeInvariant`, `ServeTypeCorrect`, `ListIsExact`, `ListedCanBeImported`, `DevidsAreAccepted`, `WholePacketsAreAsked`, `RepliesFit`, `SocketIsRemoved`, `FilesOutliveStarts` |
| `BusDevProofs` | none | `WrappingMulIsProduct`, `HashIsWord`, `NumbersFit`, `BusidInjective` |
| `TransfersProofs` | none | `PaddingIsWhole`, `ReplyNeverOverruns`, `TruncationFits` |
| `WireProofs` | `WireAssumption`: the widths are naturals | `FixedStringReadsBack`, `DecodeInverts`, `RecordsReadBack` |

### `UrbSession`

- `FramesIntact` needs that the writer's mutex has exactly one owner, which is
  the task or loop that writes (`WriterInv`), and that a task in the middle of a
  write has its message at the end of the wire (`WireInv`).
- `NothingLost` and `UnlinkTruthful` need that flagging and aborting go together
  except while the loop waits for an endpoint (`FlagInv`), and that a task which
  is about to finish, or that the loop has dealt with, is settled (`WireInv`).
- `ReplyMatchesTransfer` needs that a task only goes on when its closure has
  returned, and that a closure that transfers holds its endpoint's mutex
  (`XferInv`).
- `UnlinkSparesOthers` needs the same, since `cancel_all` runs under the mutex
  of the handle a transfer would hold, and that a closure without a handle is
  out of its reach (`UncutInv`).
- `ThreadsBounded` follows from `PermitsConserved` and `XferInv`: a closure whose
  task is not aborted belongs to a live task.

The step lemma is split by conjunct: `CoreStep` (what does not mention wire or
permits), `PermitsStep` (cardinalities of the set of live tasks), `TypeStep`, and
the wire. For the wire, `FrameStep` says what a step may do to the state a reply
depends on, `QuietStep` that only three actions write, and `QuietReplies`,
`UnlinkReplies`, `StartReplies` and `CompletedReplies` treat the four cases.

### `EndpointCache`

`SyncUnlessDisturbed` speaks of the caches while no request reconfigures. In
between, undisturbed, a request that reconfigures is the only one at work
(`SetsAlone`), and every closure's locals agree with the device at each of its
steps (`ThreadSync`): an interface it has claimed is of the present epoch, a
setting it is about to note is the one selected, a handle it is about to cache
fits. A `SET_CONFIGURATION` that runs alone ends every disturbance, because what
it has cleared stays empty until it is done (`SoloClears`).

### `DeviceImport`

`GuardExclusive` and the refinement of `ImportLock` need only how the session's
place and its guard go together (`LocalOK`). `ReleaseHitsOwn` needs that whoever
remembers the present registry entry knows the device in the port (`KnowsPort`).
`LostOnlyByFailure` needs a witness: while the device is captured and nothing has
failed since, some session polls for it after capturing it, or has an
`OpenedDevice` that will release it (`SomeoneHolds`); when the process has exited
there is no such session (`Ended`). `ImportFailsOnlyIfDisturbed` needs that an
import nothing has disturbed can still succeed at each of its steps (`OnTrack`):
it finds the device, remembers the present registry entry, or waits for the
device that it has re-enumerated itself. The lemmas treat the session's own
steps, the open, the drops and the host's steps one after the other
(`SessionOnTrack`, `OpenOnTrack`, `DropOnTrack`, `HostOnTrack`).

### `EventsHub`

`HubConverges` compares the snapshot with the devices attached when nothing is
queued. With a queue, its last event at a busid tells what is attached there
(`QueueOK`), the list and the queue together make every device known (`KnownOK`),
and where neither mentions a busid the snapshot is right (`SnapshotOK`).
`NoEventMissed` needs that the snapshot has what the last event sent says
(`LastEventOK`), and that a consumer knows the snapshot at a busid, or an event
on it is still to come, or it has missed one (`ConsumerOK`). `RemovedWasAdded`
needs that every key of `IdMap` was announced (`AnnouncedOK`).

### `Serve`

`ServeAssumption` says what can be plugged in. Finitely many sites, each with the
name of a bus that has no NUL and no dash (nusb gives two hexadecimal digits on
macOS and a number on Linux) and ports from 1 to 255. Addresses are bytes. A busid
fits its field of 32: USB allows six ports in a chain, of three digits at most.
A product has at most 255 interfaces, since a descriptor counts them in a byte.
`main` refuses `--allow` together with `--allow-all`. The names of the instances
are not those of the other things that can be at the path.

`IInv` adds to the properties and types that a socket at the path has an owner
which has not unlinked it (`SocketOwned`, for `PathCleanedUp`), that while there
is a file, only instances that were past their check when it came will call
`remove_file` (`FileSeen`, for `FileOutlivesStarts`), and that an import which opens a device has found a permitted product (`LookedUp`, for the
header of the reply). The proof splits it by the variables the conjuncts are
about: `Untouched` is for the parts a step leaves alone, and there is one lemma
for each part an action changes. What those rest on:

- `ListReadsBack` needs that a list of any length is read back
  (`RecordsReadBack`): before every record, what is left of the message is that
  record and what is left after it (`RestExists`), so that each step of the
  reader is one use of `DecodeInverts`. The order of the list is that of
  `SetToSeq`, of which only that it has every device once is used.
- `DevidAccepted` needs `NumbersFit`: whatever the hash is, both numbers are from
  1 to 255, and eight bits keep them.
- `ListedIsImportable` needs `BusidInjective`. A busid is cut at its first dash,
  and the rest is cut at its last dot, over and over (`FirstCut`, `LastCut`,
  `JoinsInjective`); the parts are decimal numbers (`DecimalInjective`), and the 0 after the dash of a root hub's busid is no port
  (`NoPortIsZero`).
- `AsksWholePackets` and `ReplyFits` need `PaddingIsWhole` and the four ways a
  reply is made (`EveryReplyFits`).

`WrappingMulIsProduct` shows that the four-byte arithmetic of the model is
`wrapping_mul` of the code: its value is the product modulo 2^32.

`BusDev` and `Wire` have recursive functions. That the function such a definition
speaks of exists, and has the type and the values one reads off it, is proved
once (`Recursion`, `StaysIn`) and used for each of them (`HashesDef`,
`NumbersDef`, `JoinsDef`, `EncodedDef`). The induction is over sets of numbers
(`SetInduction`, `Upward`), which takes no operator as a parameter: a set of
naturals that has 0 and the successor of each of its members has them all.

### What is only model-checked

Liveness (`UrbSettles`, `LoopReturns`, `DeadSocketEnds`, `ImportSettles`,
`ShutdownEnds`, `DeviceAnnounced`): fairness and `ENABLED` are out of the
prover's reach. Every invariant and every action property of the passing runs is
proved.

## Not modelled

- The TCP endpoint: its address belongs to one process, so instances cannot
  disturb each other as on a path; its sessions are those of the unix socket.
- The byte order of integers and the layout of URB headers: one call of
  `to_be_bytes` or `from_be_bytes` per field, without a decision to check.
- The text of `usbipd list` and of the sudoers fragment: made of the arguments
  in one pass, without state.
- Panics inside a closure: `run_submit` would return without a reply; nothing in
  the code panics unless nusb does.
- Isochronous transfers: the code refuses them, which `EndpointCache` has as
  endpoints of the kind `iso`.
- `DeviceImport` together with the full `UrbSession`: they share only that an
  `OpenedDevice` lives as long as a closure uses it, which `DeviceImport` keeps
  as `pending`. The product is out of TLC's reach.
