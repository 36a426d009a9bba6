# jailrun: a verification project

TLA+ modules that model the core of jailrun, TLC configurations that check them
on small instances, and theorems about them checked by TLAPS. Paths are relative
to the repository.

## 1. The system

jailrun runs OCI images in FreeBSD jails. There is no daemon: every command is a
process of its own, and the processes share, without a common lock, the kernel's
jail table (`jls`, `jail -c`, `jail -r`), a sqlite ledger (the run-state db), the
store's tree of images and run rootfs (ZFS datasets or plain directories), the
host's mounts, and pf and interface state. A process may have several runs on its
event loop (`scripts/soak1000.py` has; the command line has one).

| Part | State | Operations | Hard behaviour |
|---|---|---|---|
| run lifecycle (`runtime/engine.py`, `runner.py`, `lifecycle.py`) | one process per run: the locals the `finally` block decides by | resolve, unpack, clone, mounts, network, `jail -c`, `record_start`, `jexec`, `finally`: `jail -r`, `record_exit`, `--rm` | each step can fail or time out, the process can die; others act on its jail and row meanwhile |
| commands (`runtime/cli.py`) | none of their own | `run`, `run -d [--name]`, `stop [--rm]`, `rm`, `exec`, `commit`, `ps`, `logs`, `wait` | check, then act on a name; races with the run they address |
| run-state db (`runtime/rundb.py`) | one row per jail name | `record_start` (replace), `record_exit` (update), `list_runs` | write errors are swallowed |
| garbage collector (`runtime/gc.py`) | three snapshots, a list of fixes | `collect`, `reconcile`, `apply_fixes` | reads three sources at three moments, acts later; sources that cannot be read; several collectors |
| rootfs store (`store/store.py`) | `runs/<id>`, its binds | `clone`, `empty_rootfs`, `mount`, `unmount`, `destroy`, `commit_image` | busy datasets, snapshots, deletion through mounts |
| image store (`store/store.py`) | OCI layouts, image datasets, bases, locks | `resolve`, `unpack`, `register_base` | per-image `flock`, crashes between create and snapshot |
| manifest cache (`runtime/engine.py`) | a file per image id | `_load_manifest` | no lock; what is cached first stays |
| layers (`store/store.py`) | a root filesystem in the making | opaque markers, whiteouts, merge, layer by layer; image ids | replaced types, links, retries over leftovers |
| extraction jail (`store/store.py`) | one template for the host, its mounts | template, mounts, `jail -c`, `bsdtar`, clean-up | everything is shared, nothing is locked; what the dead leave |
| manifest (`probe/`, `bakery/`, `providers/`, `engine.py`) | the entries of an image's executables, a base's artifacts, the links of the shadow | probe, plan, bake, shadow, gate | four programs that must agree on names and on what is really there |
| network policy (`runtime/netops.py`, `netpolicy.py`) | alias pool, VNET counter, `pf.conf`, anchors, aliases, epairs | allocate, wire, apply, tear down | per-process tables over host-wide resources, a file rewritten in place |
| `doctor`, `scan`, `explain`, scripts, bench, deploy | none | reports and tooling | - |

What makes them correct: a jail never outlives its run; a row says "running" only
while its run may be; nothing deletes the rootfs of a live jail or the host files
bound into it; `gc` harms no live run and leaves nothing of a dead one; a run
returns, where its waits are bounded. An image is whole or not there, and once there it stays; its root
filesystem is what its layers mean, with each layer from its own blob; its manifest
lists what is executable where it looks and names a base that exists; what is linked over the
image's own binary is the artifact of its provider. An address is one run's, it stays as
long as its jail lives and then returns; what a jail sends out by
TCP and UDP goes where its list says; the
operator's firewall rules survive. `PROJECT.json` lists the hazards line by line.

## 2. The modules

| Module | Models | Composes |
|---|---|---|
| `Reconcile` | `reconcile()` as operators on three snapshots; names, rows | - |
| `JailRun` | every process of the first five parts, with the properties of single runs | `Reconcile` |
| `RunContract` | abstract: what a run promises, whatever the others do | - |
| `GcHistory` | `JailRun` with history variables about passes of `gc` | `JailRun` |
| `ImageStore` | `run` and `pull` processes in `resolve`, `unpack`, `register_base` and `_load_manifest` | - |
| `ImageContract` | abstract: an image appears whole, stays, and only then is given out | - |
| `Layers` | one extraction after another of one image, and what its layers mean | - |
| `Manifest` | from the extracted image to what each executable runs as: probe, plan, bake, shadow, gate | `Layers` |
| `ExtractionJail` | the `bsdtar` calls of several processes in the one extraction jail | - |
| `Network` | runs with `--network allow=...` and `vnet` in several processes, pf as far as they use it | - |
| `MCJailRun`, `MCGcHistory`, `MCImageStore`, `MCLayers`, `MCExtractionJail`, `MCNetwork` | the option sets, images, plans and the symmetry TLC uses | the module named (`MCLayers`: `Manifest`) |
| `JailRun_proofs`, `JailRunSafety_proofs`, `GcHistory_proofs`, `ImageStore_proofs`, `Layers_proofs`, `Manifest_proofs`, `ExtractionJail_proofs`, `Network_proofs` | theorems | the module named |

`JailRun` takes a rootfs as given (`Clone`); `ImageStore` is where it comes from,
`Layers` opens up its step `Extract`, `ExtractionJail` the call `Layers` takes each layer's
entries from, and `Manifest` what `ImageStore` caches as a base's name. `Network` opens up
the network steps that `JailRun` takes for a failure of `jail -c` or of the setup after it.
They meet in those steps only, so each is checked on its own.

**Runs: state.** `pc`, `opt`, `name`, `stage` are the run process: where `_run_async` is,
its options (thin base, `--rm`, what it binds, where it waits without a timeout), `jail_name`, and how far
`jail_name`/`jail_created`/`run_completed` got. `jails` is the jail table, mapping
a name to the run whose rootfs it has; `rows` the db; `datasets` the entries under
`runs/`; `mounts` what is mounted under a rootfs ("base" read-only, "volume" a
writable `-v`, "dev" what `jail.conf` mounts); `lost` records what has been
destroyed, of a rootfs and of the host directory bound into it; `committed` the snapshot
that `commit` took of a rootfs and the image it cloned from it. `cmd` and `gc` are the clients' and collectors'
program counters and locals.

**Runs and names.** A run is identified by its handle's uuid. A foreground run's
jail is `jailrun-<that uuid>` (`<<"own", r>>`), `run -d` draws another uuid
(`<<"fresh", r>>`), `--name` takes any string (`<<"user", u>>`). What `gc` finds out
depends on nothing else about a name.

**Runs: steps.** An action is what a process does up to the next effect another process
can see: one `jail(8)`, `zfs(8)` or db call. So `Clone` is resolve, unpack and clone
(images are not shared state here), `Prepare` everything from the manifest to the
assignment of `jail_name`, and each step has its failing twin, which goes where
Python's exception goes: out of the function before the `try`, into the `finally`
block after it. `Teardown`, `RecordRunExit`, `Release`, `Reclaim` are the `finally`
block. `jail -r` with the conf also unmounts what the conf mounts, a bare one does
not: the engine's own comment at `engine.py:1829`. `RemoveTree` is `shutil.rmtree`:
it deletes through whatever is mounted, and may stop at a mount it cannot write.
There are two `zfs destroy`: `Store.destroy()` repeats it with `-f` (`ZfsDestroy`), which a
snapshot defeats; `gc`, `rm` and `stop --rm` repeat it with `-r` and with `-f`
(`ZfsDestroyRecursive`), which only a clone of a snapshot does. `CommitSnapshot` and
`CommitClone` are two steps, so a snapshot may be left without its clone.

**The image store.** `layout` is the OCI layout of a reference in the cache, "torn" when
its `index.json` is not usable; `refLock` and `idLock` the flocks of `_image_lock`;
`tree` what an image's dataset or directory holds and `snap` what its `@snap` or
sentinel stands for, so that an image is published with a wrong content in a wrong
model. `writers`, `provisioned` and `registered` are the same for bases, `cache` is the
persistent manifest, reduced to the base it names. A step is one `skopeo`, `zfs` or
file operation. `Abandon` is a call that fails or a process that dies, at any step:
Python's `with` and the kernel release the flocks alike, and what the process had
started may go on (`writers`). `BakeFails` is the exception that `bake` catches.

**Layers.** `rootfs` maps a path to what is there and the layer it comes from; `todo` holds
the entries of the layer not treated yet in this `phase`, taken in any order in which a
directory comes before what is in it. A step that raises ends the attempt, `Kill` ends it
anywhere, `Retry` starts over on what is there, as `_unpack_zfs` and `_unpack_plaindir`
do without a snapshot or sentinel. `UpTo` says what the layers mean, by the layer section
of the OCI image specification, independent of the algorithm. Removing a tree and copying
a file are one step each.

**The manifest.** `Manifest` goes on from a finished extraction. `Walks` are the orders in
which names come up, one search directory after the other and each in the order of its
listing; `Found` is what `probe` lists of a walk: it resolves links and skips a path it has
seen. A name's provider comes from a registry, of which every instance tries several. `Plan`
is `build_plan`: entry by entry, `Extended` appends the steps of a provider that are not there
yet, in the order of the manifest and not package, port, build. Baking may register a base that brings all of what the plan expects or less, or fail,
or be refused for a plan with a recipe. `AssembleShadow` links artifacts over names: the
first entry that calls for a name gets it. `Gate` turns Linux emulation on. What is in a file
is known by the layer it comes from and its name; a link leads inside the rootfs; `SkipDirs` are
the names the walk passes over, of files as of directories. Below the first level of a search
directory nothing is found: `probe.py:460` calls the walk of a subdirectory and drops it. So
`ListsTopLevel` is about that level and those names only, less than the comments there promise. The
directories that the extended patterns match are search directories like the others.
`RegistriesAssumption` is what the shipped tables keep to: the file name of an artifact, with
the version suffix where there is one, is not a name that the map gives to another provider.
`ShadowIsOwn` is about providers for that reason: within one, the tables send several names to
one file (`gofmt` and `go`, `npx` and `node`).

**The extraction jail.** `mnt` stacks what is mounted on the template's two mount points:
the visible one is the last. `target` is the directory a process's `bsdtar` writes to,
fixed when it opens it; `got` whose layers have entries in which output directory.
`SequentialSpec` is the discipline under which the code works (images extracted one after
the other), `Spec` is what it allows. A process extracts one layer of an image of its own;
unmounting and removing a mount point is one step. The commands of the teardown may fail, and
nobody looks (`RemoveJailFails`, `UnmountFails`), or time out, which ends the call
(`TimesOut`, `UnmountTimesOut`); a `mount` that timed out may have mounted (`MountTimesOut`).
`spoilt` are the calls this happened to. The jail of a `jexec` that timed out stays.

**The network.** `used` and `counter` are the tables of a process, `held` what a run was
given, `conf` the lines of `/etc/pf.conf`, `loaded` those pf works with, `anchors` what the
anchor of a jail name holds: whose rules, and for which address. Names are part of a plan, so
that runs may share one, as a race on `--name` lets them. Calls of `netops` block the event loop: `Sync` lets runs of one process
interleave only where `_run_async` awaits, runs of others anywhere. `ReadConf`,
`TruncateConf`, `WriteConf`, `Reload` are `_ensure_anchor_wired`, a file rewritten in
place. Rules are what they let through: `Render` gives the match, pass and block rules of
an anchor for packets with a destination and a protocol, the latter two for TCP and UDP out of
`ext_if` (`OnExtIf`: `Inside` is what is reached otherwise), each at its place (`Before`: anchors in alphabetical order, then lines), and `Passes`
what pf decides with tags and `quick`.
Taken for granted: pf is enabled, packets leave a jail with its alias as source, and the
operator's own rules decide nothing about jails.

**Faults.** `Faults` says what may go wrong in an instance, and each module names its kinds:
the death of a process, a jail that cannot be removed, writes of the db that are swallowed,
sources that cannot be read, mounts that stay, `cp`, `bsdtar` or `umount` failing, timeouts,
a reload that fails. In `JailRun`, failures of the engine's own steps (clone, mount, `jail -c`,
`setup_vnet_jail`, `jexec`, timeouts) are always possible; `ImageStore` lets any call fail.

**Mutants.** The operators marked "Mutant" before a definition are variants of it
with a plausible bug; each property is known to fail under one of them.

## 3. The checks

Passing runs (sizes are distinct states):

| Run | Asks | Instance |
|---|---|---|
| `Lifecycle` (1.6 M) | no jail and no open row left by a run that returned; no host directory deleted through its bind; the inductive invariant of the proofs; the refinement of `RunContract` | 2 runs, one of them thin with `--rm` and a volume, detached, with one contended `--name` or a name drawn for each, all commands, crashes, db unreadable, zfs |
| `Reclaims` (290 k) | a run ends or stands in a wait without a timeout; `--rm` leaves no rootfs, but for one that `commit` has a snapshot of; gc removes the jail of every dead run, and its rootfs but for one that an image was cloned from | 1 foreground run, with or without `--rm`, the terminal and the network; 2 collectors, `stop` and `commit`, crashes of any of them between any two steps |
| `GcSpares` (1.1 M) | a run all sources agree on during a pass is on no list of that pass; a jail that could not be removed is on the next one's | 2 foreground runs, 1 collector; every read of gc and `jail -r` may fail, anyone die; plaindir |
| `GcDisciplined` (1.3 M) | gc touches no executing run; the rootfs of a live jail stays; two quiet passes leave nothing | 2 foreground `--rm` runs, `stop --rm`, crashes, and no run starting while gc works |
| `ImageStore` (116 k) | no half image published or cloned, no published one written; manifests name registered bases; commands end; the inductive invariant of the proofs; the refinement of `ImageContract` | 3 processes on 2 references of one image (and by its id), one base, both backends, any call failing, any process dying |
| `Layers` (785 k) | the extracted rootfs is the overlay of the layers, also over leftovers; extraction raises on no plain image; the manifest has the executables at the top of the search directories; the plan brings what it needs in order; what is linked is right, and a complete base leaves no Linux binary without support | images of 3 layers on 2 directories with links, whiteouts and opaque markers, and shorter ones with two files each; 2 attempts; 9 registries |
| `Extraction` (2.0 M) | a layer taken for extracted is in its output directory and alone there; a call whose own teardown worked left no mount, and no jail if it succeeded | 3 processes one after the other, all failures, those of the teardown too, timeouts, deaths |
| `Network` (234 k) | dedicated addresses that stay while the jail lives and come back; TCP and UDP by `ext_if` as listed; nothing left; the operator's rules lost in one way only | 3 runs in 2 processes, allow-lists in one of them, VNET in both, two names that give one tag; 2 addresses, 1 block; an address inside the host; 3 states of `pf.conf`; deaths, failing routes and pf loads, a terminal |

Runs that show a disagreement of the code with its own documentation:

| Run | Shows |
|---|---|
| `GcDetached` | `gc --fix` destroys the rootfs of a healthy detached run: it looks for a jail named after the dataset, which a detached run does not have (`gc.py:225` against `gc.py:25`) |
| `NetAddresses` | two `run --network allow=...` commands get one "dedicated" address, and the jail of one reaches what the other's list allows (`engine.py:1595` against `cli.py:240`) |
| `ManifestGate` | a shadow passes over an artifact that is missing, the gate does not notice: the Linux binary has neither a native replacement nor Linux emulation (`engine.py:424` against `ARCHITECTURE.md:115`) |
| `ExtractionRace` | two concurrent extractions in the jail: one `bsdtar` writes into the other's output and returns 0, an image goes on without its layer (`store.py:1716` against `store.py:1697`) |

**Bounds.** Runs meet only through names, jails and rows, so two runs give every
pairwise race; a third would only repeat one of the two. One client suffices
for the races between a command and a run; it may issue any number of commands, one
after the other. Collectors never see each other except through the shared state,
two are enough to race (`Reclaims`). That run asks for one dead run,
since collectors treat the leftovers of runs one by one and nothing of one is another's. `QuietBound` (2) caps the counter of undisturbed
passes. A foreground run and one with `-d` differ in their jail's name
only, which matters to gc: `Lifecycle` has the latter, the other passing runs of
`JailRun` the former. Runs start once, which bounds every behaviour but for the repetition of
commands and passes; runs that end leave their name for the other. Symmetry is used in
safety runs only. In the image store a lock has a holder, a waiter and
somebody who dies: three processes; with an `ask` each they issue one command, and a
fourth would repeat one of them. `Ids` has one image since images share nothing.
Three layers make "put, remove, put again" of one path, with a layer below; two
attempts let a kill leave anything a layer can leave. In the manifest two names meet in
every way two entries can: no provider, one each, the same, of each kind; images with
two files in each of two directories give the walk duplicates, links and shadowed names.
In the extraction jail two dead processes may have left mounts and jails before a third. In
the network three runs of a process want its two addresses, or two its one block, so that
one finds none left and fails, and a process with VNET runs has a neighbour. `NetAddresses`
is smaller: two runs, and no faults. Deadlock is not
checked: each system stops when everybody is done.

**Fairness.** `JailRun`: weak fairness of each run's steps once it has started, but not
where nothing bounds its wait (`Waits`): the pty loop reads the terminal without a timeout
(`engine.py:990`) and waits for `jexec` without one (`engine.py:1016`), and `netops._run`
(`netops.py:53`) gives `ifconfig`, `pfctl` and the others none, before `jail -c`, after it
and in the `finally` block. A run with `-it` or a network may stand there for ever, and the
properties say what follows only if it does not. Everywhere else a wait ends: calls of the
store and of `_run_subprocess` have a timeout after which the child is killed,
`_stream_jexec` has `DEFAULT_JEXEC_TIMEOUT_S`, `gc` and `lifecycle` 30 s or less, and a
flock is let go by its holder (`CommandsEnd`). Starting a run, crashing and issuing commands
are not fair. Weak fairness of each collector stands for an operator who runs `gc --fix`
again and again, and the last conjunct for one whose collectors are not all killed before
they finish; `Reclaims` is about that operator. In `ImageStore`, each process
that has started goes on: `Store._run` gives every call a timeout, and commands
are finitely many, so that a flock one waits for ends up free for good. In `Network`, each
run's steps except at a terminal (`Waits`); a process that hangs in a host command is one
that has died there (`Die`): its event loop is blocked and none of its runs goes on.

**What is sensitive to the assumptions.** `LiveJailKeepsRootfs` fails with `rm` among the
commands: its check that the jail is not live is stale when it destroys
(`cli.py:1408`). `GcHarmsNoExecutingRun` fails without the discipline (a run between
clone and `record_start`), with swallowed db writes and with thin runs, which have no row.
`GcRemovesJails` excludes a jail under a "running" row: a crash after `record_start` leaves
one, the three sources agree on it, and only `stop` ends it. `GcReclaimsDatasets` excludes
rootfs with something mounted: gc never unmounts. `RmReclaims` fails if `stop`, the timeout
of `exec` or gc removed the jail first, since their bare `jail -r` leaves the mounts of
`jail.conf`. Under zfs a snapshot of `commit` keeps `--rm` from reclaiming the rootfs, as
`Store.destroy()` has no `-r`, and gc only if an image was cloned from it. No command of
jailrun removes an image, so that rootfs stays. `QuietMeansClean` is about ZFS clones: a thin rootfs under ZFS is a plain
directory that gc's `zfs list` does not show. `HostVolumeSurvives` is about zfs: on plaindir
a killed run's volume is deleted through its mount by `gc --fix`, `rm` or `stop --rm`
(`gc.py:482`).
The two conditions of `Layers` are what the code does not handle. Outside `Plain`, a file
over a directory without a whiteout lands inside it (`store.py:2394`), a directory over a
file raises, and a marker reached through a symlink acts on its target; no property covers these. Outside
`KeepsDirectories`, an image whose layers turn a link into a directory (as distributions do
with `/lib`) is extracted by a first attempt, but not after a kill: `unlink()` on the leftover
directory raises on every retry (`store.py:2365`), against `ROADMAP.md:199`, by which a
`kill -9` leaves nothing that the next invocation cannot fix. What is extracted completely
is right in that case too. `NamedBaseIsRegistered` does not say that a base stays as it was
provisioned: on plaindir another process may write in it after it was registered.
A manifest file that is read while it is written, or whose writer died, ends the run
(`LoadManifest`), and so does an index that skopeo left torn (`Identify`).
`LiveJailHasAddress`, `EgressIsOwnPolicy` and `RulesLostByDeathOnly` fail when two processes
have `--network allow` runs, even one after the other if the first died or left a jail: they
share addresses, and may read `pf.conf` while the other has truncated it.
`EgressIsOwnPolicy` fails as well with two runs of one name. `RulesLostByDeathOnly` excepts a
death between emptying and writing `pf.conf`; `OperatorRulesSurvive`, without that exception,
fails with it, as nobody has a copy of the rules. `DedicatedAddress` and `NothingLeft` hold even then.
`Extraction` needs its discipline for everything but types. `NothingStays` says nothing of a
call whose own `mount` timed out or whose teardown failed (`spoilt`): its mounts and jail stay
(`store.py:1771`), and `ExtractedIsOwnLayer` holds over them.

**Contrary to the repository's own words, without a run.** The model does what the code does in
each of these places, and the properties say less than the words, so that none of them hides it:

- A run with `-it` is not killed at its `--timeout` while nobody types: the terminal is read with
  a blocking `os.read` (`engine.py:990`), where the comment two lines above says "non-blocking"
  and `docs/USAGE.md:56` "Kill the jexec'd command after this many seconds".
- What is below the first level of a search directory is not in the manifest: `_walk` is a
  generator that calls itself without `yield from` (`probe.py:460`), where `probe.py:422` says
  "all candidate executable files" and `probe.py:441` "recurse dirs".
- A plan keeps the order of the manifest: `add_pkg`, `add_port` and `add_build` append
  (`bakery.py:253`, `259`, `265`), where `bakery.py:234` says "all pkg steps precede all port
  steps, port steps precede build steps".
- The jail of a `bsdtar` that timed out stays, as its `jail -r` is not in the `finally` block
  (`store.py:1761`), and so does a mount whose `umount` fails or was not tried after another
  timed out (`store.py:1771`), where `store.py:1703` says "Never leaves a jail or mount behind".
- Two runs of one `--name` in two processes whose checks both passed: the later one replaces, then
  flushes the rules of the jail that is up (`netops.py:104`), where `netpolicy.py:209` speaks of
  "one jail's rules in isolation".
- A process that dies between emptying `pf.conf` and writing it has lost the operator's rules
  (`netops.py:145`), where `ROADMAP.md:199` says "`kill -9` mid-run must leave nothing behind that
  the next invocation can't fix".
- ICMP, and whatever does not leave by `ext_if`, is not blocked (`netpolicy.py:271`), where
  `netpolicy.py:230` says "block everything else" and `cli.py:242` "only the listed destinations
  are reachable".

**Seen while modelling, without a run.** Two first runs of an image may cache a manifest
without a base for good, since `register_base` takes no lock (`store.py:1239`). A thin run is
never recorded: `snapshot_id` is unbound on its path (`engine.py:1761`). A template build that
is killed after `bin/sh` is not repeated, and every later jailed extraction fails. The jail of
an extraction that timed out (`jlr-extract-*`) is nothing gc looks for. An image id is made of
sorted layer digests, so that two orders of the same layers are one image (`store.py:1936`).
`netops.py:166` and `docs/DESIGN-network.md:110` leave orphaned network state to gc, which has
no such category. VNET runs never wire the anchors of `pf.conf`, and no rdr anchor is hooked
in anywhere; publishing ports replaces the NAT rules of the anchor (`netops.py:298`); a
`pf.conf` with the nat hook only counts as wired, and so does one whose reload failed.

## 4. The proofs

For every set of runs, names, clients and collectors, every set of options, commands
and (but for those named) faults:

- `TypeCorrect`: `Spec => []TypeOK`.
- `JailGone`: if `jail -r` never fails, no run that returned has left its jail.
- `RowsTellTruth`: if db writes never fail, no run that returned has an open row.
- `BookkeepingHolds`: if neither fails, `Bookkeeping`.
- `ImplementsContract`: if neither fails, `Spec => Contract!Spec`, in `JailRun_proofs` as well.
- `VolumesSurvive`: under zfs, if a forced umount works, `HostVolumeSurvives`.
- `RmRunsReclaim`: if `jail -r`, umount and destroy work, `RmReclaims` (with its
  exception for snapshots that `commit` left).
- `LeftoversAreFlagged`: without `--name`, if db writes never fail, `LeftoverJailIsFlagged`.
- `LiveJailsKeepRootfs`: without `--name`, `rm` and gc, if `jail -r` never fails,
  `LiveJailKeepsRootfs`; `GcKeepsLiveRootfs`: with gc, for foreground runs, where no run
  starts while gc works.
- `AgreedAreSpared`: for foreground runs, `GcSparesAgreed`, whatever fails.
- `ExecutingRunsAreSafe`: for foreground runs that are recorded, where no run starts while
  gc works and neither `jail -r` nor the db fails, `GcHarmsNoExecutingRun`.
- `QuietPassesClean`: with one collector, foreground runs, none of them thin under zfs, and no
  `commit`, where gc's reads, `jail -r`, destroys and db writes work, `QuietMeansClean`.
- `StoreTypes`, `WholeImages`, `NamedBases`, `StoreBookkeeping`: the invariants of
  `ImageStore`; `PublishedImagesStay`: its action property; `StoreImplementsContract`:
  `Spec => Contract!Spec`. For any processes, references, bases, backends and failures.
- `CompletedIsOverlay`: `ExtractionIsOverlay`, for images of any number of layers on any paths
  and any number of attempts; `FirstSucceeds`, `LaterSucceeds`: `FirstAttemptSucceeds` and
  `RetrySucceeds`; and types.
- `ListsTheTopLevel`, `PlansServe`, `CompleteBasesServe`, `ShadowsAreOwn`: the four properties of
  `Manifest`, for any registry, tables, search directories, and names that are finitely many.
- `ExtractionTypes`, `LayersAreOwn`, `NothingIsLeftOver`, and their invariant
  `OneExtractionAtATime`: any number of processes under `SequentialSpec`, any faults, those of
  the teardown among them.
- `NetworkTypes`; `AddressesAreDedicated`: unconditionally; `NothingIsLeft`: if undoing works,
  whoever shares names and addresses;
  `LiveJailsKeepAddress`, `RulesLostAtOnePlace`: if one process only, for all time, has
  `--network allow` runs (the former if `jail -r` works, the latter if `pf.conf` had the rules
  at first); `OperatorRulesStay`: `OperatorRulesSurvive`, if moreover no process dies;
  `EgressStaysOwn`: `EgressIsOwnPolicy` for any
  allow-lists and any order of anchors, if one process only has such runs, no two runs have
  one name, `jail -r`, undoing and reloading work, and no `pf.conf` is found with the nat
  hook but not the other.

*Argument, runs.* `NoJailLeftBehind` is not inductive: it says nothing until a run is over.
`JailInv` adds that a live jail carries the name of the run it belongs to and exists
only in the part of that run (from `jail -c` to the `finally` block's `jail -r`) that
still leads to its removal. `RowInv` says the same of rows and needs `StageInv`: a row
is written in stage "created" or later, which is what `record_exit` is gated on. Each
is preserved because steps of others can only remove a jail (`OthersOnlyRemove`) or
close a row (`OthersOnlyClose`); only the run's own steps need a case each. The
refinement maps every step of a run to the step of the contract with the same
place in its life and every other step to `Interfere`.

*Argument, what is destroyed.* `VolumeInv` and `ReclaimInv` follow one run: what it removes
has nothing bound in it any more. The rest turns on one fact, `SettledStays`: where a name
belongs to one run (`NameInv`), a run past its `jail -c` never gets another jail. So what
`stop` found live stays gone after its `jail -r` (`StopInv`), and what it looks up then has no
jail and gets none (`KeepInv`). For gc, `Spares` says what a collector's snapshots and lists
say of a run; as long as its jail and row are there, each step of the pass keeps it
(`SparesStays`). `AgreedInv` and `ExecInv` supply that condition: by the history variable, and
by the discipline, which makes gc idle whenever a run becomes one that executes. `FlagInv` is
the converse: where gc found no jail, there is none until the pass has ended.
`QuietMeansClean` needs what no state shows, that nothing moved between two reads. `QuietInv`
says it of a pass that nothing has disturbed so far: what it has read is still so, its lists
are complete for runs that are over and hold nothing else, and what they held has gone, item
by item. Two such passes in a row leave nothing, since the first may take away the jail and
the row that made a rootfs look in use. One collector, because a pass counts as quiet while
another collector works: with two, one may have read before the other's pass and act after it.

*Argument, images.* `ImagesAreWhole` needs to know why nobody else extracts: `ImageInv` says
that who is between `LockImage` and `Publish` holds the flock of the image and that
nothing is published meanwhile, since the check was made again under that flock. `BaseInv`
follows a base from `Provision` to `Register`: no lock, but a name is handed out last and
nothing takes a registration back. Type correctness leans on it (a process in `provision`
has a base).

*Argument, layers.* `LayersInv` says where an attempt stands: what the layers below mean
(`UpTo`) holds of every path, but for what this layer's phase still has `todo` and for
leftovers of killed attempts (`StaleAt`), which only opaque markers, whiteouts or the merge of
this layer or a later one still have to meet. Since entries are treated in any order in which
parents come first, each is proved by itself: what it changes is its own subtree. `UpTo` is a
recursive function of the layers: its equations are proved by looking at the least layer
for which they fail.

*Argument, manifest.* `Rounds` gives a function defined round by round its equations, again by
the least round that fails; `Found`, `Extended` and `Plan` are such functions. An executable is
in the list from its turn in the walk on (`FoundFacts`), and each step added to a plan keeps
`Serves`, that the plan so far has what its steps need (`ExtendedServes`). `ManifestInv` ties
all entries to the one registry they were probed with, which with `RegistriesAssumption` makes
two entries that call for one name agree on its provider. `CompletedIsOverlay` says what the
rootfs is that was probed.

*Argument, extraction.* The invariant says that at most one process is alive in the jail, that
its mounts are on top of what earlier ones left, and that its `bsdtar` opened what it sees: its own.

*Argument, network.* `PlaceInv` says which steps belong to which kind of run and when it holds
an address, `TableInv` that what is held is in the table of its process, which gives two runs
of one process different addresses. `JailInv` ties a jail to its network until `jail -r`,
`LeftInv` everything set up to a run that still has to undo it, `RulesInv` every truncated
`pf.conf` to a writer, dead or alive, that has read the operator's rules. For egress, `SyncInv` says that the
process with allow-lists has one run at most inside a call, `WiredInv` that the hook is in
`pf.conf` and loaded as soon as a run has passed the wiring, and `FilterInv` that an anchor's
rules are for the address held by the run that loaded them, and that a live jail has its own
under its name. A packet of the jail has no tag that a rule of another
run's anchor gave it, since those match other addresses, so the first rule that decides is of its
own anchor, wherever in the order that is.

*Assumptions.* Those named in the modules: options, commands and faults come from the sets the
code knows, a thin run binds its base, `NoRun` is no run, a failed read is no snapshot
(`UnknownAssumption`); ids of references are ids, bases are no tags of the cache, `Nobody` is no
process; an image has layers, each of them a tree; paths are sequences of names, and what
links lead to is one; names are finitely many strings, `None` is no provider and no
artifact; the template is no process; addresses and ports are numbers, 53 is a port, `AnchorOrder`
has each name once, `None` is no tag.

*Only model-checked*: liveness under fairness (`RunReturns`, `GcRemovesJails`,
`GcReclaimsDatasets`, `CommandsEnd`, `AddressReturns`), which is out of the prover's reach.
Everything else that a passing run checks is a theorem here; what a theorem asks of the
instance beyond the run's own constants is said with it.

## 5. Not modelled

- Output, exit codes, log files, rctl, kernel modules, signal forwarding, `ps`, `logs`, `wait`,
  `exec -d`, `images`, `base`: they change no state that the properties are about. `doctor`,
  `scan`, `explain` only report; scripts, bench, deploy and schema tooling are around the program.
- Of the image store: `base_snapshot` (an operator's command, once), a skopeo or a
  `provision_cmd` that outlives its timeout (`store.py:1260`), umoci, special files and the
  guard against links that lead out of the root filesystem: paths there are strings taken
  apart character by character, which `Layers` has as sequences of names.
- Of the extraction jail: a `bsdtar` that outlives its killed process.
- Of the network: `--network inherit`, IPv6, protocols other than the three, DNS changing between look-ups, the text of rules,
  tags made of jail names (`netpolicy.py:218`; that two names can share one is modelled).
- Of the manifest: roles, risks, notes, verification levels and the command-line mains, which
  decide nothing at run time; `backfill`, a maintainer's script on the provider tables.
