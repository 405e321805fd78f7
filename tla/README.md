# TLA+ verification of node-configurator

node-configurator tunes an EC2 Kubernetes node: it gathers facts, computes a
desired-state profile, and converges a list of resources (sysctls, kernel
modules, swap, mounts, limits, NIC and CPU knobs).  A systemd oneshot unit runs
`apply` at boot; operators run `apply` and `check` by hand.  Paths below are
relative to the repository.

## Inventory

| Part | State it keeps | Operations | Hard behaviour |
|---|---|---|---|
| command, `cmd/node-configurator/main.go` | none between runs | `apply`, `check`, `facts`, `profile`, `version` | `dryRun` changes the mode after dispatch; no signal handler, no lock |
| engine, `internal/engine` | the results of a run | `Build`, `filterResources`, `Run`, `ExitCode`, reports | failures in the middle of the list, overlapping runs |
| unit, `systemd/node-configurator.service` | unit state in systemd | start at boot, kill after 90 s, restart on failure | restart loop |
| `sysctl`, `kernel-modules` | `/proc/sys`, `/proc/modules`, two drop-ins | `Check`, `Apply` | a module brings sysctl keys; half-done Apply; boot order |
| `swap`, `bpffs-mount` | swap devices, units, mounts, `/etc/fstab` and its backup | `Check`, `Apply` | read-modify-write of fstab without a lock; systemd's view lags |
| file helpers, `internal/sysutil/atomic.go` | files | `WriteFileIfChanged`, `BackupFile` | concurrent writers, kills, power loss |
| `limits-conf`, `systemd-limits-*` | drop-in files | `Check`, `Apply` | only through `WriteFileIfChanged` |
| `cgroup-v2` | nothing | `Check` (may say `reboot_required`) | a status a rerun cannot change |
| `irq-affinity`, `nic-tuning`, `cpu-governor`, `io-scheduler` | `/proc/irq`, `/sys` | `Check`, `Apply` | CPU masks, several files per resource that come and go, a ring change that resets what other steps set, CPU counts that are not the host's, nothing persisted |
| host probing, `internal/sysutil/netdev.go`, `distro.go` | none | `PrimaryInterface`, parsers | software interfaces sort before the NIC |
| facts, `internal/facts` | `/var/lib/node-configurator/facts.json` | `Gather` | IMDS or API not answering; a cache that is stale, torn or from another instance's disk |
| profile, `internal/profile` | none | `Build` | numeric edges of the scaling formulas, precedence of overrides |
| config, `internal/config` | `config.yaml` | `Load`, `ToProfileOverrides` | YAML that does not parse |

The command loads config and facts, builds the profile, and hands it to the
engine, which calls `Check` and, in apply mode on drift, `Apply` of one resource
after the other.  Resources share state only through the host: modules create
sysctl keys, two resources edit fstab, `nic-tuning`'s ring change resets the
interrupts `irq-affinity` spread, all drop-ins go through `WriteFileIfChanged`.  What makes each part correct: an exit code that is true
of the host; failures that neither stop the rest nor get lost; read-only modes
that write nothing; convergence from any half-done state; a boot that restores
the desired state without this tool; files that are never seen half-written.

## Modules

| Module | Models |
|---|---|
| `Resource` | statuses and exit code (`resource.go`, `report.go`) |
| `Engine`, `MCEngine` | invocations, the Check/Apply loop, the unit |
| `EngineProofs` | theorems about `Engine` |
| `KernelState`, `MCKernelState` | `sysctl`, `kernel-modules`, their drop-ins and boot |
| `KernelStateProofs` | theorems about `KernelState` |
| `FileRegister` | what `WriteFileIfChanged` promises |
| `AtomicFile` | what it does, by system call |
| `AtomicFileProofs` | theorems about `AtomicFile`, refinement of `FileRegister` |
| `SwapFstab`, `MCSwapFstab` | `swap`, `bpffs-mount`, `BackupFile`, systemd's swap units |
| `SwapFstabProofs` | theorems about `SwapFstab` |
| `Facts`, `MCFacts` | `Gather`: IMDS, cache, EC2 API, local fallback |
| `FactsProofs` | theorems about `Facts` |
| `Profile` | the desired state: baseline, scaling, Cilium, overrides (operators) |
| `Tuning`, `MCTuning` | from facts and config to the device knobs: `Profile` composed with `PrimaryInterface`, the limits drop-ins, `irq-affinity`, `nic-tuning`, `cpu-governor`, `io-scheduler` |
| `ProfileProofs` | lemmas about `Profile`'s operators |
| `TuningProofs` | theorems about what `Tuning` computes and which knobs it touches |
| `TuningRunProofs` | theorems about what its runs leave behind |

**Engine.**  `host[r]` is the live setting of resource `r`; a profile says which
setting it wants.  A resource has drifted when they differ; it may also be
absent, waiting for a reboot, or `mixed` after an Apply that stopped halfway.
Every process has a `pc` (`load`, `encode`, `summary`, `check`, `apply`,
`exited`), its command line, the config and profile it loaded, the positions of
`Build`'s list still to do and the results so far.  Check and Apply of one
resource are separate steps, so other processes, kills and other programs come
between them.  The profile is a free choice for each run, because facts degrade
when IMDS or the EC2 API does not answer.  Resources touch each other:
`SideEffects` says whose Apply may upset what (loading modules brings sysctl keys
at the kernel's defaults, `ethtool -G` resets interrupts), in a whole, a partial
or a killed Apply.  A failing read is not always an error: `ReadErrorStatus`
lists, resource by resource, what `Check` may answer then, and `Lenient` the
resources whose Apply passes over what it cannot read.  Two history variables:
`disturbed`, the resources someone else changed after a run's verdict on them,
and `unread`, those it judged or applied past a read error.

**KernelState.**  One run at a time, one kernel write, `modprobe` or file
replacement per step.  `Provider[k]` is the module that brings key `k`: the key
exists only while the module is in the kernel, and gets its default when it is
loaded.  A drop-in is a set with at most one element, the content written.
`Reboot` loads the listed modules, then sets the listed keys that exist, the
order systemd uses.

**AtomicFile and FileRegister.**  The steps of `WriteFileIfChanged` are its
system calls; each may fail, the deferred `Remove` included, whose error the
code discards; the process may be killed between any two, and power may fail.
`durable` is what has reached the disk.  Nothing is synced, so a power loss may
tear a rename that was not written back; no filesystem is assumed to order data
before renames (XFS, the root of Amazon Linux 2 and 2023, does not).  `lost` and
`leaked` are history: the file was torn so, a call's `Remove` failed.  In
`FileRegister` a call is one atomic decision, and only a power loss may tear what
is not on the disk; the refinement mapping forgets the temporary files and where
in the call a process is.

**SwapFstab.**  `fstab` is a record of what the code tells apart: whether there
is an active or a commented swap entry, how many entries name the bpffs mount
point, which other lines operators keep.  The backup is opened (truncated) and
written in two steps, as `os.WriteFile` does; a `Stat` that fails counts as "no
backup yet", as in the code.  Any read may fail, and swap's `Check` takes an
unreadable fstab for one without entries.  Three history variables record what
the code cannot undo: `blind`, the Stat of an existing backup failed; `cut`, the
write of a backup was cut short; `blurred`, two runs overlapped or swap's `Check`
misread fstab.  `listed`, what `systemctl
list-units` shows, follows the active devices with a delay.  The runs here are
`apply` runs; check mode writes nothing and is Engine's subject.

**Facts.**  `instance` is the instance the disk is attached to; `NewLife` is a
resize (same id, another type) or a launch from an image of the disk (another
id, same cache file).  Every process goes through `identity` (IMDS), `cache`,
`api` and the two steps of `saveCache`, which truncates and then writes in
place.  `cache` is the envelope the file parses to: none if it is missing, cut
short or mixed.  Sizing is abstracted to the instance type it describes: the
kernel reports the type the machine has, the EC2 API the type it was asked
for.  The EC2 API's answer is complete, time does not run backwards, and the
TTL is the same for all runs.  `failed`, `readAt`, `settled` and `before` are
history.

**Profile.**  `Build` is the composition of the four layers the code applies in
turn.  A sysctl value is the sequence of the numbers in it; an optional config
field is a set with at most one element; bandwidth is counted in Mbit/s, which
keeps the code's floating-point products exact.

**Tuning.**  `Files` lists the knobs: one drop-in (for the four the code writes),
interrupts, RPS and XPS files per interface, governors, disks.  `Begin` is
`gatherAllAndBuild` and `Build`: it reads facts and config, which may differ from
the last run's in any way (degraded, stale, a type's default CPU count, edited),
and picks the interface.  Then `Check`, and on drift `List` (Apply lists its
files again), `Ring` (ethtool) and `Write`, one file per step.  What happens to a
write is the kernel's part: an interrupt needs an online CPU, a mask beyond the
CPUs online is refused or cut, a governor must be offered, and `ethtool -G` may
leave the interface's interrupts and masks at their defaults.  A drop-in that
cannot be read is drift to `Check` and an error to `WriteFileIfChanged`.  Mask files are
words of 32 bits, printed by the kernel at its own width, so that rendering,
parsing and comparing masks are modelled as such.  `upset` records what went
wrong in a run and `clean` counts undisturbed runs that exited 0.  One run at a
time; overlapping runs are Engine's subject.

## Runs

| Run | Properties | Bounds |
|---|---|---|
| `engine_runs` | `TypeOK`, `ExitZeroMeansSettled`, `EveryResourceReported`, `OnlyPermittedChanges` | unit and one operator, six resources (sysctl to cgroup-v2, irq-affinity, nic-tuning), a fallback profile without modules, irq-affinity and nic-tuning that wants another sysctl setting, three configs, the command lines of `MCEngine`, one fault, one disturbance |
| `engine_unit` | `UnitSettles` | all 13 resources, one operator apply, one fault, one reboot, a config that may not parse |
| `engine_exit2` | `ExitTwoOnlyFromCheck` (violated) | no faults |
| `kernel_converge` | `TypeOK`, `TwoAppliesConverge`, `SurvivesReboot` | 2 keys, 3 modules (one built in), 3 profiles, 2 faults, 2 disturbances, 1 config edit, 2 reboots |
| `kernel_recheck` | `SysctlRecheckIsNoOp` (violated) | no faults |
| `kernel_bootlist` | `BootListIsDesired` (violated) | one config edit |
| `atomicfile_register` | `TypeOK`, `OnlyPowerLossTears`, `NoTempLeft`, `ImplementsRegister` | 2 writers, 2 contents, 2 faults, 1 edit |
| `fstab_runs` | `TypeOK`, `AppliedMeansDone`, `DoneSurvivesReboot`, `AtMostOneBpfLine`, `BackupIsUntouched`, `BackupBeforeEdit`, `OperatorLinesKept` | two processes, 2 runs, 2 faults, 1 edit, 1 reboot |
| `fstab_masking` | `SwapStaysOffAtBoot` (violated) | one process, one reboot |
| `facts_gather` | `TypeOK`, `NoForeignFacts`, `DegradedOnlyByOwnFailure`, `StaleIsExcused` | two processes with any number of runs, 2 ids, 2 types, TTL none or 1, 2 ticks, 1 fault, 2 resizes or launches |
| `tuning_devices` | `TypeOK`, `ApplyTunes`, `IrqsSpread`, `SettledRunUnchanged`, `FailsOnlyForCause`, `ThresholdsOrdered`, `TouchesOnlyItsOwn`, `GrowsWithInstance` | 11 knobs (NIC, bridge, governor, 2 disks), 2 or 36 CPUs, 3 sizings, 3 configs, 1 fault or new input, 1 disturbance or restart, any number of runs |
| `tuning_overrides` | `OverridesAreHighest` (violated) | no faults |

Why the bounds are enough: every property is about one run's verdict and what
one other actor does to it, so two processes and one or two faults reach each
combination of "who was between which two steps"; two runs allow
one on the leftovers of a killed or failed one, or over it; two faults allow a
failure of the run that repairs a failure, or a failed Stat after an edit.  Two keys
distinguish a key that is always there from one a module brings; two contents
distinguish the old file from the new one.  In `Facts`, two lives take an
instance to another type or id and back, and two ticks let an entry of TTL 1
expire; the theorems remove these bounds.  In `Tuning`, three interrupts wrap
around two CPUs, 36 CPUs need a second mask word, the three sizings are a small
and a large instance and facts with nothing in them, a config leaves everything
on, one turns everything off, one overrides; one fault and one disturbance put a
failure and someone else's change at every step of a run, on the leftovers of
any earlier one.

A command that fails (`modprobe`, `swapoff`, `mount`, `systemctl mask`,
`ethtool -G`) may have had its effect, whole or in part: the runner gives up on
it after 15 s (`internal/sysutil/cmd.go`), which says nothing about the command.

Deadlock is checked where the system always has a step (`KernelState`,
`AtomicFile`, `Facts`, `Tuning`).  It is switched off for `Engine`, whose unit rests in `active`
once operators are done, and for `SwapFstab`, where runs are bounded.

**Fairness** (`Engine!FairSpec`): a started process goes on (the kernel
schedules it, external commands are cut off after 15 s by
`internal/sysutil/cmd.go`), systemd starts the unit and starts it again after
`RestartSec`, and the operator repairs a config that does not parse.  Failures,
kills, other programs, operators' commands and reboots are not fair, and are
finite in number: `UnitSettles` says that the loop ends once the faults do.
The run uses configs without `dryRun`, see the findings.

## Findings

- `engine_exit2`: an `apply` with `dryRun: true` exits 2 on pending changes; the
  README reserves 2 to `check`.  With `Restart=on-failure` such a config keeps
  the unit restarting.
- `kernel_recheck`: the first successful `apply` that loads a module leaves the
  module's sysctls at their defaults, so the next `check` exits 2.
  `TwoAppliesConverge` and `SurvivesReboot` show that a second apply, or a
  reboot, repairs it.
- `kernel_bootlist`: when the config stops listing modules the old
  `modules-load.d` drop-in stays.
- `fstab_masking`: swap units are looked up after `swapoff -a`, when they are no
  longer active, so a unit that does not come from fstab is not masked and is
  back at the next boot.
- `tuning_overrides`: `hugePages` wins over an explicit `vm.nr_hugepages` in
  `sysctl.overrides`, which `configs/example.yaml` calls highest precedence.

Other weaknesses are kept as hazards; the properties name them as their
exceptions, so what they show is that there are no others.

- Without IMDS the cache is not looked at, so a run may be degraded although the
  exact facts are on disk.
- A power loss before write-back tears a file (there is no fsync).
- A failing `Remove` leaves the temporary file of a call that returned an error.
- A `Stat` of the backup that fails for another reason than absence overwrites
  the backup, possibly with an fstab that a run has changed.
- A kill or a reboot between truncating and writing the backup leaves an empty
  one for good.
- A `Check` that cannot read what it compares mostly answers `unchanged`; an
  unreadable fstab counts as one without swap.  Exit code 0 then says nothing
  about that resource.
- Two overlapping runs may overwrite each other's entry in fstab.
- The first `apply` that enlarges the rings may undo its own interrupt spreading,
  since `irq-affinity` comes before `nic-tuning`: `IrqsSpread` and
  `SettledRunUnchanged` need two clean applies first, while the repository's
  README (137-138) expects the second to report `unchanged`.  This is the
  ordering fault of `kernel_recheck` once more.
- `NumCPUs` is the instance type's default or a cached count, so on a host with
  fewer CPUs online `irq-affinity` fails, or masks drift, on every run
  (`FactsFit` is the properties' condition).
- An interrupt that goes away is passed over by `Check` and fails `Apply`.

Read but not about a property: `limits.nproc` is parsed and goes nowhere
(`config.go:43`); `IsAmazonLinux2` also matches version 2023 and
is not used (`distro.go:19`).

## Proofs

TLAPS proves the following for every value of the constants, bounds included.
The assumptions are the named `ASSUME`s of the modules, nothing else.

| Module | Theorems |
|---|---|
| `EngineProofs` | `TypeCorrect`, `ExitZeroTheorem`, `ReportedTheorem`, `PermittedTheorem` |
| `KernelStateProofs` | `TypeCorrect`, `ConvergeTheorem`, `SurvivesRebootTheorem` |
| `AtomicFileProofs` | `TypeCorrect`, `TornTheorem`, `NoTempTheorem`, `RegisterTheorem` (`Spec => Register!Spec`) |
| `SwapFstabProofs` | `TypeCorrect`, `OneBpfLineTheorem`, `UntouchedTheorem`, `BackupFirstTheorem`, `LinesKeptTheorem`, `AppliedTheorem`, `SurvivesTheorem` |
| `FactsProofs` | `TypeCorrect`, `NoForeignTheorem`, `DegradedTheorem`, `StaleTheorem` |
| `TuningProofs` | `TypeCorrect`, `ThresholdsTheorem`, `GrowsTheorem`, `TouchesOnlyTheorem` |
| `TuningRunProofs` | `CauseTheorem`, `TunesTheorem`, `SpreadTheorem`, `UnchangedTheorem` |

**Engine.**  Neither exit property is inductive, since they only
speak of finished runs.  The invariant `IInv` says what is true in the middle:
the positions done and to do partition the selected ones, in list order; a
result that is neither failed nor pending was settled when it was recorded and
still is, or its resource is excused: in `disturbed` or `unread`, or upset by a
later Apply of the same run, which then has the result `changed`; exit code 0 was
computed from the results of all selected positions.  `OnlyPermittedChanges` needs from it only
that a process in `apply` is in apply mode and that its next position is
selected.

**KernelState.**  `HistoryInv` says what an undisturbed apply that exited 0 has
left: the drop-ins hold what the profile asks for and the listed modules are in
the kernel, after two of them the keys too.  `ProgressInv` says it of a run in
the middle: the keys and modules it has passed are as wanted, and a resource with
a verdict other than failed is done.  A key is passed over only while its module
is out, and after one clean run the modules are in, so the second run's verdict
on the keys stands.

**AtomicFile.**  The invariant ties `tmp[p]` to `pc[p]`: a process
about to rename has its whole content in its temporary file, a call that is past
its deferred remove has none unless it is in `leaked`, and the file holds part of
a content only while `lost`.

**SwapFstab.**  `FilesInv` is about what processes hold between reading and
replacing fstab: an fstab a process has read without seeing a backup, or is
backing up, is one no run has changed, or a backup exists already, or a `Stat`
failed (`blind`); it has at
most one bpffs entry, and none if the process is about to add one; its operator
lines are the file's unless an edit came in between.  `DoneInv` follows one run through its
two resources, `PersistInv` says what fstab holds once a run has exited 0.

**Facts.**  The invariant is about the
cache and about processes in the middle of `Gather`: what parses was exact when
it was saved; if it has this instance's id and yet another type, it is no newer
than the resize and no refreshing run has saved since; what a process is about
to save is about the present instance.

**Profile.**  Products of naturals are monotone, a clamp keeps order, and the
floor under the third threshold keeps the floors of the two lower ones from
crossing it; `BuildSysctls` and `BuildFields` say what the four layers make of
a key and of a field.  `ProfileInv`, the profile is `Build` of the inputs read,
carries these to every state.

**Tuning.**  `StateInv` types the state and ties what is being written to the
step, the interface and what the profile turns on, which is all
`TouchesOnlyItsOwn` needs.  `CauseInv` says that a failure so far has a cause and
that what is being written was there.  For the rest, a step `k` of a run (the
rings, or one kind of knob) is in tune when every file it lists holds what is
wanted.  The lemma `CheckFinds` shows that a `Check` answers drift exactly if
one of its resource's steps is out of tune; it rests on the mask lemmas (what
`cpumaskAll` renders, the kernel reads and prints and `parseCPUMaskBits` parses
is the same set, for any widths).  `ProgressInv` then says that the steps behind
a calm run are in tune, the interrupts only if an earlier clean run has dealt
with the rings, whose change resets them; `RingInv`, that the steps the ring
change can reset are still ahead of it; `SteadyInv`, that after a clean run all
but the interrupts stay in tune and after two nothing is left to do.
`SpreadTheorem` adds the counting: the ranks of the interrupts are the numbers
below their count, each once, and going back one turn maps the interrupts of one
CPU but its first into those of any other.

Attempts to prove corrected the model in three places. `BackupBeforeEdit`
excused a kill in the middle of `os.WriteFile` but not a reboot there. Two
`CASE` expressions had arms that overlap (`Tuning!Stored` for a drop-in that is
missing, `Engine!CheckStatus` for `kernel-modules` with nothing listed), which
TLC resolves by the first and TLA+ leaves open. `GrowsWithInstance` spoke of
keys the operator had set as well.

Only model-checked: `UnitSettles` (liveness under fairness is beyond the
prover), and the five violations.

## Not modelled

Decoding of YAML, scanning of `/proc`, `/sys` and command output, and wording of
reports are pure I/O and stay out; their outcomes are inputs or faults.  Of
`ethtool -g` only whether a ring is below its maximum is kept.  `distro.go` only
feeds the facts report.  That a queue without a steering file answers a write
with `ENOENT` is taken from the code.  `cgroup-v2` is a status in `Engine`.  CI
workflows are quoted, not modelled.

## Plan

Done: all modules of the table above, and theorems for every invariant and
action property a run checks.

1. A refinement between `Engine` and a resource's own module: that `Tuning`'s
   run of a resource is, seen from `Engine`, one Check and one Apply that leaves
   the host settled, mixed or as it was.
2. `SwapFstab`: `DoneSurvivesReboot` excuses every overlap of two runs; only one
   in which a run starts between another's read and replacement of fstab needs
   the excuse.
