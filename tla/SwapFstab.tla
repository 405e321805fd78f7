------------------------------ MODULE SwapFstab ------------------------------
(***************************************************************************)
(* The two resources that edit /etc/fstab: `swap` (internal/resource/       *)
(* swap.go) and `bpffs-mount` (mount.go), run in that order, with the one   *)
(* time backup both take through BackupFile (internal/sysutil/atomic.go),   *)
(* the swap units systemd knows, and what a boot makes of it all.           *)
(*                                                                          *)
(* Each process reads fstab, backs it up and replaces it in separate steps, *)
(* and nothing locks the file: runs overlap, operators edit, a process may  *)
(* be killed anywhere.  Replacing the file is one step (AtomicFile shows    *)
(* why); writing the backup is two, because os.WriteFile truncates first.   *)
(*                                                                          *)
(* fstab is abstracted to what the code tells apart: whether it has an      *)
(* active swap entry or a commented one, how many entries name the bpffs    *)
(* mount point, and which other lines operators keep in it.                 *)
(***************************************************************************)
EXTENDS Resource, Sequences

CONSTANTS
    Procs,        \* processes running the command
    Lines,        \* other lines operators may keep in fstab
    FstabUnit,    \* the swap unit systemd generates from the fstab entry
    NativeUnits,  \* swap units with unit files of their own
    MaxFaults, MaxEdits, MaxReboots, MaxRuns  \* bounds

Units == {FstabUnit} \cup NativeUnits

ASSUME UnitsAssumption == FstabUnit \notin NativeUnits
ASSUME FstabBounds == {MaxFaults, MaxEdits, MaxReboots, MaxRuns} \subseteq Nat

\* touched marks an existing file this tool has changed (history, for the
\* properties); one the tool created has no original to keep
Content == [exists : BOOLEAN, swap : {"none", "active", "disabled"},
            bpf : Nat, lines : SUBSET Lines, touched : BOOLEAN]
NoFstab == [exists |-> FALSE, swap |-> "none", bpf |-> 0, lines |-> {},
            touched |-> FALSE]

\* The backup: whether the file is there, whether it was written in full, and
\* the content it got (or was to get)
NoBackup == [there |-> FALSE, whole |-> FALSE, of |-> NoFstab]

VARIABLES
    fstab,       \* /etc/fstab
    backup,      \* /etc/fstab.node-configurator.orig
    swapDevs,    \* units whose device is in /proc/swaps
    listed,      \* units systemctl list-units still shows
    masked,      \* units masked in /etc/systemd/system
    mounted,     \* bpffs is mounted at /sys/fs/bpf
    pc, buf, data, units, results, \* per process: where, fstab as read, bytes
                                   \* to back up, units to mask, results
    calm,        \* history: no operator edited fstab since p began
    raced,       \* history: an operator edited fstab while some run was going on
    clean,       \* history: an apply exited 0 and nothing happened since
    booted,      \* history: only reboots happened since such an apply
    blind,       \* history: a Stat of a backup that exists failed
    cut,         \* history: the write of the backup was cut short
    blurred,     \* history: two runs overlapped, or swap's Check misread fstab
    faults, edits, reboots, runs

host   == << swapDevs, listed, masked, mounted >>
run    == << pc, buf, data, units, results >>
past   == << calm, raced, clean, booted, blind, cut, blurred >>
counts == << faults, edits, reboots, runs >>
vars   == << fstab, backup, host, run, past, counts >>

-----------------------------------------------------------------------------
(* Reading and rewriting fstab.                                             *)

FstabHasActiveSwapLines(c) == c.swap = "active"
FstabLineExists(c) == c.bpf > 0

\* Mutant: only the lines the tool knows are written back
CommentedOnly(c) == [c EXCEPT !.swap = "disabled", !.touched = TRUE, !.lines = {}]

\* commentFstabSwapLines: prefix the swap entries with a comment
Commented(c) == [c EXCEPT !.swap = "disabled", !.touched = TRUE]

\* persistFstab: append the bpffs entry, creating the file if need be
WithBpf(c) == [c EXCEPT !.exists = TRUE, !.bpf = @ + 1, !.touched = c.exists]

\* Mutants: the live state only, the persisted state only
SwapDriftLive(c, us) == swapDevs # {} \/ us # {}
SwapDriftFstab(c, us) == FstabHasActiveSwapLines(c)

\* Drift, given what was read of fstab and what systemctl answered
SwapDrift(c, us) == swapDevs # {} \/ FstabHasActiveSwapLines(c) \/ us # {}
MountDrift(c) == ~mounted \/ ~FstabLineExists(c)

-----------------------------------------------------------------------------
Init ==
    /\ fstab \in [exists : {TRUE}, swap : {"none", "active"}, bpf : 0 .. 1,
                  lines : SUBSET Lines, touched : {FALSE}] \cup {NoFstab}
    /\ backup = NoBackup
    /\ masked = {}
    /\ swapDevs = {u \in Units : u = FstabUnit => fstab.swap = "active"}
    /\ listed = swapDevs
    /\ mounted \in BOOLEAN
    /\ pc = [p \in Procs |-> "idle"]
    /\ buf = [p \in Procs |-> NoFstab] /\ data = [p \in Procs |-> NoFstab]
    /\ units = [p \in Procs |-> {}] /\ results = [p \in Procs |-> << >>]
    /\ calm = [p \in Procs |-> FALSE] /\ raced = FALSE /\ clean = FALSE
    /\ booted = FALSE /\ blind = FALSE /\ cut = FALSE /\ blurred = FALSE
    /\ faults = 0 /\ edits = 0 /\ reboots = 0 /\ runs = 0

Goto(p, l)   == pc' = [pc EXCEPT ![p] = l]
Report(p, s) == results' = [results EXCEPT ![p] = Append(@, s)]
Fault        == faults < MaxFaults /\ faults' = faults + 1
InSwap(p)    == results[p] = << >>
NextResource(p) == IF InSwap(p) THEN "mount-check" ELSE "report"

\* The resource p is at fails, and the engine goes on with the next
Failed(p) == Fault /\ Report(p, StatusFailed) /\ Goto(p, NextResource(p))

Begin(p) ==
    /\ pc[p] = "idle"
    /\ runs < MaxRuns /\ runs' = runs + 1
    /\ Goto(p, "swap-check")
    /\ results' = [results EXCEPT ![p] = << >>]
    /\ calm' = [calm EXCEPT ![p] = TRUE]
    /\ blurred' = (blurred \/ \E q \in Procs : pc[q] # "idle")
    /\ UNCHANGED << fstab, backup, host, buf, data, units, raced, clean, booted,
                    blind, cut, faults, edits, reboots >>

\* engine.Run on what a Check found
Act(p, drift, apply) ==
    IF drift THEN Goto(p, apply) /\ UNCHANGED results
    ELSE Report(p, StatusUnchanged) /\ Goto(p, NextResource(p))

\* SwapResource.Check: without /proc/swaps it fails; if systemctl cannot be
\* asked there are no units, and an fstab that cannot be read has no entries
SwapCheck(p) ==
    /\ pc[p] = "swap-check"
    /\ \/ /\ Act(p, SwapDrift(fstab, listed), "swap-off")
          /\ UNCHANGED << faults, blurred >>
       \/ Act(p, SwapDrift(fstab, {}), "swap-off") /\ Fault /\ UNCHANGED blurred
       \/ Act(p, SwapDrift(NoFstab, listed), "swap-off") /\ Fault /\ blurred' = TRUE
       \/ Failed(p) /\ UNCHANGED blurred
    /\ UNCHANGED << fstab, backup, host, buf, data, units, calm, raced, clean, booted,
                    blind, cut, edits, reboots, runs >>

\* SwapResource.Apply: swapoff -a, if /proc/swaps can be read and lists a device.
\* Cut off after 15 s by the runner, it has taken off some of them.
SwapOff(p) ==
    /\ pc[p] = "swap-off"
    /\ \/ swapDevs' = {} /\ Goto(p, "swap-read") /\ UNCHANGED << results, faults >>
       \/ Failed(p) /\ swapDevs' \in SUBSET swapDevs
    /\ UNCHANGED << fstab, backup, listed, masked, mounted, buf, data, units, past,
                    edits, reboots, runs >>

\* Mutant: the swap entries are commented out without a backup
SwapReadNoBackup(p) ==
    /\ pc[p] = "swap-read"
    /\ buf' = [buf EXCEPT ![p] = fstab]
    /\ Goto(p, IF FstabHasActiveSwapLines(fstab) THEN "swap-write" ELSE "swap-units")
    /\ UNCHANGED << fstab, backup, host, data, units, results, past, counts >>

\* commentFstabSwapLines reads fstab; nothing to comment, nothing to back up
SwapReadFstab(p) ==
    /\ pc[p] = "swap-read"
    /\ \/ /\ buf' = [buf EXCEPT ![p] = fstab]
          /\ Goto(p, IF FstabHasActiveSwapLines(fstab) THEN "backup-read" ELSE "swap-units")
          /\ UNCHANGED << results, faults >>
       \/ Failed(p) /\ UNCHANGED buf
    /\ UNCHANGED << fstab, backup, host, data, units, past, edits, reboots, runs >>

SwapWriteFstab(p) ==
    /\ pc[p] = "swap-write"
    /\ \/ fstab' = Commented(buf[p]) /\ Goto(p, "swap-units")
          /\ UNCHANGED << results, faults >>
       \/ Failed(p) /\ UNCHANGED fstab
    /\ UNCHANGED << backup, host, buf, data, units, past, edits, reboots, runs >>

\* activeSwapUnits, asked after swapoff; an error means no units
SwapListUnits(p) ==
    /\ pc[p] = "swap-units"
    /\ \/ units' = [units EXCEPT ![p] = listed] /\ UNCHANGED faults
       \/ units' = [units EXCEPT ![p] = {}] /\ Fault
    /\ Goto(p, "swap-mask")
    /\ UNCHANGED << fstab, backup, host, buf, data, results, past, edits, reboots, runs >>

\* systemctl mask, unit by unit; a call that fails may have had its effect
SwapMask(p) ==
    /\ pc[p] = "swap-mask"
    /\ \/ /\ units[p] # {}
          /\ \E u \in units[p] : /\ masked' = masked \cup {u}
                                 /\ units' = [units EXCEPT ![p] = @ \ {u}]
          /\ UNCHANGED << pc, results, faults >>
       \/ /\ units[p] # {} /\ Failed(p) /\ UNCHANGED units
          /\ masked' \in {masked} \cup {masked \cup {u} : u \in units[p]}
       \/ /\ units[p] = {}
          /\ Report(p, StatusChanged) /\ Goto(p, "mount-check")
          /\ UNCHANGED << masked, units, faults >>
    /\ UNCHANGED << fstab, backup, swapDevs, listed, mounted, buf, data, past,
                    edits, reboots, runs >>

-----------------------------------------------------------------------------
(* BackupFile, shared by both resources.                                    *)

BackupRead(p) ==
    /\ pc[p] = "backup-read"
    /\ \/ /\ data' = [data EXCEPT ![p] = fstab]
          /\ Goto(p, IF fstab.exists THEN "backup-stat"
                     ELSE IF InSwap(p) THEN "swap-write" ELSE "mount-write")
          /\ UNCHANGED << results, faults >>
       \/ Failed(p) /\ UNCHANGED data
    /\ UNCHANGED << fstab, backup, host, buf, units, past, edits, reboots, runs >>

\* Mutant: the backup is refreshed every time
StatIgnored(p) ==
    /\ pc[p] = "backup-stat"
    /\ Goto(p, "backup-open")
    /\ UNCHANGED << fstab, backup, host, buf, data, units, results, past, counts >>

\* os.Stat: one backup is enough.  Any error counts as "no backup yet", so a
\* Stat that fails on a backup that exists leads on to overwriting it.
BackupStat(p) ==
    /\ pc[p] = "backup-stat"
    /\ \/ /\ Goto(p, IF ~backup.there THEN "backup-open"
                     ELSE IF InSwap(p) THEN "swap-write" ELSE "mount-write")
          /\ UNCHANGED << blind, faults >>
       \/ /\ backup.there /\ Fault
          /\ Goto(p, "backup-open") /\ blind' = TRUE
    /\ UNCHANGED << fstab, backup, host, buf, data, units, results, calm, raced,
                    clean, booted, cut, blurred, edits, reboots, runs >>

\* os.WriteFile: open with O_CREATE and O_TRUNC ...
BackupOpen(p) ==
    /\ pc[p] = "backup-open"
    /\ \/ /\ backup' = [there |-> TRUE, whole |-> FALSE, of |-> data[p]]
          /\ Goto(p, "backup-write") /\ UNCHANGED << results, faults >>
       \/ Failed(p) /\ UNCHANGED backup
    /\ UNCHANGED << fstab, host, buf, data, units, past, edits, reboots, runs >>

\* ... then write
BackupWrite(p) ==
    /\ pc[p] = "backup-write"
    /\ \/ /\ backup' = [there |-> TRUE, whole |-> TRUE, of |-> data[p]]
          /\ Goto(p, IF InSwap(p) THEN "swap-write" ELSE "mount-write")
          /\ UNCHANGED << results, faults, cut >>
       \/ Failed(p) /\ cut' = TRUE /\ UNCHANGED backup
    /\ UNCHANGED << fstab, host, buf, data, units, calm, raced, clean, booted, blind,
                    blurred, edits, reboots, runs >>

-----------------------------------------------------------------------------
(* MountResource.                                                           *)

\* Mutant: the drift found is reported as well as what Apply made of it
MountCheckReports(p) ==
    /\ pc[p] = "mount-check"
    /\ Goto(p, "mount-mount") /\ Report(p, StatusWouldChange) /\ UNCHANGED faults
    /\ UNCHANGED << fstab, backup, host, buf, data, units, past, edits, reboots, runs >>

\* Check: without /proc/mounts it fails, an fstab that cannot be read lacks
\* the entry
MountCheck(p) ==
    /\ pc[p] = "mount-check"
    /\ \/ Act(p, MountDrift(fstab), "mount-mount") /\ UNCHANGED faults
       \/ Act(p, MountDrift(NoFstab), "mount-mount") /\ Fault
       \/ Failed(p)
    /\ UNCHANGED << fstab, backup, host, buf, data, units, past, edits, reboots, runs >>

\* Apply: mkdir and mount, unless /proc/mounts has it; a mount that fails may
\* have had its effect
MountMount(p) ==
    /\ pc[p] = "mount-mount"
    /\ \/ mounted' = TRUE /\ Goto(p, "mount-read") /\ UNCHANGED << results, faults >>
       \/ Failed(p) /\ mounted' \in {mounted, TRUE}
    /\ UNCHANGED << fstab, backup, swapDevs, listed, masked, buf, data, units, past,
                    edits, reboots, runs >>

\* Mutant: the entry is appended without looking for it
MountReadNoLook(p) ==
    /\ pc[p] = "mount-read"
    /\ buf' = [buf EXCEPT ![p] = fstab]
    /\ Goto(p, "backup-read")
    /\ UNCHANGED << fstab, backup, host, data, units, results, past, counts >>

\* persistFstab reads fstab; an entry that is already there is enough
MountReadFstab(p) ==
    /\ pc[p] = "mount-read"
    /\ \/ /\ buf' = [buf EXCEPT ![p] = fstab]
          /\ IF FstabLineExists(fstab)
             THEN Report(p, StatusChanged) /\ Goto(p, "report")
             ELSE Goto(p, "backup-read") /\ UNCHANGED results
          /\ UNCHANGED faults
       \/ Failed(p) /\ UNCHANGED buf
    /\ UNCHANGED << fstab, backup, host, data, units, past, edits, reboots, runs >>

MountWriteFstab(p) ==
    /\ pc[p] = "mount-write"
    /\ \/ fstab' = WithBpf(buf[p]) /\ Report(p, StatusChanged) /\ Goto(p, "report")
          /\ UNCHANGED faults
       \/ Failed(p) /\ UNCHANGED fstab
    /\ UNCHANGED << backup, host, buf, data, units, past, edits, reboots, runs >>

Finish(p) ==
    /\ pc[p] = "report"
    /\ Goto(p, "idle")
    /\ clean' = (ExitCode(results[p], ModeApply) = 0 /\ calm[p])
    /\ booted' = FALSE
    /\ UNCHANGED << fstab, backup, host, buf, data, units, results, calm, raced,
                    blind, cut, blurred, counts >>

-----------------------------------------------------------------------------
(* The environment.                                                         *)

\* A killed process leaves the files as they are
Kill(p) ==
    /\ pc[p] # "idle" /\ Fault
    /\ Goto(p, "idle") /\ clean' = FALSE /\ booted' = FALSE
    /\ cut' = (cut \/ pc[p] = "backup-write")
    /\ UNCHANGED << fstab, backup, host, buf, data, units, results, calm, raced,
                    blind, blurred, edits, reboots, runs >>

\* systemd sees that the device is gone, some time after swapoff
SystemdNotices ==
    /\ listed # swapDevs /\ listed' = swapDevs
    /\ UNCHANGED << fstab, backup, swapDevs, masked, mounted, run, past, counts >>

\* An operator adds or removes a line, or puts a swap entry in again
OperatorEdits ==
    /\ fstab.exists
    /\ edits < MaxEdits /\ edits' = edits + 1
    /\ \/ \E l \in Lines : fstab' = [fstab EXCEPT !.lines =
                                       IF l \in @ THEN @ \ {l} ELSE @ \cup {l}]
       \/ fstab.swap # "active" /\ fstab' = [fstab EXCEPT !.swap = "active"]
    /\ calm' = [p \in Procs |-> FALSE] /\ clean' = FALSE /\ booted' = FALSE
    /\ raced' = (raced \/ \E p \in Procs : pc[p] # "idle")
    /\ UNCHANGED << backup, host, run, blind, cut, blurred, faults, reboots, runs >>

\* Boot: systemd activates the units that are neither masked nor gone and
\* mounts what fstab lists
Reboot ==
    /\ reboots < MaxReboots /\ reboots' = reboots + 1
    /\ pc' = [p \in Procs |-> "idle"]
    /\ swapDevs' = {u \in Units \ masked : u = FstabUnit => fstab.swap = "active"}
    /\ listed' = swapDevs'
    /\ mounted' = FstabLineExists(fstab)
    /\ booted' = (clean \/ booted) /\ clean' = FALSE
    /\ cut' = (cut \/ \E p \in Procs : pc[p] = "backup-write")
    /\ UNCHANGED << fstab, backup, masked, buf, data, units, results, calm, raced,
                    blind, blurred, faults, edits, runs >>

Step(p) ==
    \/ Begin(p) \/ SwapCheck(p) \/ SwapOff(p) \/ SwapReadFstab(p)
    \/ SwapWriteFstab(p) \/ SwapListUnits(p) \/ SwapMask(p)
    \/ BackupRead(p) \/ BackupStat(p) \/ BackupOpen(p) \/ BackupWrite(p)
    \/ MountCheck(p) \/ MountMount(p) \/ MountReadFstab(p) \/ MountWriteFstab(p)
    \/ Finish(p)

Next == \/ \E p \in Procs : Step(p) \/ Kill(p)
        \/ SystemdNotices \/ OperatorEdits \/ Reboot

Spec == Init /\ [][Next]_vars

-----------------------------------------------------------------------------
TypeOK ==
    /\ fstab \in Content
    /\ backup \in [there : BOOLEAN, whole : BOOLEAN, of : Content]
    /\ swapDevs \subseteq Units /\ listed \subseteq Units /\ masked \subseteq Units
    /\ mounted \in BOOLEAN
    /\ buf \in [Procs -> Content] /\ data \in [Procs -> Content]
    /\ units \in [Procs -> SUBSET Units]
    /\ \A p \in Procs : results[p] \in Seq(Status) /\ Len(results[p]) <= 2
    /\ calm \in [Procs -> BOOLEAN] /\ raced \in BOOLEAN
    /\ clean \in BOOLEAN /\ booted \in BOOLEAN
    /\ blind \in BOOLEAN /\ cut \in BOOLEAN /\ blurred \in BOOLEAN

\* However many runs overlap, are killed or follow each other, fstab never
\* gets a second entry for the bpffs mount point.
AtMostOneBpfLine == fstab.bpf <= 1

\* The backup never holds an fstab this tool has already changed: overlapping
\* runs, whose backup steps interleave with each other's edits, killed and
\* failed ones included.  The one exception is a backup a run could not stat,
\* which BackupFile takes for missing and overwrites.
BackupIsUntouched == backup.of.touched => blind

\* No run changes an operator's fstab before a backup exists, and the backup
\* is complete, or about to be (a run that finds another's half-written backup
\* goes on), unless the very write of it was cut short, by an error, a kill or
\* a reboot: os.WriteFile truncates first, and a backup cut short there is
\* taken for a finished one from then on.
BackupBeforeEdit ==
    fstab.touched => /\ backup.there
                     /\ \/ backup.whole \/ cut
                        \/ \E p \in Procs : pc[p] = "backup-write"

\* The lines operators keep in fstab are changed by operators only: whatever
\* runs overlap, fail or are killed, none loses or brings back a line, unless
\* an operator edited the file in the middle of a run.
OperatorLinesKept ==
    [][fstab'.lines # fstab.lines /\ ~raced => edits' # edits]_vars

\* After an apply that exited 0, whatever half-done state failed and killed
\* runs had left to it, swap is off and bpffs is mounted, until something else
\* happens.
AppliedMeansDone == clean => swapDevs = {} /\ mounted

\* README: desired state "survives reboots independent of whether this tool's
\* own unit runs again".  After such an apply, whatever killed and failed runs
\* came before it, and any number of reboots nothing in fstab has brought swap
\* back, and its entry has mounted bpffs.  Two things void it: a run that
\* overlaps another may write back an fstab read before the other's entry, and
\* a Check that cannot read fstab takes it for one without swap.
DoneSurvivesReboot ==
    booted /\ ~blurred => FstabUnit \notin swapDevs /\ mounted

\* swap.go: the resource "masks any discovered systemd .swap units so they
\* can't turn it back on at the next boot".
SwapStaysOffAtBoot == booted => swapDevs = {}
=============================================================================
