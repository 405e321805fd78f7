------------------------------- MODULE Engine -------------------------------
(***************************************************************************)
(* Invocations of the node-configurator command on one host: the            *)
(* subcommand dispatch of cmd/node-configurator/main.go, the resource list  *)
(* and the Check/Apply loop of internal/engine/engine.go, the exit code of  *)
(* report.go, and the oneshot systemd unit that runs `apply` at boot and    *)
(* restarts it on failure (systemd/node-configurator.service).              *)
(*                                                                          *)
(* Several processes run at once: nothing in the code takes a lock, so the  *)
(* unit's `apply` may overlap with an operator's `apply` or `check`.        *)
(*                                                                          *)
(* A resource is abstracted to one value: host[r] is the live setting of    *)
(* resource r, a profile says which setting it wants, and r has drifted for *)
(* an invocation when the two differ.  Two invocations may want different   *)
(* settings, since the profile is computed from facts that degrade to local *)
(* ones when IMDS or the EC2 API is unreachable.  Apply is one step here;   *)
(* KernelState, SwapFstab, Tuning and AtomicFile open it up.  Resources are *)
(* not independent: an Apply may upset one the same run has judged already  *)
(* (SideEffects), and not every read error is an error (ReadErrorStatus).   *)
(***************************************************************************)
EXTENDS Resource, FiniteSets, Sequences

CONSTANTS
    Procs,        \* processes that may run the command at the same time
    UnitProc,     \* the process systemd starts for node-configurator.service
    Settings,     \* the settings a resource may be found in
    Factory,      \* the setting a sysfs knob has after a boot
    Profiles,     \* the profiles facts and config may resolve to
    Configs,      \* config files the operator may have written
    CliArgs,      \* command lines operators use
    InitHosts,    \* host states the machine may start from
    Disturbable,  \* resources someone else may change while we run
    MaxFaults,    \* bound: failing syscalls, kills and timeouts
    MaxDisturbs,  \* bound: changes made by someone else
    MaxCliRuns,   \* bound: invocations by operators
    MaxReboots    \* bound: reboots

SystemdLimitServices == << "systemd-limits-containerd",
                           "systemd-limits-kubelet", "systemd-limits-cilium" >>

Names == { "sysctl", "kernel-modules", "swap", "cgroup-v2", "bpffs-mount",
           "limits-conf", "systemd-limits-containerd",
           "systemd-limits-kubelet", "systemd-limits-cilium",
           "irq-affinity", "nic-tuning", "cpu-governor", "io-scheduler" }

\* The knobs that exist only where the hardware or the platform has them, and
\* that nothing on disk restores after a reboot
Hardware == { "irq-affinity", "nic-tuning", "cpu-governor", "io-scheduler" }

Mixed       == "mixed"        \* part of it is as wanted, part is not
Absent      == "absent"       \* the host has no such knob
NeedsReboot == "needs_reboot" \* only a reboot can change it
HostVals    == Settings \cup {Mixed, Absent, NeedsReboot}

Commands == {"apply", "check", "facts", "profile", "version", "usage"}
Args     == [cmd : Commands, only : SUBSET Names, skip : SUBSET Names]
UnitArgs == [cmd |-> "apply", only |-> {}, skip |-> {}]

\* parses is FALSE when config.Load returns an error
ConfigType  == [parses : BOOLEAN, dryRun : BOOLEAN, json : BOOLEAN,
                disable : SUBSET Names]
ProfileType == [mounts : {<<>>, <<"bpffs-mount">>}, modules : BOOLEAN,
                noFile : BOOLEAN, irq : BOOLEAN, nic : BOOLEAN,
                governor : BOOLEAN, ioScheduler : BOOLEAN,
                want : [Names -> Settings]]

ASSUME ProcsAssumption == UnitProc \in Procs
ASSUME SettingsAssumption ==
    /\ Factory \in Settings
    /\ {Mixed, Absent, NeedsReboot} \cap Settings = {}
ASSUME InputsAssumption ==
    /\ Profiles \subseteq ProfileType /\ Profiles # {}
    /\ Configs \subseteq ConfigType /\ \E c \in Configs : c.parses
    /\ CliArgs \subseteq Args
    /\ InitHosts \subseteq [Names -> HostVals]
    /\ Disturbable \subseteq Names
ASSUME BoundsAssumption ==
    {MaxFaults, MaxDisturbs, MaxCliRuns, MaxReboots} \subseteq Nat

VARIABLES
    host,      \* host[r]: the live setting of resource r
    config,    \* /etc/node-configurator/config.yaml
    pc,        \* pc[p]: where process p is
    args,      \* args[p]: its command line
    loaded,    \* loaded[p]: [cfg, prof] once config and facts are read
    todo,      \* todo[p]: positions of Build's list still to be run
    results,   \* results[p]: the Result statuses so far, by position
    exit,      \* exit[p]: its exit code
    unit,      \* systemd's view of node-configurator.service
    disturbed, \* history: resources another actor changed after p's verdict
    unread,    \* history: resources p judged or applied past a read error
    faults, disturbs, cliRuns, reboots  \* counters for the bounds

vars == << host, config, pc, args, loaded, todo, results, exit, unit,
           disturbed, unread, faults, disturbs, cliRuns, reboots >>
bounds == << faults, disturbs, cliRuns, reboots >>

Running   == {"load", "encode", "summary", "check", "apply"}
PCs       == {"idle", "exited"} \cup Running
UnitState == {"inactive", "activating", "active", "auto-restart"}
NoExit    == -1

\* A placeholder until a process has loaded its inputs
NotLoaded == [cfg |-> CHOOSE c \in Configs : TRUE,
              prof |-> CHOOSE f \in Profiles : TRUE]

-----------------------------------------------------------------------------
(* engine.Build and filterResources.                                        *)

When(b, s) == IF b THEN s ELSE << >>

Build(f) ==
    << "sysctl", "kernel-modules", "swap", "cgroup-v2" >>
      \o f.mounts
      \o When(f.noFile, << "limits-conf" >> \o SystemdLimitServices)
      \o When(f.irq, << "irq-affinity" >>)
      \o When(f.nic, << "nic-tuning" >>)
      \o When(f.governor, << "cpu-governor" >>)
      \o When(f.ioScheduler, << "io-scheduler" >>)

\* Positions of Build(f) that survive the filter.  Exclusion wins over -only.
FilterResources(f, disable, a) ==
    {i \in DOMAIN Build(f) :
        /\ Build(f)[i] \notin disable \cup a.skip
        /\ a.only # {} => Build(f)[i] \in a.only}

-----------------------------------------------------------------------------
(* What an invocation has decided.                                          *)

ProfOf(p)     == loaded[p].prof
ResourceAt(p, i) == Build(ProfOf(p))[i]
Selected(p)   == FilterResources(ProfOf(p), loaded[p].cfg.disable, args[p])

\* Mutant: dryRun is not consulted
IgnoreDryRun(p) == IF args[p].cmd = "check" THEN ModeCheck ELSE ModeApply

\* cfg.DryRun downgrades apply to check mode
ModeOf(p) == IF args[p].cmd = "check" \/ loaded[p].cfg.dryRun
             THEN ModeCheck ELSE ModeApply

\* The status a Check that does not fail returns for resource r
CheckStatus(r, f) ==
    IF r = "kernel-modules" /\ ~f.modules THEN StatusSkipped
    ELSE CASE host[r] = NeedsReboot -> StatusRebootRequired
           [] host[r] = Absent      -> StatusSkipped
           [] host[r] = f.want[r]   -> StatusUnchanged
           [] OTHER                 -> StatusWouldChange

\* What Check may answer when a read it makes fails.  Only some errors are
\* returned; an IRQ, queue, governor, scheduler, fstab or sysctl key that
\* cannot be read counts as not drifted, a missing interface or governor as
\* nothing to do, and a drop-in or fstab that cannot be read as out of date.
ReadErrorStatus(r) ==
    CASE r = "sysctl"         -> {StatusFailed, StatusUnchanged, StatusWouldChange}
      [] r \in {"kernel-modules", "bpffs-mount"}
                              -> {StatusFailed, StatusWouldChange}
      [] r \in {"swap", "io-scheduler"} -> {StatusFailed, StatusUnchanged}
      [] r = "irq-affinity"   -> {StatusFailed, StatusUnchanged, StatusSkipped}
      [] r \in {"nic-tuning", "cpu-governor"} -> {StatusUnchanged, StatusSkipped}
      [] r = "cgroup-v2"      -> {StatusRebootRequired}
      [] OTHER                -> {StatusWouldChange}

\* The resources whose Apply passes over what it cannot read and succeeds: a
\* sysctl key, the list of swap units, the ring sizes, a device's scheduler
Lenient == {"sysctl", "swap", "nic-tuning", "io-scheduler"}

\* What the Apply of r may upset besides r: a module brings sysctl keys with
\* the kernel's defaults, and `ethtool -G` sets the queue interrupts up anew
SideEffects(r) ==
    CASE r = "kernel-modules" -> {"sysctl"}
      [] r = "nic-tuning"     -> {"irq-affinity"}
      [] OTHER                -> {}

Upset(x) == IF x = "sysctl" THEN Mixed ELSE Factory

\* The host after an Apply of r that left r at v
Aftermath(r, v) ==
    LET upset == {x \in SideEffects(r) : /\ host[x] # Absent
                                         /\ v # host[r] \/ v = Mixed}
    IN  {[host EXCEPT ![r] = v]}
          \cup {[host EXCEPT ![r] = v, ![x] = Upset(x)] : x \in upset}

\* What a whole Apply makes of r, and what one that stopped or skipped
\* something may; a knob that is gone by now stays gone
Applied(r, f) == IF host[r] = Absent THEN Absent ELSE f.want[r]
Partly(r, f)  == IF host[r] = Absent THEN {Absent}
                 ELSE {host[r], f.want[r], Mixed}

\* Nothing Apply would have to do
Settled(r, f) == CheckStatus(r, f) # StatusWouldChange

Unfinished(p) == todo[p] # {}
IsNext(p, i)  == i \in todo[p] /\ \A j \in todo[p] : i <= j

Fault == faults < MaxFaults /\ faults' = faults + 1
NoFault == UNCHANGED faults

-----------------------------------------------------------------------------
Init ==
    /\ host \in InitHosts
    /\ config \in Configs
    /\ pc = [p \in Procs |-> "idle"]
    /\ args = [p \in Procs |-> UnitArgs]
    /\ loaded = [p \in Procs |-> NotLoaded]
    /\ todo = [p \in Procs |-> {}]
    /\ results = [p \in Procs |-> << >>]
    /\ exit = [p \in Procs |-> NoExit]
    /\ unit = "inactive"
    /\ disturbed = [p \in Procs |-> {}]
    /\ unread = [p \in Procs |-> {}]
    /\ faults = 0 /\ disturbs = 0 /\ cliRuns = 0 /\ reboots = 0

\* The process ends with the given code; systemd reads the unit's
Exit(p, code) ==
    /\ pc' = [pc EXCEPT ![p] = "exited"]
    /\ exit' = [exit EXCEPT ![p] = code]
    /\ unit' = IF p # UnitProc THEN unit
               ELSE IF code = 0 THEN "active" ELSE "auto-restart"

Goto(p, l) == pc' = [pc EXCEPT ![p] = l] /\ UNCHANGED << exit, unit >>

\* main.run: a new process with its command line
Start(p, a) ==
    /\ pc[p] \in {"idle", "exited"}
    /\ pc' = [pc EXCEPT ![p] = "load"]
    /\ args' = [args EXCEPT ![p] = a]
    /\ todo' = [todo EXCEPT ![p] = {}]
    /\ results' = [results EXCEPT ![p] = << >>]
    /\ exit' = [exit EXCEPT ![p] = NoExit]
    /\ disturbed' = [disturbed EXCEPT ![p] = {}]
    /\ unread' = [unread EXCEPT ![p] = {}]
    /\ UNCHANGED << host, config, loaded, faults, disturbs, reboots >>

\* systemd starts the unit at boot, and again RestartSec after a failure
StartUnit ==
    /\ unit \in {"inactive", "auto-restart"}
    /\ unit' = "activating"
    /\ Start(UnitProc, UnitArgs)
    /\ UNCHANGED cliRuns

\* An operator runs the command by hand
StartCli(p) ==
    /\ p # UnitProc
    /\ cliRuns < MaxCliRuns /\ cliRuns' = cliRuns + 1
    /\ \E a \in CliArgs : Start(p, a)
    /\ UNCHANGED unit

\* The commands that read nothing: version and help answer 0, a command line
\* that does not parse answers 2
NoInputs(p) ==
    /\ pc[p] = "load"
    /\ args[p].cmd \in {"version", "usage"}
    /\ Exit(p, IF args[p].cmd = "usage" THEN 2 ELSE 0)
    /\ UNCHANGED << host, config, args, loaded, todo, results, disturbed, unread,
                    bounds >>

\* gatherAllAndBuild fails: config.Load returned an error
LoadFails(p) ==
    /\ pc[p] = "load"
    /\ args[p].cmd \notin {"version", "usage"}
    /\ ~config.parses
    /\ Exit(p, 1)
    /\ UNCHANGED << host, config, args, loaded, todo, results, disturbed, unread,
                    bounds >>

\* gatherAllAndBuild: config, then facts, which never fail.  The profile they
\* resolve to is any of Profiles.  The next stop depends on the command and,
\* for apply and check, on the log format.
Load(p) ==
    /\ pc[p] = "load"
    /\ args[p].cmd \notin {"version", "usage"}
    /\ config.parses
    /\ \E f \in Profiles :
         /\ loaded' = [loaded EXCEPT ![p] = [cfg |-> config, prof |-> f]]
         /\ IF args[p].cmd \in {"facts", "profile"}
            THEN Goto(p, "encode") /\ UNCHANGED todo
            ELSE /\ todo' = [todo EXCEPT ![p] =
                               FilterResources(f, config.disable, args[p])]
                 /\ Goto(p, IF config.json THEN "check" ELSE "summary")
    /\ UNCHANGED << host, config, args, results, disturbed, unread, bounds >>

\* encodeJSON, the whole work of facts and profile
EncodeJSON(p) ==
    /\ pc[p] = "encode"
    /\ \/ Exit(p, 0) /\ NoFault
       \/ Exit(p, 1) /\ Fault
    /\ UNCHANGED << host, config, args, loaded, todo, results, disturbed, unread,
                    disturbs, cliRuns, reboots >>

\* WriteFactsSummary, before any resource is evaluated
WriteFactsSummary(p) ==
    /\ pc[p] = "summary"
    /\ \/ Goto(p, "check") /\ NoFault
       \/ Exit(p, 1) /\ Fault
    /\ UNCHANGED << host, config, args, loaded, todo, results, disturbed, unread,
                    disturbs, cliRuns, reboots >>

-----------------------------------------------------------------------------
(* engine.Run: one Check, and one Apply if the mode and the status ask for  *)
(* it, per resource, in order.                                              *)

\* results = append(results, res)
Append1(p, i, s) ==
    results' = [results EXCEPT ![p] =
                  [j \in DOMAIN results[p] \cup {i} |->
                     IF j = i THEN s ELSE results[p][j]]]

\* The verdict on position i is recorded and the loop moves on
Record(p, i, s) ==
    /\ Append1(p, i, s)
    /\ todo' = [todo EXCEPT ![p] = @ \ {i}]
    /\ Goto(p, "check")

\* The history variable: what p's step on r changed disturbs the others
Verdict(p, r) ==
    LET altered == {x \in Names : host'[x] # host[x]}
    IN  disturbed' = [q \in Procs |-> IF q = p THEN disturbed[q] \ {r}
                                      ELSE disturbed[q] \cup altered]

PastError(p, r) == unread' = [unread EXCEPT ![p] = @ \cup {r}]

\* Mutant: a failing Check ends the loop
StopAtFailedCheck(p) ==
    /\ pc[p] = "check"
    /\ UNCHANGED << host, config, args, loaded, disturbs, cliRuns, reboots >>
    /\ \E i \in todo[p] :
         /\ IsNext(p, i)
         /\ LET r == ResourceAt(p, i)
                s == CheckStatus(r, ProfOf(p))
            IN  \/ /\ Append1(p, i, StatusFailed)
                   /\ todo' = [todo EXCEPT ![p] = {}]
                   /\ Goto(p, "check")
                   /\ Verdict(p, r)
                   /\ Fault /\ UNCHANGED unread
                \/ /\ NoFault /\ UNCHANGED unread
                   /\ IF ModeOf(p) = ModeApply /\ s = StatusWouldChange
                      THEN Goto(p, "apply")
                           /\ UNCHANGED << results, todo, disturbed >>
                      ELSE Record(p, i, s) /\ Verdict(p, r)

\* Check of the next resource.  A failing read may change its answer; an error
\* it returns is recorded and does not stop the loop.
CheckNext(p) ==
    /\ pc[p] = "check"
    /\ UNCHANGED << host, config, args, loaded, disturbs, cliRuns, reboots >>
    /\ \E i \in todo[p] : \E s \in Status :
         /\ IsNext(p, i)
         /\ LET r == ResourceAt(p, i)
            IN  /\ \/ /\ s = CheckStatus(r, ProfOf(p))
                      /\ NoFault /\ UNCHANGED unread
                   \/ /\ s \in ReadErrorStatus(r)
                      /\ r = "kernel-modules" => ProfOf(p).modules
                      /\ Fault /\ PastError(p, r)
                /\ IF ModeOf(p) = ModeApply /\ s = StatusWouldChange
                   THEN Goto(p, "apply") /\ UNCHANGED << results, todo, disturbed >>
                   ELSE Record(p, i, s) /\ Verdict(p, r)

\* Mutant: the status is set before the error of Apply is looked at
ApplyIgnoringError(p) ==
    /\ pc[p] = "apply"
    /\ \E i \in todo[p] :
         /\ IsNext(p, i)
         /\ LET r == ResourceAt(p, i)
            IN  \E v \in {Applied(r, ProfOf(p)), Mixed} :
                  /\ host' \in Aftermath(r, v)
                  /\ Verdict(p, r)
                  /\ IF v = Mixed THEN Fault ELSE NoFault
                  /\ unread' = [unread EXCEPT ![p] = @ \ {r}]
                  /\ Record(p, i, StatusChanged)
    /\ UNCHANGED << config, args, loaded, disturbs, cliRuns, reboots >>

\* Apply of that resource.  It was decided on what Check saw, which may be
\* stale by now.  It does all of its work, passes over what it cannot read, or
\* fails and leaves the old, the new or a mixed setting; with each of them it
\* may have upset another resource.
ApplyNext(p) ==
    /\ pc[p] = "apply"
    /\ \E i \in todo[p] :
         /\ IsNext(p, i)
         /\ LET r == ResourceAt(p, i)
            IN  /\ \/ /\ host' \in Aftermath(r, Applied(r, ProfOf(p)))
                      /\ Record(p, i, StatusChanged)
                      /\ NoFault /\ unread' = [unread EXCEPT ![p] = @ \ {r}]
                   \/ /\ r \in Lenient
                      /\ \E v \in Partly(r, ProfOf(p)) : host' \in Aftermath(r, v)
                      /\ Record(p, i, StatusChanged)
                      /\ Fault /\ PastError(p, r)
                   \/ /\ \E v \in Partly(r, ProfOf(p)) : host' \in Aftermath(r, v)
                      /\ Record(p, i, StatusFailed)
                      /\ Fault /\ UNCHANGED unread
                /\ Verdict(p, r)
    /\ UNCHANGED << config, args, loaded, disturbs, cliRuns, reboots >>

\* The report is written after the last resource; if stdout fails the exit
\* code says so whatever the results were
WriteReport(p) ==
    /\ pc[p] = "check"
    /\ ~Unfinished(p)
    /\ \/ Exit(p, ExitCode(results[p], ModeOf(p))) /\ NoFault
       \/ Exit(p, 1) /\ Fault
    /\ UNCHANGED << host, config, args, loaded, todo, results, disturbed, unread,
                    disturbs, cliRuns, reboots >>

-----------------------------------------------------------------------------
(* The environment.                                                         *)

\* SIGTERM, SIGINT or, for the unit, TimeoutStartSec: the process is gone, an
\* Apply in progress may be left halfway
Kill(p) ==
    /\ pc[p] \in Running
    /\ Fault
    /\ pc' = [pc EXCEPT ![p] = "idle"]
    /\ unit' = IF p = UnitProc THEN "auto-restart" ELSE unit
    /\ IF pc[p] = "apply"
       THEN \E i \in todo[p] :
              /\ IsNext(p, i)
              /\ LET r == ResourceAt(p, i)
                 IN  /\ \E v \in Partly(r, ProfOf(p)) : host' \in Aftermath(r, v)
                     /\ Verdict(p, r)
       ELSE UNCHANGED << host, disturbed >>
    /\ UNCHANGED << config, args, loaded, todo, results, exit, unread,
                    disturbs, cliRuns, reboots >>

\* Another program, or the hardware, changes a resource.  The cgroup
\* hierarchy cannot change under a running kernel.
Disturb(r) ==
    /\ disturbs < MaxDisturbs /\ disturbs' = disturbs + 1
    /\ r # "cgroup-v2"
    /\ \E v \in Settings \cup (IF r \in Hardware THEN {Absent} ELSE {}) :
         /\ v # host[r]
         /\ host' = [host EXCEPT ![r] = v]
    /\ disturbed' = [q \in Procs |-> disturbed[q] \cup {r}]
    /\ UNCHANGED << config, pc, args, loaded, todo, results, exit, unit,
                    unread, faults, cliRuns, reboots >>

\* The operator repairs a config that does not parse
FixConfig ==
    /\ ~config.parses
    /\ config' \in {c \in Configs : c.parses}
    /\ UNCHANGED << host, pc, args, loaded, todo, results, exit, unit,
                    disturbed, unread, bounds >>

\* A reboot ends every process and resets what no file persists
Reboot ==
    /\ reboots < MaxReboots /\ reboots' = reboots + 1
    /\ pc' = [p \in Procs |-> "idle"]
    /\ unit' = "inactive"
    /\ host' = [r \in Names |-> IF r \in Hardware /\ host[r] # Absent
                                THEN Factory ELSE host[r]]
    /\ UNCHANGED << config, args, loaded, todo, results, exit, disturbed,
                    unread, faults, disturbs, cliRuns >>

Step(p) == \/ NoInputs(p) \/ LoadFails(p) \/ Load(p) \/ EncodeJSON(p)
           \/ WriteFactsSummary(p) \/ CheckNext(p) \/ ApplyNext(p)
           \/ WriteReport(p)

Next ==
    \/ StartUnit
    \/ \E p \in Procs : StartCli(p) \/ Step(p) \/ Kill(p)
    \/ \E r \in Disturbable : Disturb(r)
    \/ FixConfig
    \/ Reboot

Spec == Init /\ [][Next]_vars

(***************************************************************************)
(* Every process keeps running until it is done (the kernel schedules it,   *)
(* every external command is bounded by a 15 second timeout), systemd       *)
(* restarts the unit, and the operator eventually repairs a broken config.  *)
(* No fairness on operators' invocations, kills, disturbances, reboots.     *)
(***************************************************************************)
Fairness ==
    /\ \A p \in Procs : WF_vars(Step(p))
    /\ WF_vars(StartUnit)
    /\ WF_vars(FixConfig)

FairSpec == Spec /\ Fairness

-----------------------------------------------------------------------------
(* Properties.                                                              *)

TypeOK ==
    /\ host \in [Names -> HostVals]
    /\ config \in Configs
    /\ pc \in [Procs -> PCs]
    /\ args \in [Procs -> Args]
    /\ loaded \in [Procs -> [cfg : Configs, prof : Profiles]]
    /\ DOMAIN todo = Procs /\ DOMAIN results = Procs
    /\ \A p \in Procs : todo[p] \subseteq DOMAIN Build(ProfOf(p))
    /\ \A p \in Procs : DOMAIN results[p] \subseteq DOMAIN Build(ProfOf(p))
    /\ \A p \in Procs : \A i \in DOMAIN results[p] : results[p][i] \in Status
    /\ exit \in [Procs -> {NoExit, 0, 1, 2}]
    /\ unit \in UnitState
    /\ disturbed \in [Procs -> SUBSET Names]
    /\ unread \in [Procs -> SUBSET Names]

\* The resources exit code 0 of p says nothing about: another actor changed
\* them after the verdict, a read error was passed over in judging or applying
\* them, or p itself changed the modules or the NIC afterwards
Excused(p, r) ==
    \/ r \in disturbed[p] \cup unread[p]
    \/ \E j \in DOMAIN results[p] :
          results[p][j] = StatusChanged /\ r \in SideEffects(ResourceAt(p, j))

\* What exit code 0 promises about the host, in either mode: every resource
\* the invocation selected is where its profile wants it, absent, or waiting
\* for a reboot, but for the excused ones.  Neither a stale Check, an
\* overlapping run, an earlier failure nor an error that Check or Apply
\* returned may break it.
ExitZeroMeansSettled ==
    \A p \in Procs :
        pc[p] = "exited" /\ exit[p] = 0 /\ args[p].cmd \in {"apply", "check"}
        => \A i \in Selected(p) :
              \/ Excused(p, ResourceAt(p, i))
              \/ Settled(ResourceAt(p, i), ProfOf(p))

\* "A failure in one resource does not stop the rest" (engine.go): a run that
\* got as far as its first resource and was not killed has a verdict on every
\* resource it selected, whichever of them failed.
EveryResourceReported ==
    \A p \in Procs :
        pc[p] = "exited" /\ DOMAIN results[p] # {}
        => DOMAIN results[p] = Selected(p)

\* What p may change: only a real apply, and only resources that neither the
\* config nor -skip excludes and that -only, when given, names
MayTouch(p, r) ==
    /\ args[p].cmd = "apply"
    /\ ~loaded[p].cfg.dryRun
    /\ r \notin loaded[p].cfg.disable \cup args[p].skip
    /\ args[p].only = {} \/ r \in args[p].only

\* Check mode is read-only, a dryRun apply is check mode, and an excluded
\* resource stays untouched: whenever a setting changes and it was neither
\* someone else nor a reboot, a process was in an Apply it may make, of that
\* resource or of one with that side effect.
OnlyPermittedChanges ==
    [][\A x \in Names :
         host'[x] # host[x] /\ disturbs' = disturbs /\ reboots' = reboots
         => \E p \in Procs : \E r \in Names :
               /\ pc[p] = "apply" /\ pc'[p] # "apply"
               /\ MayTouch(p, r)
               /\ x = r \/ x \in SideEffects(r)]_vars

\* With a config that is not dryRun the boot unit settles: failures, timeouts,
\* kills, reboots, a config that has to be repaired and other runs may delay
\* it, but it ends active and is restarted no more.
UnitSettles == <>[](unit = "active")

\* README: exit code 2 means pending changes and is given by `check` only.
ExitTwoOnlyFromCheck ==
    \A p \in Procs :
        pc[p] = "exited" /\ exit[p] = 2 => args[p].cmd = "check"
=============================================================================
