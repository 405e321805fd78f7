----------------------------- MODULE KernelState -----------------------------
(***************************************************************************)
(* The two resources that share the kernel's state: `sysctl`                *)
(* (internal/resource/sysctl.go) and `kernel-modules` (kmod.go), run in     *)
(* that order by engine.Run, with the drop-in files they persist and what   *)
(* systemd-modules-load and systemd-sysctl make of those files at boot.     *)
(*                                                                          *)
(* The resources are coupled through the kernel: a module brings its own    *)
(* sysctl keys, so loading one creates keys the sysctl resource skipped.    *)
(*                                                                          *)
(* A run is a sequence of Check and Apply steps, one step per kernel write, *)
(* modprobe call or file replacement, so that a kill, a failure or another  *)
(* program can come in between.  Overlapping runs are Engine's subject,     *)
(* the atomic replacement of a file is AtomicFile's.  Values are compared   *)
(* after normalizeSysctlValue, so whitespace is left out.                   *)
(***************************************************************************)
EXTENDS Resource, Sequences, FiniteSets, Functions

CONSTANTS
    KeyOrder,    \* the sysctl keys, sorted (sortedKeys)
    ModuleOrder, \* the kernel modules, sorted (wantModules)
    Provider,    \* Provider[k]: the module that brings key k, or NoModule
    NoModule,
    BuiltIn,     \* modules compiled into the kernel: never in /proc/modules
    Values,      \* values of a key
    Default,     \* Default[k]: the value the kernel gives key k
    Profiles,    \* desired states an operator's config may resolve to
    MaxFaults, MaxDisturbs, MaxEdits, MaxReboots  \* bounds

Keys    == Range(KeyOrder)
Modules == Range(ModuleOrder)

\* p.Sysctls (a map from some keys to values) and p.Modules
IsProfile(p) == /\ DOMAIN p.sysctls \subseteq Keys
                /\ \A k \in DOMAIN p.sysctls : p.sysctls[k] \in Values
                /\ p.modules \subseteq Modules

ASSUME KernelOrders == KeyOrder \in Seq(Keys) /\ ModuleOrder \in Seq(Modules)
ASSUME KernelAssumption ==
    /\ Provider \in [Keys -> Modules \cup {NoModule}] /\ NoModule \notin Modules
    /\ Default \in [Keys -> Values]
    /\ BuiltIn \subseteq Modules
    /\ \A p \in Profiles : IsProfile(p)
ASSUME KernelBounds == {MaxFaults, MaxDisturbs, MaxEdits, MaxReboots} \subseteq Nat

VARIABLES
    profile,     \* the desired state the config resolves to now
    live,        \* live[k]: the kernel's value of k, if k exists
    inserted,    \* the modules listed in /proc/modules
    sysctlFile,  \* sysctl.d drop-in: a set holding the map written, if any
    modulesFile, \* modules-load.d drop-in: a set holding the list, if any
    pc, mode, at, seen, results, \* the run: where, mode, loop index,
                                 \* modules seen loaded, results so far
    clean,       \* history: successful apply runs since anything else happened
    spoiled,     \* history: something else happened during this run
    booted,      \* history: a reboot followed a successful apply, and nothing since
    faults, disturbs, edits, reboots

run    == << pc, mode, at, seen, results >>
kernel == << live, inserted >>
files  == << sysctlFile, modulesFile >>
count  == << faults, disturbs, edits, reboots >>
vars   == << profile, kernel, files, run, clean, spoiled, booted, count >>

-----------------------------------------------------------------------------
(* What the resources look at.                                              *)

\* SysctlExists: the key's file is in /proc/sys
SysctlExists(k) == Provider[k] \in inserted \cup BuiltIn \cup {NoModule}

\* Mutant: only the first key of the map is compared
DiffLiveFirst ==
    {k \in DOMAIN profile.sysctls :
        /\ k = KeyOrder[1]
        /\ SysctlExists(k) /\ live[k] # profile.sysctls[k]}

\* diffLive: absent keys are skipped, not drift
DiffLive == {k \in DOMAIN profile.sysctls :
                SysctlExists(k) /\ live[k] # profile.sysctls[k]}

\* persistNeeded: the file holds every setting, absent keys included
SysctlPersistNeeded == sysctlFile # {profile.sysctls}
ModulesPersistNeeded == modulesFile # {profile.modules}

SysctlDrift == DiffLive # {} \/ SysctlPersistNeeded
ModuleDrift ==
    /\ profile.modules # {}
    /\ ~(profile.modules \subseteq inserted) \/ ModulesPersistNeeded

-----------------------------------------------------------------------------
Init ==
    /\ profile \in Profiles
    /\ live \in [Keys -> Values]
    /\ inserted \in SUBSET (Modules \ BuiltIn)
    /\ sysctlFile = {} /\ modulesFile = {}
    /\ pc = "idle" /\ mode = ModeApply /\ at = 0 /\ seen = {} /\ results = << >>
    /\ clean = 0 /\ spoiled = FALSE /\ booted = FALSE
    /\ faults = 0 /\ disturbs = 0 /\ edits = 0 /\ reboots = 0

Goto(l) == pc' = l
Stay == UNCHANGED << profile, clean, spoiled, booted, disturbs, edits, reboots,
                     mode >>
Fault == faults < MaxFaults /\ faults' = faults + 1
Report(s) == results' = Append(results, s)

\* apply or check begins; the sysctl resource comes first
Begin ==
    /\ pc = "idle"
    /\ mode' \in Mode
    /\ Goto("sysctl-check") /\ at' = 0 /\ seen' = {} /\ results' = << >>
    /\ spoiled' = FALSE
    /\ UNCHANGED << profile, kernel, files, clean, booted, count >>

\* engine.Run on what a Check found: apply the drift, or report and go on
Act(drift, apply, after) ==
    IF drift /\ mode = ModeApply
    THEN Goto(apply) /\ at' = 1 /\ UNCHANGED results
    ELSE /\ Report(IF drift THEN StatusWouldChange ELSE StatusUnchanged)
         /\ Goto(after) /\ UNCHANGED at

\* SysctlResource.Check: a key that cannot be read fails it, a drop-in that
\* cannot be read counts as drift
SysctlCheck ==
    /\ pc = "sysctl-check"
    /\ \/ Act(SysctlDrift, "sysctl-apply", "module-check") /\ UNCHANGED faults
       \/ Act(TRUE, "sysctl-apply", "module-check") /\ Fault
       \/ /\ \E k \in DOMAIN profile.sysctls : SysctlExists(k)
          /\ Fault /\ Report(StatusFailed) /\ Goto("module-check") /\ UNCHANGED at
    /\ UNCHANGED << kernel, files, seen >> /\ Stay

\* SysctlResource.Apply, one key: absent and equal keys are passed over, a key
\* that cannot be read is written; the first write that fails ends the resource
SysctlApplyKey ==
    /\ pc = "sysctl-apply" /\ at <= Len(KeyOrder)
    /\ LET k == KeyOrder[at] IN
         \/ /\ k \notin DiffLive
            /\ at' = at + 1 /\ UNCHANGED << pc, live, results, faults >>
         \/ /\ k \in DiffLive
            /\ live' = [live EXCEPT ![k] = profile.sysctls[k]]
            /\ at' = at + 1 /\ UNCHANGED << pc, results, faults >>
         \/ /\ k \in DOMAIN profile.sysctls /\ SysctlExists(k)
            /\ Fault /\ Report(StatusFailed) /\ Goto("module-check")
            /\ UNCHANGED << at, live >>
    /\ UNCHANGED << inserted, files, seen >> /\ Stay

\* Mutant: only the keys that exist now are written to the drop-in
PersistPresentOnly ==
    /\ pc = "sysctl-apply" /\ at > Len(KeyOrder)
    /\ sysctlFile' = {[k \in {j \in DOMAIN profile.sysctls : SysctlExists(j)} |->
                          profile.sysctls[k]]}
    /\ Report(StatusChanged) /\ UNCHANGED faults
    /\ Goto("module-check")
    /\ UNCHANGED << kernel, modulesFile, at, seen >> /\ Stay

\* Mutant: the drop-in is appended to, not replaced
PersistAppends ==
    /\ pc = "sysctl-apply" /\ at > Len(KeyOrder)
    /\ sysctlFile' = sysctlFile \cup {profile.sysctls}
    /\ Report(StatusChanged) /\ UNCHANGED faults
    /\ Goto("module-check")
    /\ UNCHANGED << kernel, modulesFile, at, seen >> /\ Stay

\* ... and the drop-in, after the last key
SysctlPersist ==
    /\ pc = "sysctl-apply" /\ at > Len(KeyOrder)
    /\ \/ /\ sysctlFile' = {profile.sysctls}
          /\ Report(StatusChanged) /\ UNCHANGED faults
       \/ /\ Fault /\ Report(StatusFailed) /\ UNCHANGED sysctlFile
    /\ Goto("module-check")
    /\ UNCHANGED << kernel, modulesFile, at, seen >> /\ Stay

\* KernelModuleResource.Check: with no modules wanted it is skipped, before
\* the drop-in is looked at
ModuleCheck ==
    /\ pc = "module-check"
    /\ IF profile.modules = {}
       THEN Report(StatusSkipped) /\ Goto("report") /\ UNCHANGED << at, faults >>
       ELSE \/ Act(ModuleDrift, "module-read", "report") /\ UNCHANGED faults
            \/ Act(TRUE, "module-read", "report") /\ Fault
            \/ Fault /\ Report(StatusFailed) /\ Goto("report") /\ UNCHANGED at
    /\ UNCHANGED << kernel, files, seen >> /\ Stay

\* KernelModuleResource.Apply reads /proc/modules again, once
ModuleRead ==
    /\ pc = "module-read"
    /\ \/ seen' = inserted /\ Goto("module-apply") /\ UNCHANGED << results, faults >>
       \/ Fault /\ Report(StatusFailed) /\ Goto("report") /\ UNCHANGED seen
    /\ UNCHANGED << kernel, files, at >> /\ Stay

\* modprobe m: a built-in module is already there and is not listed; a loaded
\* one is a no-op; a new one brings its keys at their defaults
Modprobe(m) ==
    IF m \in BuiltIn \cup inserted THEN UNCHANGED kernel
    ELSE /\ inserted' = inserted \cup {m}
         /\ live' = [k \in Keys |-> IF Provider[k] = m THEN Default[k] ELSE live[k]]

\* ... one modprobe for each wanted module that was not seen.  One the runner
\* gives up on after 15 s may have loaded the module.
ModuleApplyNext ==
    /\ pc = "module-apply" /\ at <= Len(ModuleOrder)
    /\ LET m == ModuleOrder[at]
           missing == m \in profile.modules \ seen
       IN  \/ /\ ~missing
              /\ at' = at + 1 /\ UNCHANGED << pc, kernel, results, faults >>
           \/ /\ missing
              /\ Modprobe(m)
              /\ at' = at + 1 /\ UNCHANGED << pc, results, faults >>
           \/ /\ missing
              /\ Fault /\ Report(StatusFailed) /\ Goto("report")
              /\ UNCHANGED kernel \/ Modprobe(m)
              /\ UNCHANGED at
    /\ UNCHANGED << files, seen >> /\ Stay

\* ... and the drop-in
ModulesPersist ==
    /\ pc = "module-apply" /\ at > Len(ModuleOrder)
    /\ \/ /\ modulesFile' = {profile.modules}
          /\ Report(StatusChanged) /\ UNCHANGED faults
       \/ /\ Fault /\ Report(StatusFailed) /\ UNCHANGED modulesFile
    /\ Goto("report")
    /\ UNCHANGED << kernel, sysctlFile, at, seen >> /\ Stay

\* The run ends.  clean counts apply runs that exited 0 (two are enough).
Finish ==
    /\ pc = "report"
    /\ Goto("idle")
    /\ clean' = IF mode = ModeCheck THEN clean
                ELSE IF ExitCode(results, mode) # 0 \/ spoiled THEN 0
                ELSE IF clean = 2 THEN 2 ELSE clean + 1
    /\ booted' = IF mode = ModeCheck THEN booted ELSE FALSE
    /\ UNCHANGED << profile, kernel, files, mode, at, seen, results, spoiled, count >>

-----------------------------------------------------------------------------
(* The environment.                                                         *)

Forget == clean' = 0 /\ spoiled' = TRUE /\ booted' = FALSE

\* The process is killed: whatever it wrote stays
Kill ==
    /\ pc # "idle"
    /\ Fault /\ Goto("idle") /\ Forget
    /\ UNCHANGED << profile, kernel, files, mode, at, seen, results,
                    disturbs, edits, reboots >>

\* Another program writes a key, or loads or removes a module
Disturb ==
    /\ disturbs < MaxDisturbs /\ disturbs' = disturbs + 1
    /\ \/ \E k \in Keys, v \in Values :
            /\ SysctlExists(k) /\ v # live[k]
            /\ live' = [live EXCEPT ![k] = v] /\ UNCHANGED inserted
       \/ \E m \in Modules \ BuiltIn : m \notin inserted /\ Modprobe(m)
       \/ \E m \in inserted : inserted' = inserted \ {m} /\ UNCHANGED live
    /\ Forget
    /\ UNCHANGED << profile, files, run, faults, edits, reboots >>

\* The operator edits the config (between runs: a run reads it once)
EditConfig ==
    /\ pc = "idle"
    /\ edits < MaxEdits /\ edits' = edits + 1
    /\ profile' \in Profiles \ {profile}
    /\ Forget
    /\ UNCHANGED << kernel, files, run, faults, disturbs, reboots >>

\* systemd-modules-load: every module the drop-in lists
BootModules == (UNION modulesFile) \ BuiltIn

\* systemd-sysctl, ordered after it: every listed key that exists
BootValue(k) ==
    IF /\ Provider[k] \in BootModules \cup BuiltIn \cup {NoModule}
       /\ \E s \in sysctlFile : k \in DOMAIN s
    THEN (CHOOSE s \in sysctlFile : TRUE)[k] ELSE Default[k]

\* A reboot, with the unit not yet run or disabled
Reboot ==
    /\ reboots < MaxReboots /\ reboots' = reboots + 1
    /\ Goto("idle")
    /\ inserted' = BootModules
    /\ live' = [k \in Keys |-> BootValue(k)]
    /\ booted' = (pc = "idle" /\ (clean > 0 \/ booted))
    /\ clean' = 0 /\ spoiled' = FALSE
    /\ UNCHANGED << profile, files, mode, at, seen, results, faults, disturbs, edits >>

Next ==
    \/ Begin \/ SysctlCheck \/ SysctlApplyKey \/ SysctlPersist
    \/ ModuleCheck \/ ModuleRead \/ ModuleApplyNext \/ ModulesPersist \/ Finish
    \/ Kill \/ Disturb \/ EditConfig \/ Reboot

Spec == Init /\ [][Next]_vars

-----------------------------------------------------------------------------
TypeOK ==
    /\ profile \in Profiles
    /\ live \in [Keys -> Values]
    /\ inserted \subseteq Modules \ BuiltIn
    /\ Cardinality(sysctlFile) <= 1 /\ Cardinality(modulesFile) <= 1
    /\ pc \in {"idle", "sysctl-check", "sysctl-apply", "module-check",
               "module-read", "module-apply", "report"}
    /\ mode \in Mode
    /\ seen \subseteq Modules
    /\ results \in Seq(Status)
    /\ clean \in 0 .. 2 /\ spoiled \in BOOLEAN /\ booted \in BOOLEAN

\* The desired state itself, not as the resources' Check sees it: every wanted
\* key that exists has its value, every wanted module is in the kernel, and
\* the drop-ins say so (with no modules wanted there is no list to keep).
SysctlsAsDesired ==
    /\ \A k \in DOMAIN profile.sysctls :
          SysctlExists(k) => live[k] = profile.sysctls[k]
    /\ sysctlFile = {profile.sysctls}
ModulesAsDesired ==
    profile.modules # {} => /\ profile.modules \subseteq inserted \cup BuiltIn
                            /\ modulesFile = {profile.modules}

\* Two successful apply runs with nothing in between reach the desired state,
\* whatever state interrupted, failed or older runs left behind.
TwoAppliesConverge ==
    pc = "idle" /\ clean = 2 => SysctlsAsDesired /\ ModulesAsDesired

\* README: desired state "survives reboots independent of whether this tool's
\* own unit runs again".  After one successful apply and any number of reboots
\* the host is in the desired state, although the apply itself may have left
\* keys of a module it loaded at their defaults: boot loads modules before it
\* sets sysctls, and the drop-in lists the keys the apply had to skip.  Keys an
\* older config set, which an apply leaves alone, are at their defaults again.
SurvivesReboot ==
    pc = "idle" /\ booted =>
        /\ SysctlsAsDesired /\ ModulesAsDesired
        /\ \A k \in Keys \ DOMAIN profile.sysctls : live[k] = Default[k]

\* ci.yml, "re-check (must be a no-op -- idempotency)": a check right after a
\* successful apply finds nothing to do.  (The sysctls part.)
SysctlRecheckIsNoOp == pc = "idle" /\ clean >= 1 => ~SysctlDrift

\* README, "Desired state is also persisted to standard drop-in locations":
\* after a successful apply the boot list holds no module that is not wanted.
BootListIsDesired ==
    pc = "idle" /\ clean >= 1 => UNION modulesFile \subseteq profile.modules
=============================================================================
