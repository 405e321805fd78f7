-------------------------- MODULE KernelStateProofs --------------------------
(***************************************************************************)
(* KernelState's safety properties for every set of keys, modules, values   *)
(* and profiles, and all bounds.                                            *)
(***************************************************************************)
EXTENDS KernelState, FiniteSetTheorems, TLAPS

(* The inductive invariant.  First the types, one part for each group of    *)
(* variables.                                                               *)
KernelType ==
    /\ profile \in Profiles
    /\ live \in [Keys -> Values]
    /\ inserted \subseteq Modules \ BuiltIn

\* A drop-in is missing or holds what some profile asked for
FilesType ==
    /\ sysctlFile = {} \/ \E p \in Profiles : sysctlFile = {p.sysctls}
    /\ modulesFile = {} \/ \E p \in Profiles : modulesFile = {p.modules}

\* Where a run is says how many verdicts it has, and in which mode it is
Places == {"idle", "sysctl-check", "sysctl-apply", "module-check",
           "module-read", "module-apply", "report"}
RunType ==
    /\ pc \in Places /\ mode \in Mode /\ at \in Nat
    /\ seen \subseteq Modules
    /\ results \in Seq(Status)
    /\ pc \in {"sysctl-check", "sysctl-apply"} => Len(results) = 0
    /\ pc \in {"module-check", "module-read", "module-apply"} => Len(results) = 1
    /\ pc = "report" => Len(results) = 2
    /\ pc \in {"sysctl-apply", "module-read", "module-apply"} => mode = ModeApply
    /\ pc \in {"sysctl-apply", "module-apply"} => at >= 1
    /\ pc = "module-read" => at = 1

HistoryType == clean \in 0 .. 2 /\ spoiled \in BOOLEAN /\ booted \in BOOLEAN

TypeInv == KernelType /\ FilesType /\ RunType /\ HistoryType

\* Keys no config asks for are as the kernel made them
Dropped == \A k \in Keys \ DOMAIN profile.sysctls : live[k] = Default[k]

\* One clean run is enough for the modules and both files, two for the sysctls
Persisted == ModulesAsDesired /\ sysctlFile = {profile.sysctls}
HistoryInv ==
    /\ clean >= 1 => Persisted
    /\ clean = 2 => DiffLive = {}
    /\ booted => Persisted /\ DiffLive = {} /\ Dropped

\* An undisturbed apply in progress: what it is past is done.  The sysctls may
\* drift again when a module is loaded, but not if the modules were there.
KeysDone == \A j \in 1 .. Len(KeyOrder) : j < at => KeyOrder[j] \notin DiffLive
SysctlsDone == sysctlFile = {profile.sysctls} /\ (clean >= 1 => DiffLive = {})
ModulesDone ==
    /\ seen \subseteq inserted
    /\ \A j \in 1 .. Len(ModuleOrder) :
          j < at /\ ModuleOrder[j] \in profile.modules
             => ModuleOrder[j] \in inserted \cup BuiltIn
ProgressInv ==
    pc # "idle" /\ mode = ModeApply /\ ~spoiled =>
        /\ pc = "sysctl-apply" => KeysDone
        /\ Len(results) >= 1 /\ results[1] # StatusFailed => SysctlsDone
        /\ pc = "module-apply" => ModulesDone
        /\ Len(results) = 2 /\ results[2] # StatusFailed => ModulesAsDesired

IInv == TypeInv /\ HistoryInv /\ ProgressInv

\* The steps of a run, and of everything else
RunStep ==
    \/ Begin \/ SysctlCheck \/ SysctlApplyKey \/ SysctlPersist
    \/ ModuleCheck \/ ModuleRead \/ ModuleApplyNext \/ ModulesPersist \/ Finish
EnvStep == Kill \/ Disturb \/ EditConfig \/ Reboot

-----------------------------------------------------------------------------
(* Facts about the operators.                                               *)

\* A profile names known keys, values and modules
LEMMA ProfileFields ==
    ASSUME NEW p \in Profiles
    PROVE  /\ DOMAIN p.sysctls \subseteq Keys
           /\ \A k \in DOMAIN p.sysctls : p.sysctls[k] \in Values
           /\ p.modules \subseteq Modules
BY KernelAssumption DEF IsProfile

\* sortedKeys and wantModules list every key and every module
LEMMA Orders ==
    /\ Len(KeyOrder) \in Nat /\ Len(ModuleOrder) \in Nat
    /\ \A i \in 1 .. Len(KeyOrder) : KeyOrder[i] \in Keys
    /\ \A i \in 1 .. Len(ModuleOrder) : ModuleOrder[i] \in Modules
    /\ \A k \in Keys : \E i \in 1 .. Len(KeyOrder) : KeyOrder[i] = k
    /\ \A m \in Modules : \E i \in 1 .. Len(ModuleOrder) : ModuleOrder[i] = m
<1>1. /\ DOMAIN KeyOrder = 1 .. Len(KeyOrder)
      /\ DOMAIN ModuleOrder = 1 .. Len(ModuleOrder)
      /\ Len(KeyOrder) \in Nat /\ Len(ModuleOrder) \in Nat
    BY KernelOrders
<1> QED BY <1>1 DEF Keys, Modules, Range

\* A report adds one verdict and keeps the others
LEMMA Reported ==
    ASSUME NEW r \in Seq(Status), NEW s \in Status
    PROVE  /\ Append(r, s) \in Seq(Status)
           /\ Len(r) \in Nat /\ Len(Append(r, s)) = Len(r) + 1
           /\ \A i \in 1 .. Len(r) : Append(r, s)[i] = r[i]
           /\ Append(r, s)[Len(r) + 1] = s
OBVIOUS

LEMMA Statuses ==
    {StatusUnchanged, StatusWouldChange, StatusChanged, StatusFailed,
     StatusSkipped} \subseteq Status
BY DEF Status

\* A drop-in holds at most one version of its content
LEMMA FilesHoldOne ==
    ASSUME FilesType
    PROVE  Cardinality(sysctlFile) <= 1 /\ Cardinality(modulesFile) <= 1
<1>1. ASSUME NEW x PROVE Cardinality({x}) <= 1
    BY FS_Singleton
<1>2. Cardinality({}) <= 1
    BY FS_EmptySet
<1>3. Cardinality(sysctlFile) <= 1
  <2>1. CASE sysctlFile = {} BY <2>1, <1>2
  <2>2. CASE \E p \in Profiles : sysctlFile = {p.sysctls} BY <2>2, <1>1
  <2> QED BY <2>1, <2>2 DEF FilesType
<1>4. Cardinality(modulesFile) <= 1
  <2>1. CASE modulesFile = {} BY <2>1, <1>2
  <2>2. CASE \E p \in Profiles : modulesFile = {p.modules} BY <2>2, <1>1
  <2> QED BY <2>1, <2>2 DEF FilesType
<1> QED BY <1>3, <1>4

LEMMA TypeOKFromInv ==
    ASSUME TypeInv
    PROVE  TypeOK
BY FilesHoldOne DEF TypeInv, KernelType, RunType, Places, HistoryType, TypeOK

\* The desired sysctls, in terms of what diffLive finds
LEMMA DiffIsEmpty ==
    DiffLive = {} <=> \A k \in DOMAIN profile.sysctls :
                          SysctlExists(k) => live[k] = profile.sysctls[k]
BY DEF DiffLive

-----------------------------------------------------------------------------
(* What a step of a run does to the kernel and the files.                   *)

Effect ==
    \/ UNCHANGED << kernel, files >>
    \/ /\ pc = "sysctl-apply" /\ at \in 1 .. Len(KeyOrder)
       /\ KeyOrder[at] \in DiffLive
       /\ live' = [live EXCEPT ![KeyOrder[at]] = profile.sysctls[KeyOrder[at]]]
       /\ UNCHANGED << inserted, files >>
    \/ sysctlFile' = {profile.sysctls} /\ UNCHANGED << kernel, modulesFile >>
    \/ (\E m \in profile.modules : Modprobe(m)) /\ UNCHANGED files
    \/ modulesFile' = {profile.modules} /\ UNCHANGED << kernel, sysctlFile >>

LEMMA RunEffect ==
    ASSUME TypeInv, RunStep
    PROVE  Effect /\ profile' = profile
<1> USE DEF Effect, Stay
<1>1. CASE Begin BY <1>1 DEF Begin
<1>2. CASE SysctlCheck BY <1>2 DEF SysctlCheck
<1>3. CASE SysctlApplyKey
  <2>1. at \in 1 .. Len(KeyOrder)
      BY <1>3, Orders DEF SysctlApplyKey, TypeInv, RunType
  <2> QED BY <1>3, <2>1 DEF SysctlApplyKey, files, kernel
<1>4. CASE SysctlPersist BY <1>4 DEF SysctlPersist, files, kernel
<1>5. CASE ModuleCheck BY <1>5 DEF ModuleCheck
<1>6. CASE ModuleRead BY <1>6 DEF ModuleRead
<1>7. CASE ModuleApplyNext BY <1>7 DEF ModuleApplyNext
<1>8. CASE ModulesPersist BY <1>8 DEF ModulesPersist, files, kernel
<1>9. CASE Finish BY <1>9 DEF Finish
<1> QED BY <1>1, <1>2, <1>3, <1>4, <1>5, <1>6, <1>7, <1>8, <1>9 DEF RunStep

\* modprobe keeps the kernel's types and never removes a module
LEMMA ModprobeType ==
    ASSUME KernelType, NEW m \in Modules, Modprobe(m)
    PROVE  /\ live' \in [Keys -> Values]
           /\ inserted' \subseteq Modules \ BuiltIn
           /\ inserted \subseteq inserted'
           /\ m \in inserted' \cup BuiltIn
BY KernelAssumption DEF KernelType, Modprobe, kernel

LEMMA KernelTypeStep ==
    ASSUME TypeInv, Next
    PROVE  KernelType'
<1> USE DEF TypeInv
<1>1. CASE RunStep
  <2>1. profile' = profile /\ Effect BY <1>1, RunEffect
  <2>2. CASE UNCHANGED kernel
      BY <2>1, <2>2 DEF KernelType, kernel
  <2>3. CASE /\ at \in 1 .. Len(KeyOrder) /\ KeyOrder[at] \in DiffLive
             /\ live' = [live EXCEPT ![KeyOrder[at]] = profile.sysctls[KeyOrder[at]]]
             /\ UNCHANGED << inserted, files >>
      BY <2>1, <2>3, Orders, ProfileFields DEF KernelType, DiffLive
  <2>4. CASE \E m \in profile.modules : Modprobe(m)
      BY <2>1, <2>4, ProfileFields, ModprobeType DEF KernelType
  <2> QED BY <2>1, <2>2, <2>3, <2>4 DEF Effect, files, kernel
<1>2. CASE Kill BY <1>2 DEF Kill, KernelType, kernel
<1>3. CASE Disturb
  <2>1. profile' = profile BY <1>3 DEF Disturb
  <2>2. ASSUME NEW k \in Keys, NEW v \in Values,
               live' = [live EXCEPT ![k] = v], inserted' = inserted
        PROVE  KernelType'
      BY <2>1, <2>2 DEF KernelType
  <2>3. ASSUME NEW m \in Modules \ BuiltIn, Modprobe(m)
        PROVE  KernelType'
      BY <2>1, <2>3, ModprobeType DEF KernelType
  <2>4. ASSUME NEW m \in inserted, inserted' = inserted \ {m}, live' = live
        PROVE  KernelType'
      BY <2>1, <2>4 DEF KernelType
  <2> QED BY <1>3, <2>2, <2>3, <2>4 DEF Disturb
<1>4. CASE EditConfig BY <1>4 DEF EditConfig, KernelType, kernel
<1>5. CASE Reboot
  <2>1. BootModules \subseteq Modules \ BuiltIn
      BY ProfileFields DEF BootModules, FilesType
  <2>2. ASSUME NEW k \in Keys PROVE BootValue(k) \in Values
    <3>1. CASE \E s \in sysctlFile : k \in DOMAIN s
      <4>1. PICK p \in Profiles : sysctlFile = {p.sysctls}
          BY <3>1 DEF FilesType
      <4>2. (CHOOSE s \in sysctlFile : TRUE) = p.sysctls BY <4>1
      <4>3. p.sysctls[k] \in Values BY <3>1, <4>1, ProfileFields
      <4> QED BY <4>2, <4>3, KernelAssumption DEF BootValue
    <3>2. CASE ~ \E s \in sysctlFile : k \in DOMAIN s
        BY <3>2, KernelAssumption DEF BootValue
    <3> QED BY <3>1, <3>2
  <2> QED BY <1>5, <2>1, <2>2 DEF Reboot, KernelType
<1> QED BY <1>1, <1>2, <1>3, <1>4, <1>5 DEF Next, RunStep

LEMMA FilesTypeStep ==
    ASSUME TypeInv, Next
    PROVE  FilesType'
<1> USE DEF TypeInv
<1>1. CASE RunStep
  <2>1. profile' = profile /\ Effect /\ profile \in Profiles
      BY <1>1, RunEffect DEF KernelType
  <2>2. /\ sysctlFile' = sysctlFile \/ sysctlFile' = {profile.sysctls}
        /\ modulesFile' = modulesFile \/ modulesFile' = {profile.modules}
      BY <2>1 DEF Effect, files
  <2> QED BY <2>1, <2>2 DEF FilesType
<1>2. CASE EnvStep
    BY <1>2 DEF EnvStep, Kill, Disturb, EditConfig, Reboot, files, FilesType
<1> QED BY <1>1, <1>2 DEF Next, RunStep, EnvStep

LEMMA HistoryTypeStep ==
    ASSUME TypeInv, Next
    PROVE  HistoryType'
<1> USE DEF TypeInv, HistoryType
<1>1. CASE Begin BY <1>1 DEF Begin
<1>2. CASE UNCHANGED << clean, spoiled, booted >> BY <1>2
<1>3. CASE Finish
  <2>1. clean' \in 0 .. 2 BY <1>3 DEF Finish
  <2>2. spoiled' \in BOOLEAN /\ booted' \in BOOLEAN BY <1>3, Zenon DEF Finish
  <2> QED BY <2>1, <2>2
<1>4. CASE Forget
  <2>1. clean' \in 0 .. 2 BY <1>4 DEF Forget
  <2>2. spoiled' \in BOOLEAN /\ booted' \in BOOLEAN BY <1>4, Zenon DEF Forget
  <2> QED BY <2>1, <2>2
<1>5. CASE Reboot
  <2>1. clean' \in 0 .. 2 BY <1>5 DEF Reboot
  <2>2. spoiled' \in BOOLEAN BY <1>5 DEF Reboot
  <2>3. booted' \in BOOLEAN
    <3>1. booted' = (pc = "idle" /\ (clean > 0 \/ booted)) BY <1>5 DEF Reboot
    <3> QED BY <3>1
  <2> QED BY <2>1, <2>2, <2>3
<1> QED
    BY <1>1, <1>2, <1>3, <1>4, <1>5
    DEF Next, Stay, SysctlCheck, SysctlApplyKey, SysctlPersist, ModuleCheck,
        ModuleRead, ModuleApplyNext, ModulesPersist, Kill, Disturb, EditConfig

\* A verdict moves the run on; otherwise the loop counter does
LEMMA RunTypeStep ==
    ASSUME TypeInv, Next
    PROVE  RunType'
<1> USE DEF TypeInv, Stay, Goto, Report
<1>t. /\ pc \in Places /\ mode \in Mode /\ at \in Nat /\ at + 1 \in Nat
      /\ seen \subseteq Modules /\ results \in Seq(Status) /\ Len(results) \in Nat
      /\ inserted \subseteq Modules
    BY DEF RunType, KernelType
<1>1. CASE Begin BY <1>1, <1>t DEF Begin, RunType, Places
<1>2. ASSUME pc \in {"sysctl-check", "sysctl-apply"}, pc' = "module-check",
             NEW s \in Status, results' = Append(results, s),
             mode' = mode, at' = at, seen' = seen
      PROVE  RunType'
  <2>1. Len(results) = 0 BY <1>2 DEF RunType
  <2>2. results' \in Seq(Status) /\ Len(results') = 1
      BY <1>2, <1>t, <2>1, Reported
  <2> QED BY <1>2, <1>t, <2>2 DEF RunType, Places
<1>3. ASSUME pc \in {"module-check", "module-read", "module-apply"}, pc' = "report",
             NEW s \in Status, results' = Append(results, s),
             mode' = mode, at' = at, seen' = seen
      PROVE  RunType'
  <2>1. Len(results) = 1 BY <1>3 DEF RunType
  <2>2. results' \in Seq(Status) /\ Len(results') = Len(results) + 1
      BY <1>3, <1>t, Reported
  <2>3. Len(results') = 2 BY <2>1, <2>2
  <2> QED BY <1>3, <1>t, <2>2, <2>3 DEF RunType, Places
<1>4. CASE SysctlCheck
  <2>1. CASE pc' = "sysctl-apply" /\ at' = 1 /\ results' = results /\ mode = ModeApply
      BY <1>4, <1>t, <2>1 DEF SysctlCheck, RunType, Places
  <2>2. CASE pc' = "module-check" /\ at' = at
             /\ \E s \in Status : results' = Append(results, s)
      BY <1>2, <1>4, <2>2 DEF SysctlCheck
  <2> QED BY <1>4, <2>1, <2>2, Statuses DEF SysctlCheck, Act
<1>5. CASE SysctlApplyKey
  <2>1. CASE UNCHANGED << pc, results >> /\ at' = at + 1
      BY <1>5, <1>t, <2>1 DEF SysctlApplyKey, RunType
  <2>2. CASE pc' = "module-check" /\ at' = at /\ results' = Append(results, StatusFailed)
      BY <1>2, <1>5, <2>2, Statuses DEF SysctlApplyKey
  <2> QED BY <1>5, <2>1, <2>2 DEF SysctlApplyKey
<1>6. CASE SysctlPersist
    BY <1>2, <1>6, Statuses DEF SysctlPersist
<1>7. CASE ModuleCheck
  <2>1. CASE pc' = "module-read" /\ at' = 1 /\ results' = results /\ mode = ModeApply
      BY <1>7, <1>t, <2>1 DEF ModuleCheck, RunType, Places
  <2>2. CASE pc' = "report" /\ at' = at
             /\ \E s \in Status : results' = Append(results, s)
      BY <1>3, <1>7, <2>2 DEF ModuleCheck
  <2> QED BY <1>7, <2>1, <2>2, Statuses DEF ModuleCheck, Act
<1>8. CASE ModuleRead
  <2>1. CASE seen' = inserted /\ pc' = "module-apply" /\ results' = results
      BY <1>8, <1>t, <2>1 DEF ModuleRead, RunType, Places
  <2>2. CASE pc' = "report" /\ seen' = seen /\ results' = Append(results, StatusFailed)
      BY <1>3, <1>8, <2>2, Statuses DEF ModuleRead
  <2> QED BY <1>8, <2>1, <2>2 DEF ModuleRead
<1>9. CASE ModuleApplyNext
  <2>1. CASE UNCHANGED << pc, results >> /\ at' = at + 1
      BY <1>9, <1>t, <2>1 DEF ModuleApplyNext, RunType
  <2>2. CASE pc' = "report" /\ at' = at /\ results' = Append(results, StatusFailed)
      BY <1>3, <1>9, <2>2, Statuses DEF ModuleApplyNext
  <2> QED BY <1>9, <2>1, <2>2 DEF ModuleApplyNext
<1>10. CASE ModulesPersist
    BY <1>3, <1>10, Statuses DEF ModulesPersist
<1>11. CASE Finish \/ Kill \/ Reboot
    BY <1>11, <1>t DEF Finish, Kill, Reboot, RunType, Places
<1>12. CASE Disturb \/ EditConfig
    BY <1>12, <1>t DEF Disturb, EditConfig, run, RunType
<1> QED BY <1>1, <1>4, <1>5, <1>6, <1>7, <1>8, <1>9, <1>10, <1>11, <1>12 DEF Next

LEMMA TypeStep ==
    ASSUME TypeInv, [Next]_vars
    PROVE  TypeInv'
<1>1. CASE Next
    BY <1>1, KernelTypeStep, FilesTypeStep, HistoryTypeStep, RunTypeStep DEF TypeInv
<1>2. CASE UNCHANGED vars
    BY <1>2 DEF vars, kernel, files, run, count, TypeInv, KernelType, FilesType,
                HistoryType, RunType
<1> QED BY <1>1, <1>2

LEMMA InitType == Init => TypeInv
<1> SUFFICES ASSUME Init PROVE TypeInv OBVIOUS
<1>1. HistoryType
  <2>1. clean \in 0 .. 2 BY DEF Init
  <2> QED BY <2>1 DEF Init, HistoryType
<1>2. RunType BY DEF Init, RunType, Places, Mode
<1>3. KernelType /\ FilesType BY DEF Init, KernelType, FilesType
<1> QED BY <1>1, <1>2, <1>3 DEF TypeInv

\* The type invariant of the run and the host it works on (sysctl.go, kmod.go).
THEOREM TypeCorrect == Spec => []TypeOK
<1>1. Spec => []TypeInv BY InitType, TypeStep, PTL DEF Spec
<1>2. TypeInv => TypeOK BY TypeOKFromInv
<1> QED BY <1>1, <1>2, PTL

-----------------------------------------------------------------------------
(* What a run leaves alone once it is as desired.                           *)

\* With the modules in the kernel and both files right, a run loads nothing
\* and rewrites the files with what they hold
LEMMA PersistedStable ==
    ASSUME TypeInv, Effect, profile' = profile, Persisted
    PROVE  Persisted' /\ inserted' = inserted
<1> USE DEF Persisted, ModulesAsDesired
<1>1. CASE UNCHANGED << inserted, files >>
    BY <1>1 DEF files
<1>2. CASE sysctlFile' = {profile.sysctls} /\ UNCHANGED << kernel, modulesFile >>
    BY <1>2 DEF kernel
<1>3. CASE (\E m \in profile.modules : Modprobe(m)) /\ UNCHANGED files
    BY <1>3 DEF Modprobe, kernel, files
<1>4. CASE modulesFile' = {profile.modules} /\ UNCHANGED << kernel, sysctlFile >>
    BY <1>4 DEF kernel
<1> QED BY <1>1, <1>2, <1>3, <1>4 DEF Effect, kernel, files

\* If no key drifted either, it writes nothing to the kernel at all
LEMMA SettledStable ==
    ASSUME TypeInv, Effect, profile' = profile, Persisted, DiffLive = {}
    PROVE  live' = live /\ DiffLive' = {}
<1>1. inserted' = inserted BY PersistedStable
<1>2. live' = live
    BY DEF Effect, Persisted, ModulesAsDesired, Modprobe, kernel
<1> QED BY <1>1, <1>2 DEF DiffLive, SysctlExists

\* The write of a key only removes that key from the difference
LEMMA KeyWritten ==
    ASSUME TypeInv, NEW k \in DiffLive, profile' = profile, inserted' = inserted,
           live' = [live EXCEPT ![k] = profile.sysctls[k]]
    PROVE  DiffLive' \subseteq DiffLive \ {k}
<1>1. k \in Keys /\ live \in [Keys -> Values] /\ DOMAIN profile.sysctls \subseteq Keys
    BY ProfileFields DEF TypeInv, KernelType, DiffLive
<1>2. ASSUME NEW j \in DiffLive' PROVE j \in DiffLive \ {k}
  <2>1. j \in DOMAIN profile.sysctls /\ SysctlExists(j) /\ live'[j] # profile.sysctls[j]
      BY <1>2 DEF DiffLive, SysctlExists
  <2>2. j # k BY <1>1, <2>1
  <2>3. live'[j] = live[j] BY <1>1, <2>1, <2>2
  <2> QED BY <2>1, <2>2, <2>3 DEF DiffLive
<1> QED BY <1>2

\* Boot: the drop-ins alone bring the desired state back
LEMMA BootAsDesired ==
    ASSUME TypeInv, Reboot, Persisted
    PROVE  Persisted' /\ (DiffLive = {})' /\ Dropped'
<1>1. /\ profile' = profile /\ inserted' = BootModules
      /\ live' = [k \in Keys |-> BootValue(k)]
      /\ sysctlFile' = sysctlFile /\ modulesFile' = modulesFile
    BY DEF Reboot, files
<1>2. sysctlFile = {profile.sysctls} /\ DOMAIN profile.sysctls \subseteq Keys
    BY ProfileFields DEF Persisted, TypeInv, KernelType
<1>3. (CHOOSE s \in sysctlFile : TRUE) = profile.sysctls
    BY <1>2
<1>4. Persisted'
    BY <1>1 DEF Persisted, ModulesAsDesired, BootModules
<1>5. (DiffLive = {})'
  <2>1. ASSUME NEW k \in DOMAIN profile.sysctls, SysctlExists(k)'
        PROVE  live'[k] = profile.sysctls[k]
    <3>1. Provider[k] \in BootModules \cup BuiltIn \cup {NoModule}
        BY <1>1, <2>1 DEF SysctlExists
    <3>2. \E s \in sysctlFile : k \in DOMAIN s BY <1>2
    <3>3. BootValue(k) = profile.sysctls[k] BY <1>3, <3>1, <3>2 DEF BootValue
    <3> QED BY <1>1, <1>2, <3>3
  <2> QED BY <1>1, <2>1 DEF DiffLive
<1>6. Dropped'
  <2>1. ASSUME NEW k \in Keys \ DOMAIN profile.sysctls PROVE live'[k] = Default[k]
    <3>1. ~ \E s \in sysctlFile : k \in DOMAIN s BY <1>2, <2>1
    <3> QED BY <1>1, <3>1 DEF BootValue
  <2> QED BY <1>1, <2>1 DEF Dropped
<1> QED BY <1>4, <1>5, <1>6

LEMMA HistoryStep ==
    ASSUME IInv, Next
    PROVE  HistoryInv'
<1> USE DEF IInv
<1>n. clean \in 0 .. 2 BY DEF TypeInv, HistoryType
<1>1. ASSUME Effect, profile' = profile, clean' = clean, booted' => booted
      PROVE  HistoryInv'
  <2>1. clean >= 1 => Persisted'
      BY <1>1, PersistedStable DEF HistoryInv
  <2>2. clean = 2 => Persisted /\ DiffLive = {}
      BY <1>n DEF HistoryInv
  <2>3. clean = 2 => DiffLive' = {}
      BY <1>1, <2>2, SettledStable
  <2>4. booted => Persisted' /\ DiffLive' = {} /\ live' = live
      BY <1>1, PersistedStable, SettledStable DEF HistoryInv
  <2>5. booted => Dropped'
      BY <1>1, <2>4 DEF HistoryInv, Dropped
  <2> QED BY <1>1, <2>1, <2>3, <2>4, <2>5 DEF HistoryInv
<1>2. CASE RunStep /\ ~ Finish
  <2>1. clean' = clean /\ booted' = booted
      BY <1>2 DEF RunStep, Begin, SysctlCheck, SysctlApplyKey, SysctlPersist,
                  ModuleCheck, ModuleRead, ModuleApplyNext, ModulesPersist, Stay
  <2> QED BY <1>1, <1>2, <2>1, RunEffect
<1>3. CASE Finish
  <2>1. UNCHANGED << profile, kernel, files >> /\ pc = "report" BY <1>3 DEF Finish
  <2>2. CASE mode = ModeCheck
      BY <1>1, <1>3, <2>1, <2>2 DEF Finish, Effect
  <2>3. CASE mode # ModeCheck /\ (ExitCode(results, mode) # 0 \/ spoiled)
    <3>1. clean' = 0 /\ booted' = FALSE BY <1>3, <2>3 DEF Finish
    <3> QED BY <3>1 DEF HistoryInv
  <2>4. CASE mode # ModeCheck /\ ExitCode(results, mode) = 0 /\ ~spoiled
    <3>1. /\ mode = ModeApply /\ booted' = FALSE
          /\ clean' = 2 => clean >= 1
        BY <1>3, <1>n, <2>4 DEF Finish, TypeInv, RunType, Mode
    <3>2. Len(results) = 2 /\ results \in Seq(Status)
        BY <2>1 DEF TypeInv, RunType
    <3>3. results[1] # StatusFailed /\ results[2] # StatusFailed
      <4>1. DOMAIN results = 1 .. 2 BY <3>2
      <4>2. ~ \E i \in DOMAIN results : results[i] = StatusFailed
          BY <2>4 DEF ExitCode
      <4> QED BY <4>1, <4>2
    <3>4. SysctlsDone /\ ModulesAsDesired
        BY <2>1, <2>4, <3>1, <3>2, <3>3 DEF ProgressInv
    <3>5. Persisted' /\ (clean' = 2 => DiffLive' = {})
        BY <2>1, <3>1, <3>4
        DEF SysctlsDone, Persisted, ModulesAsDesired, DiffLive, SysctlExists,
            kernel, files
    <3> QED BY <3>1, <3>5 DEF HistoryInv
  <2> QED BY <2>2, <2>3, <2>4
<1>4. CASE Kill \/ Disturb \/ EditConfig
  <2>1. clean' = 0 /\ booted' = FALSE
      BY <1>4 DEF Kill, Disturb, EditConfig, Forget
  <2> QED BY <2>1 DEF HistoryInv
<1>5. CASE Reboot
  <2>1. clean' = 0 /\ (booted' => clean > 0 \/ booted) BY <1>5 DEF Reboot
  <2>2. clean > 0 \/ booted => Persisted BY <1>n DEF HistoryInv
  <2>3. booted' => Persisted' /\ DiffLive' = {} /\ Dropped'
      BY <1>5, <2>1, <2>2, BootAsDesired
  <2> QED BY <2>1, <2>3 DEF HistoryInv
<1> QED BY <1>2, <1>3, <1>4, <1>5 DEF Next, RunStep

\* What the first verdict stands for is not undone by later steps of the run
LEMMA FirstVerdictKept ==
    ASSUME IInv, Effect, profile' = profile, clean' = clean,
           pc # "idle", mode = ModeApply, ~spoiled,
           Len(results) >= 1, results[1] # StatusFailed
    PROVE  SysctlsDone'
<1> USE DEF IInv
<1>1. SysctlsDone BY DEF ProgressInv
<1>2. sysctlFile' = {profile.sysctls}
    BY <1>1 DEF SysctlsDone, Effect, files
<1>3. ASSUME clean >= 1 PROVE DiffLive' = {}
  <2>1. Persisted /\ DiffLive = {}
      BY <1>1, <1>3 DEF HistoryInv, SysctlsDone
  <2> QED BY <2>1, SettledStable
<1> QED BY <1>2, <1>3 DEF SysctlsDone

LEMMA SysctlProgress ==
    ASSUME IInv, SysctlCheck \/ SysctlApplyKey \/ SysctlPersist
    PROVE  ProgressInv'
<1> USE DEF IInv
<1> SUFFICES ASSUME mode' = ModeApply, ~spoiled' PROVE
        /\ pc' = "sysctl-apply" => KeysDone'
        /\ Len(results') >= 1 /\ results'[1] # StatusFailed => SysctlsDone'
        /\ pc' # "module-apply" /\ Len(results') < 2
    BY DEF ProgressInv
<1>t. /\ results \in Seq(Status) /\ Len(results) = 0 /\ at \in Nat
      /\ mode = ModeApply /\ ~spoiled /\ profile' = profile /\ clean' = clean
      /\ pc # "idle" /\ mode' = mode
  <2>1. /\ pc \in {"sysctl-check", "sysctl-apply"}
        /\ UNCHANGED << mode, spoiled, profile, clean >>
      BY DEF SysctlCheck, SysctlApplyKey, SysctlPersist, Stay
  <2>2. ~spoiled BY <2>1, Zenon
  <2>3. results \in Seq(Status) /\ Len(results) = 0 /\ at \in Nat
      BY <2>1 DEF TypeInv, RunType
  <2> QED BY <2>1, <2>2, <2>3
<1>r. ASSUME NEW s \in Status, results' = Append(results, s)
      PROVE  results'[1] = s /\ Len(results') = 1
  <2>1. Len(results') = Len(results) + 1 /\ results'[Len(results) + 1] = s
      BY <1>r, <1>t, Reported
  <2> QED BY <2>1, <1>t
<1>1. CASE SysctlCheck
  <2>1. UNCHANGED << kernel, files >> BY <1>1 DEF SysctlCheck
  <2>2. CASE pc' = "sysctl-apply" /\ at' = 1 /\ results' = results
    <3>1. Len(results') = 0 BY <1>t, <2>2
    <3> QED BY <2>2, <3>1, Orders DEF KeysDone
  <2>3. CASE pc' = "module-check" /\ ~SysctlDrift
             /\ results' = Append(results, StatusUnchanged)
    <3>1. SysctlsDone'
        BY <1>t, <2>1, <2>3 DEF SysctlDrift, SysctlPersistNeeded, SysctlsDone,
                                DiffLive, SysctlExists, kernel, files
    <3> QED BY <1>r, <2>3, <3>1, Statuses
  <2>4. CASE pc' = "module-check" /\ results' = Append(results, StatusFailed)
      BY <1>r, <2>4, Statuses
  <2> QED BY <1>1, <1>t, <2>2, <2>3, <2>4 DEF SysctlCheck, Act, Goto, Report
<1>2. CASE SysctlApplyKey
  <2>1. /\ pc = "sysctl-apply" /\ inserted' = inserted
        /\ at \in 1 .. Len(KeyOrder) /\ KeysDone
      BY <1>2, <1>t, Orders DEF SysctlApplyKey, TypeInv, RunType, ProgressInv
  <2>2. ASSUME DiffLive' \subseteq DiffLive, KeyOrder[at] \notin DiffLive',
               at' = at + 1
        PROVE  KeysDone'
    <3>1. ASSUME NEW j \in 1 .. Len(KeyOrder), j < at'
          PROVE  KeyOrder[j] \notin DiffLive'
      <4>1. j < at \/ j = at BY <1>t, <2>2, <3>1, Orders
      <4> QED BY <2>1, <2>2, <3>1, <4>1 DEF KeysDone
    <3> QED BY <3>1 DEF KeysDone
  <2>3. CASE KeyOrder[at] \notin DiffLive /\ at' = at + 1
             /\ UNCHANGED << pc, live, results >>
    <3>1. DiffLive' = DiffLive BY <1>t, <2>1, <2>3 DEF DiffLive, SysctlExists
    <3>2. KeysDone' BY <2>2, <2>3, <3>1
    <3>3. Len(results') = 0 BY <1>t, <2>3
    <3> QED BY <2>1, <2>3, <3>2, <3>3
  <2>4. CASE KeyOrder[at] \in DiffLive /\ at' = at + 1 /\ UNCHANGED << pc, results >>
             /\ live' = [live EXCEPT ![KeyOrder[at]] = profile.sysctls[KeyOrder[at]]]
    <3>1. DiffLive' \subseteq DiffLive \ {KeyOrder[at]}
        BY <1>t, <2>1, <2>4, KeyWritten
    <3>2. KeysDone' BY <2>2, <2>4, <3>1
    <3>3. Len(results') = 0 BY <1>t, <2>4
    <3> QED BY <2>1, <2>4, <3>2, <3>3
  <2>5. CASE results' = Append(results, StatusFailed) /\ pc' = "module-check"
      BY <1>r, <2>5, Statuses
  <2> QED BY <1>2, <2>3, <2>4, <2>5 DEF SysctlApplyKey, Goto, Report
<1>3. CASE SysctlPersist
  <2>1. pc = "sysctl-apply" /\ at > Len(KeyOrder) /\ pc' = "module-check" /\ KeysDone
      BY <1>3, <1>t DEF SysctlPersist, Goto, ProgressInv
  <2>2. CASE results' = Append(results, StatusFailed)
      BY <1>r, <2>1, <2>2, Statuses
  <2>3. CASE results' = Append(results, StatusChanged) /\ sysctlFile' = {profile.sysctls}
    <3>1. DiffLive = {}
      <4>1. ASSUME NEW k \in DiffLive PROVE FALSE
        <5>1. k \in Keys
            BY <4>1, ProfileFields DEF DiffLive, TypeInv, KernelType
        <5>2. PICK i \in 1 .. Len(KeyOrder) : KeyOrder[i] = k
            BY <5>1, Orders
        <5>3. i < at BY <1>t, <2>1, <5>2, Orders
        <5> QED BY <2>1, <4>1, <5>2, <5>3 DEF KeysDone
      <4> QED BY <4>1
    <3>2. DiffLive' = {}
        BY <1>3, <1>t, <3>1 DEF SysctlPersist, DiffLive, SysctlExists, kernel
    <3>3. SysctlsDone' BY <1>t, <2>3, <3>2 DEF SysctlsDone
    <3> QED BY <1>r, <2>1, <2>3, <3>3, Statuses
  <2> QED BY <1>3, <2>2, <2>3 DEF SysctlPersist, Report
<1> QED BY <1>1, <1>2, <1>3

LEMMA ModuleProgress ==
    ASSUME IInv, ModuleCheck \/ ModuleRead \/ ModuleApplyNext \/ ModulesPersist
    PROVE  ProgressInv'
<1> USE DEF IInv
<1> SUFFICES ASSUME mode' = ModeApply, ~spoiled' PROVE
        /\ pc' # "sysctl-apply"
        /\ results'[1] # StatusFailed => SysctlsDone'
        /\ pc' = "module-apply" => ModulesDone'
        /\ Len(results') = 2 /\ results'[2] # StatusFailed => ModulesAsDesired'
    BY DEF ProgressInv
<1>t. /\ results \in Seq(Status) /\ Len(results) = 1 /\ at \in Nat
      /\ mode = ModeApply /\ ~spoiled /\ profile' = profile /\ clean' = clean
      /\ pc # "idle"
  <2>1. /\ pc \in {"module-check", "module-read", "module-apply"}
        /\ UNCHANGED << mode, spoiled, profile, clean >>
      BY DEF ModuleCheck, ModuleRead, ModuleApplyNext, ModulesPersist, Stay
  <2>2. ~spoiled BY <2>1, Zenon
  <2>3. results \in Seq(Status) /\ Len(results) = 1 /\ at \in Nat
      BY <2>1 DEF TypeInv, RunType
  <2> QED BY <2>1, <2>2, <2>3
<1>r. ASSUME NEW s \in Status, results' = Append(results, s)
      PROVE  results'[1] = results[1] /\ results'[2] = s
  <2>1. /\ \A i \in 1 .. Len(results) : results'[i] = results[i]
        /\ results'[Len(results) + 1] = s
      BY <1>r, <1>t, Reported
  <2> QED BY <2>1, <1>t
<1>e. Effect BY RunEffect DEF RunStep
<1>k. results'[1] = results[1] => (results'[1] # StatusFailed => SysctlsDone')
    BY <1>t, <1>e, FirstVerdictKept
<1>f. ASSUME results' = Append(results, StatusFailed)
      PROVE  /\ results'[1] = results[1]
             /\ Len(results') = 2 /\ results'[2] # StatusFailed => ModulesAsDesired'
    BY <1>f, <1>r, Statuses
<1>s. ASSUME results' = results
      PROVE  /\ results'[1] = results[1]
             /\ Len(results') = 2 /\ results'[2] # StatusFailed => ModulesAsDesired'
    BY <1>s, <1>t
<1>1. CASE ModuleCheck
  <2>1. UNCHANGED << kernel, files >> /\ pc' \in {"report", "module-read"}
      BY <1>1 DEF ModuleCheck, Act, Goto
  <2>2. CASE results' = results
      BY <1>k, <1>s, <2>1, <2>2
  <2>3. CASE results' = Append(results, StatusFailed)
      BY <1>k, <1>f, <2>1, <2>3
  <2>4. ASSUME NEW s \in Status, results' = Append(results, s), ModulesAsDesired
        PROVE  /\ results'[1] = results[1] /\ ModulesAsDesired'
      BY <1>t, <1>r, <2>1, <2>4 DEF ModulesAsDesired, kernel, files
  <2>5. CASE profile.modules = {} /\ results' = Append(results, StatusSkipped)
    <3>1. ModulesAsDesired BY <2>5 DEF ModulesAsDesired
    <3> QED BY <1>k, <2>1, <2>4, <2>5, <3>1, Statuses
  <2>6. CASE ~ModuleDrift /\ results' = Append(results, StatusUnchanged)
    <3>1. ModulesAsDesired
        BY <2>6 DEF ModulesAsDesired, ModuleDrift, ModulesPersistNeeded
    <3> QED BY <1>k, <2>1, <2>4, <2>6, <3>1, Statuses
  <2> QED BY <1>1, <1>t, <2>2, <2>3, <2>5, <2>6 DEF ModuleCheck, Act, Report
<1>2. CASE ModuleRead
  <2>1. CASE seen' = inserted /\ pc' = "module-apply" /\ results' = results
    <3>1. at' = 1 /\ inserted' = inserted
        BY <1>2 DEF ModuleRead, kernel, TypeInv, RunType
    <3>2. ModulesDone' BY <2>1, <3>1, Orders DEF ModulesDone
    <3> QED BY <1>k, <1>s, <2>1, <3>2
  <2>2. CASE results' = Append(results, StatusFailed) /\ pc' = "report"
      BY <1>k, <1>f, <2>2
  <2> QED BY <1>2, <2>1, <2>2 DEF ModuleRead, Goto, Report
<1>3. CASE ModuleApplyNext
  <2>1. /\ pc = "module-apply" /\ seen' = seen
        /\ at \in 1 .. Len(ModuleOrder) /\ ModulesDone
      BY <1>3, <1>t, Orders DEF ModuleApplyNext, TypeInv, RunType, ProgressInv
  <2>2. ASSUME inserted \subseteq inserted', at' = at + 1,
               ModuleOrder[at] \in profile.modules
                  => ModuleOrder[at] \in inserted' \cup BuiltIn
        PROVE  ModulesDone'
    <3>1. ASSUME NEW j \in 1 .. Len(ModuleOrder), j < at',
                 ModuleOrder[j] \in profile.modules
          PROVE  ModuleOrder[j] \in inserted' \cup BuiltIn
      <4>1. j < at \/ j = at BY <1>t, <2>2, <3>1, Orders
      <4> QED BY <2>1, <2>2, <3>1, <4>1 DEF ModulesDone
    <3>2. seen' \subseteq inserted' BY <2>1, <2>2 DEF ModulesDone
    <3> QED BY <1>t, <3>1, <3>2 DEF ModulesDone
  <2>3. CASE ModuleOrder[at] \notin profile.modules \ seen /\ at' = at + 1
             /\ UNCHANGED << pc, kernel, results >>
    <3>1. ModulesDone' BY <2>1, <2>2, <2>3 DEF ModulesDone, kernel
    <3> QED BY <1>k, <1>s, <2>1, <2>3, <3>1
  <2>4. CASE Modprobe(ModuleOrder[at]) /\ at' = at + 1 /\ UNCHANGED << pc, results >>
    <3>1. inserted \subseteq inserted' /\ ModuleOrder[at] \in inserted' \cup BuiltIn
        BY <2>1, <2>4, Orders, ModprobeType DEF TypeInv
    <3>2. ModulesDone' BY <2>2, <2>4, <3>1
    <3> QED BY <1>k, <1>s, <2>1, <2>4, <3>2
  <2>5. CASE results' = Append(results, StatusFailed) /\ pc' = "report"
      BY <1>k, <1>f, <2>5
  <2> QED BY <1>3, <2>3, <2>4, <2>5 DEF ModuleApplyNext, Goto, Report
<1>4. CASE ModulesPersist
  <2>1. /\ pc = "module-apply" /\ at > Len(ModuleOrder) /\ pc' = "report"
        /\ ModulesDone /\ inserted' = inserted
      BY <1>4, <1>t DEF ModulesPersist, Goto, ProgressInv, kernel
  <2>2. CASE results' = Append(results, StatusFailed)
      BY <1>k, <1>f, <2>1, <2>2
  <2>3. CASE results' = Append(results, StatusChanged) /\ modulesFile' = {profile.modules}
    <3>1. ASSUME NEW m \in profile.modules PROVE m \in inserted \cup BuiltIn
      <4>1. m \in Modules
          BY <3>1, ProfileFields DEF TypeInv, KernelType
      <4>2. PICK i \in 1 .. Len(ModuleOrder) : ModuleOrder[i] = m
          BY <4>1, Orders
      <4>3. i < at BY <1>t, <2>1, <4>2, Orders
      <4> QED BY <2>1, <3>1, <4>2, <4>3 DEF ModulesDone
    <3>2. ModulesAsDesired' BY <1>t, <2>1, <2>3, <3>1 DEF ModulesAsDesired
    <3> QED BY <1>k, <1>r, <2>1, <2>3, <3>2, Statuses
  <2> QED BY <1>4, <2>2, <2>3 DEF ModulesPersist, Report
<1> QED BY <1>1, <1>2, <1>3, <1>4

LEMMA ProgressStep ==
    ASSUME IInv, Next
    PROVE  ProgressInv'
<1>1. CASE Begin
  <2>1. pc' = "sysctl-check" /\ Len(results') = 0 BY <1>1 DEF Begin, Goto
  <2> QED BY <2>1 DEF ProgressInv
<1>2. CASE SysctlCheck \/ SysctlApplyKey \/ SysctlPersist BY <1>2, SysctlProgress
<1>3. CASE ModuleCheck \/ ModuleRead \/ ModuleApplyNext \/ ModulesPersist
    BY <1>3, ModuleProgress
<1>4. CASE Finish \/ Kill \/ EditConfig \/ Reboot
  <2>1. pc' = "idle" BY <1>4 DEF Finish, Kill, EditConfig, Reboot, Goto, run
  <2> QED BY <2>1 DEF ProgressInv
<1>5. CASE Disturb
  <2>1. spoiled' BY <1>5 DEF Disturb, Forget
  <2> QED BY <2>1 DEF ProgressInv
<1> QED BY <1>1, <1>2, <1>3, <1>4, <1>5 DEF Next

LEMMA Inductive == Spec => []IInv
<1>1. Init => IInv
  <2>1. Init => clean = 0 /\ booted = FALSE /\ pc = "idle" BY DEF Init
  <2> QED BY <2>1, InitType DEF IInv, HistoryInv, ProgressInv
<1>2. IInv /\ [Next]_vars => IInv'
  <2> SUFFICES ASSUME IInv, [Next]_vars PROVE IInv' OBVIOUS
  <2>1. TypeInv' BY TypeStep DEF IInv
  <2>2. CASE Next BY <2>1, <2>2, HistoryStep, ProgressStep DEF IInv
  <2>3. CASE UNCHANGED vars
    <3>1. HistoryInv'
        BY <2>3 DEF vars, kernel, files, run, IInv, HistoryInv, Persisted,
            ModulesAsDesired, DiffLive, SysctlExists, Dropped
    <3>2. ProgressInv'
        BY <2>3 DEF vars, kernel, files, run, IInv, ProgressInv, KeysDone, SysctlsDone,
            ModulesDone, ModulesAsDesired, DiffLive, SysctlExists
    <3> QED BY <2>1, <3>1, <3>2 DEF IInv
  <2> QED BY <2>2, <2>3
<1> QED BY <1>1, <1>2, PTL DEF Spec

\* For any keys, modules and profiles: two successful apply runs with nothing
\* in between leave the host in the desired state, whatever killed, failed or
\* older runs left behind (sysctl.go and kmod.go, in engine.Run's order).
THEOREM ConvergeTheorem == Spec => []TwoAppliesConverge
<1>1. IInv => TwoAppliesConverge
    BY DiffIsEmpty DEF IInv, HistoryInv, Persisted, TwoAppliesConverge, SysctlsAsDesired
<1> QED BY <1>1, Inductive, PTL

\* For any keys, modules and profiles: after one successful apply and any
\* number of reboots, the drop-ins alone have brought the desired state back
\* (sysctl.go's and kmod.go's persisted files, read at boot).
THEOREM SurvivesRebootTheorem == Spec => []SurvivesReboot
<1>1. IInv => SurvivesReboot
    BY DiffIsEmpty DEF IInv, HistoryInv, Persisted, Dropped, SurvivesReboot,
                       SysctlsAsDesired
<1> QED BY <1>1, Inductive, PTL
=============================================================================
