------------------------------- MODULE Tuning -------------------------------
(***************************************************************************)
(* From facts and config to the device knobs: a run of `apply` builds the   *)
(* profile (Profile), picks the network interface (sysutil/netdev.go) and   *)
(* runs the resources that write the files of a device: the limits drop-ins *)
(* (dropinfile.go), irq-affinity, nic-tuning, cpu-governor, io-scheduler,   *)
(* in engine.Build's order.  They share state: nic-tuning's `ethtool -G`    *)
(* makes the driver set the interface's interrupts and masks up again.      *)
(*                                                                          *)
(* One step per Check, per listing and per file written, so that a kill, a  *)
(* failure or another program can come in between.  A check run takes the   *)
(* Check steps only (Engine).  A mask file's text is the sequence of its    *)
(* 32-bit words, most significant first, a word the set of its bits; an     *)
(* interrupt's affinity list is the set of its CPUs, printed canonically.   *)
(***************************************************************************)
EXTENDS Resource, Profile, Sequences

CONSTANTS
    Links,     \* what /sys/class/net may list, in ReadDir's order
    Hardware,  \* the interfaces with a device behind them
    Files,     \* Files[i]: one knob, in the order the code visits the knobs
    Lacking,   \* the files missing at first
    CpuCounts, \* numbers of CPUs the host may have online
    CpuIds,    \* the number of CPUs the kernel prints masks for
    Sizings,   \* what facts.Gather may answer
    Configs,   \* what config.Load may answer
    MaxFaults, \* bound on failures, kills and changes of facts or config
    MaxDisturbs \* bound on what others do to the host

Kinds == {"limits", "irq", "rps", "xps", "governor", "scheduler"}
Steering == {"rps", "xps"}
WordBits == 32
CpuRange(n) == 0 .. (n - 1)
Members(s) == {s[i] : i \in DOMAIN s}

\* A knob: its kind, the interface it belongs to ("host": none), and the
\* values its driver offers and starts with where those are names
OfDevice(kind) == kind \in Steering \cup {"irq"}
ASSUME TuningAssumption ==
    /\ DOMAIN Files \subseteq Nat /\ IsFiniteSet(DOMAIN Files)
    /\ \A i \in DOMAIN Files :
          /\ Files[i].kind \in Kinds
          /\ Files[i].default \in Files[i].offers \cup {""}
          /\ Files[i].dev # "" /\ (Files[i].dev = "host" <=> ~OfDevice(Files[i].kind))
    /\ Links \subseteq Seq(STRING) /\ Hardware \cap {"", "lo"} = {}
    /\ Lacking \subseteq DOMAIN Files
    /\ CpuIds \in Nat /\ CpuCounts \subseteq 1 .. CpuIds
    /\ Sizings \subseteq Sizing /\ \A c \in Configs : IsConfig(c)
    /\ {MaxFaults, MaxDisturbs} \subseteq Nat

VARIABLES
    links, cpus,    \* the host: its interfaces and online CPUs,
    there, knob,    \* the files there are and the values in them,
    lowRings,       \* the ring buffers of the NIC below their maximum
    sizing, config, \* the facts and the config the latest run read
    profile, iface, \* ... and what it made of them
    pc,             \* where the run is
    resources,      \* the resources left, the current one first
    phases,         \* the steps left of the current resource's Apply
    listed, rest,   \* the files this phase listed, and those left
    results,
    clean,          \* history: undisturbed apply runs that exited 0, in a row
    upset,          \* history: what went wrong in this run
    faults, disturbs

host   == << links, cpus, there, knob, lowRings >>
inputs == << sizing, config, profile, iface >>
run    == << pc, resources, phases, listed, rest, results >>
vars   == << host, inputs, run, clean, upset, faults, disturbs >>

-----------------------------------------------------------------------------
(* CPU masks.                                                               *)

\* cpumaskAll: the low n bits, word by word
CpumaskAll(n) ==
    LET bits == PositiveOr(n, 1)
        words == (bits + WordBits - 1) \div WordBits
    IN  [w \in 1 .. words |->
            {b \in CpuRange(WordBits) : (words - w) * WordBits + b < bits}]

\* parseCPUMaskBits
ParseCPUMaskBits(words) ==
    UNION {{(Len(words) - w) * WordBits + b : b \in words[w]} : w \in DOMAIN words}

\* Mutant: the text read back is compared with the text written
CpuMasksLiteral(a, b) == a = b

CpuMasksEqual(a, b) == ParseCPUMaskBits(a) = ParseCPUMaskBits(b)

\* The kernel prints a mask at its own width, and reads any
KernelPrint(mask) ==
    LET words == (CpuIds + WordBits - 1) \div WordBits
    IN  [w \in 1 .. words |->
            {c % WordBits : c \in {d \in mask : d \div WordBits = words - w}}]
KernelRead(words) == {c \in CpuRange(Len(words) * WordBits) :
                        c % WordBits \in words[Len(words) - c \div WordBits]}

-----------------------------------------------------------------------------
(* What a run looks at.                                                     *)

First(S) == CHOOSE i \in S : \A j \in S : i <= j
Named(ls) == {i \in DOMAIN ls : ls[i] # "lo"}
WithDevice(ls) == {i \in Named(ls) : ls[i] \in Hardware}

\* Mutant: the first interface that is not the loopback
FirstInterface(ls) == IF Named(ls) = {} THEN "" ELSE ls[First(Named(ls))]

\* Env.PrimaryInterface
PrimaryInterface(ls) ==
    IF WithDevice(ls) # {} THEN ls[First(WithDevice(ls))]
    ELSE IF Named(ls) # {} THEN ls[First(Named(ls))] ELSE ""

When(condition, name) == IF condition THEN << name >> ELSE << >>

\* engine.Build, these resources of it
ResourceList(p) ==
    When(p.noFile > 0, "limits") \o When(p.irq, "irq")
    \o When(p.ringBufferMax \/ p.rps \/ p.xps, "nic")
    \o When(p.governor # "", "governor") \o When(p.ioEnabled, "scheduler")

Kind(i) == Files[i].kind
Here(i) == i \in there /\ (Files[i].dev = "host" \/ Files[i].dev \in Members(links))
Present == {i \in there : Here(i)}

OfKind(kind) == {i \in DOMAIN Files : Kind(i) = kind}
OfInterface(kind) == {i \in OfKind(kind) : Files[i].dev = iface}

\* enaIRQs: the interface's lines of /proc/interrupts, sorted
EnaIRQs == {i \in OfInterface("irq") : Here(i)}
\* queueDirs: a queue's directory need not hold the steering file
QueueDirs(kind) == OfInterface(kind)
GovernorPaths == {i \in OfKind("governor") : Here(i)}
NvmeDevices == {i \in OfKind("scheduler") : Here(i)}

Listing(kind) == CASE kind = "irq" -> EnaIRQs
                   [] kind \in Steering -> QueueDirs(kind)
                   [] kind = "governor" -> GovernorPaths
                   [] kind = "scheduler" -> NvmeDevices
                   [] kind = "limits" -> OfKind(kind)

\* Mutant: the last CPU is left out
DesiredAffinityShort(i, irqs) ==
    {Cardinality({j \in irqs : j < i}) % (PositiveOr(sizing.vcpus, 2) - 1)}

\* desiredAffinity: round robin over the sorted interrupts
DesiredAffinity(i, irqs) ==
    {Cardinality({j \in irqs : j < i}) % PositiveOr(sizing.vcpus, 1)}

\* RenderLimitsConf, RenderSystemdLimitDropIn: nproc is always 0
RenderLimits == profile.noFile

\* The value a resource wants in a file (a mask: as its text)
Want(i, files) ==
    CASE Kind(i) = "limits" -> RenderLimits
      [] Kind(i) = "irq" -> DesiredAffinity(i, files)
      [] Kind(i) \in Steering -> CpumaskAll(sizing.vcpus)
      [] Kind(i) = "governor" -> profile.governor
      [] Kind(i) = "scheduler" -> profile.ioScheduler

Matches(i, files) ==
    IF Kind(i) \in Steering
    THEN CpuMasksEqual(KernelPrint(knob[i]), Want(i, files))
    ELSE knob[i] = Want(i, files)

\* readScheduler: a device that does not offer the scheduler is left alone
Offered(i) == Kind(i) = "scheduler" => profile.ioScheduler \in Files[i].offers

\* queueMaskDrift and its like: a file that can be read differs
Drifted(kind, unread) ==
    LET files == Listing(kind)
    IN  \E i \in files \ unread : Here(i) /\ Offered(i) /\ ~Matches(i, files)

\* `ethtool -g` shows a ring below its maximum
RingDrift == iface \in Hardware \cap Members(links) /\ lowRings # {}

Steers(kind) == profile[kind] /\ sizing.vcpus > 1

\* The resources' Checks, when they cannot read some files, or ask ethtool
Found(drift) == IF drift THEN StatusWouldChange ELSE StatusUnchanged
DropInCheck(unread) ==
    Found(\E i \in OfKind("limits") : i \in unread \/ ~Here(i) \/ ~Matches(i, {i}))
IrqCheck(unread) ==
    IF iface = "" \/ sizing.vcpus <= 1 \/ EnaIRQs = {} THEN StatusSkipped
    ELSE Found(Drifted("irq", unread))
NicCheck(unread, rings) ==
    IF iface = "" THEN StatusSkipped
    ELSE Found(\/ profile.ringBufferMax /\ rings /\ RingDrift
               \/ \E k \in Steering : Steers(k) /\ Drifted(k, unread))
GovernorCheck(unread) ==
    IF GovernorPaths = {} THEN StatusSkipped ELSE Found(Drifted("governor", unread))
SchedulerCheck(unread) ==
    IF NvmeDevices = {} THEN StatusSkipped ELSE Found(Drifted("scheduler", unread))

CheckStatus(r, unread, rings) ==
    CASE r = "limits" -> DropInCheck(unread)
      [] r = "irq" -> IrqCheck(unread)
      [] r = "nic" -> NicCheck(unread, rings)
      [] r = "governor" -> GovernorCheck(unread)
      [] r = "scheduler" -> SchedulerCheck(unread)

\* Mutant: the masks are written before the driver sets the queues up again
PhasesRingLast(r) ==
    IF r # "nic" THEN << r >>
    ELSE When(Steers("rps"), "rps") \o When(Steers("xps"), "xps")
         \o When(profile.ringBufferMax, "ring")

\* The order of a resource's Apply
Phases(r) ==
    IF r # "nic" THEN << r >>
    ELSE When(profile.ringBufferMax, "ring")
         \o When(Steers("rps"), "rps") \o When(Steers("xps"), "xps")

-----------------------------------------------------------------------------
(* The kernel's side.                                                       *)

Default(i, n) == CASE Kind(i) = "limits" -> 0
                   [] Kind(i) = "irq" -> CpuRange(n)
                   [] Kind(i) \in Steering -> {}
                   [] OTHER -> Files[i].default

\* What a write may leave in a file.  None: it is refused.  An interrupt needs
\* an online CPU; a mask with CPUs that are not may be refused or cut.
Stored(i) ==
    LET v == Want(i, listed)
        mask == KernelRead(v)
        online == CpuRange(cpus)
    IN  IF Kind(i) = "limits" THEN {v}
        ELSE IF ~Here(i) THEN {}
        ELSE CASE Kind(i) = "irq" -> IF v \subseteq online THEN {v} ELSE {}
               [] Kind(i) \in Steering -> IF mask \subseteq online THEN {mask}
                                          ELSE {mask \cap online}
               [] OTHER -> {v} \cap Files[i].offers

MayRefuse(i) ==
    \/ Stored(i) = {}
    \/ Kind(i) \in Steering /\ ~(KernelRead(Want(i, listed)) \subseteq CpuRange(cpus))

-----------------------------------------------------------------------------
Init ==
    /\ links \in Links /\ cpus \in CpuCounts
    /\ there = DOMAIN Files \ Lacking
    /\ knob = [i \in DOMAIN Files |-> Default(i, cpus)]
    /\ lowRings = {"rx", "tx"}
    /\ sizing \in Sizings /\ config \in Configs
    /\ profile = Build(sizing, ToProfileOverrides(config))
    /\ iface = ""
    /\ pc = "idle" /\ resources = << >> /\ phases = << >>
    /\ listed = {} /\ rest = {} /\ results = << >>
    /\ clean = 0 /\ upset = {} /\ faults = 0 /\ disturbs = 0

Fault == faults < MaxFaults /\ faults' = faults + 1
Upset(cause) == Fault /\ upset' = upset \cup {cause}
Calm == UNCHANGED << faults, upset >>

\* Others act: the runs so far no longer count as undisturbed
Disturbed == disturbs < MaxDisturbs /\ disturbs' = disturbs + 1 /\ clean' = 0

\* gatherAllAndBuild and engine.Build.  The facts may be stale, degraded or
\* those of the instance type whatever the CPUs online, the config edited;
\* /sys/class/net may be unreadable.
Begin ==
    /\ pc = "idle"
    /\ \/ /\ UNCHANGED << sizing, config, clean >>
          /\ iface' = PrimaryInterface(links)
          /\ Calm
       \/ /\ Fault /\ UNCHANGED upset /\ clean' = 0
          /\ sizing' \in Sizings /\ config' \in Configs
          /\ << sizing', config' >> # << sizing, config >>
          /\ iface' = PrimaryInterface(links)
       \/ /\ Upset("tolerated")
          /\ UNCHANGED << sizing, config, clean >>
          /\ iface' = ""
    /\ profile' = Build(sizing', ToProfileOverrides(config'))
    /\ resources' = ResourceList(profile')
    /\ pc' = IF resources' = << >> THEN "report" ELSE "check"
    /\ phases' = << >> /\ listed' = {} /\ rest' = {} /\ results' = << >>
    /\ UNCHANGED << host, disturbs >>

\* engine.Run appends a result and goes on to the next resource
Report(s) ==
    /\ results' = Append(results, s)
    /\ resources' = Tail(resources)
    /\ pc' = IF Len(resources) = 1 THEN "report" ELSE "check"
    /\ phases' = << >> /\ listed' = {} /\ rest' = {}

\* Mutant: the next step goes on with this one's listing
NextPhaseListed ==
    IF Len(phases) = 1 THEN Report(StatusChanged)
    ELSE /\ phases' = Tail(phases) /\ pc' = "write" /\ rest' = {}
         /\ UNCHANGED << resources, listed, results >>

\* A step of the current Apply is done
NextPhase ==
    IF Len(phases) = 1 THEN Report(StatusChanged)
    ELSE /\ phases' = Tail(phases) /\ pc' = "list" /\ listed' = {} /\ rest' = {}
         /\ UNCHANGED << resources, results >>

\* engine.Run on the outcome of Check: Apply if there is drift
Act(s) ==
    IF s = StatusWouldChange
    THEN /\ phases' = Phases(Head(resources)) /\ pc' = "list"
         /\ listed' = {} /\ rest' = {} /\ UNCHANGED << resources, results >>
    ELSE Report(s)

\* The two Checks that fail when they cannot list
ListFails(r) == r \in {"irq", "scheduler"}
                /\ (r = "irq" => iface # "" /\ sizing.vcpus > 1)

\* Check: a file that cannot be read, or ethtool failing, is passed over; a
\* drop-in that cannot be read counts as drift
Check ==
    /\ pc = "check"
    /\ LET r == Head(resources) IN
         \/ Act(CheckStatus(r, {}, TRUE)) /\ Calm
         \/ /\ Upset(IF r = "limits" THEN "unreadable" ELSE "tolerated")
            /\ \E i \in Present :
                  /\ Kind(i) \in IF r = "nic" THEN Steering ELSE {r}
                  /\ Act(CheckStatus(r, {i}, TRUE))
         \/ r = "nic" /\ Upset("tolerated") /\ Act(CheckStatus(r, {}, FALSE))
         \/ ListFails(r) /\ Upset("failed") /\ Report(StatusFailed)
    /\ UNCHANGED << host, inputs, clean, disturbs >>

\* Apply lists the files again
List ==
    /\ pc = "list" /\ Head(phases) # "ring"
    /\ \/ /\ Listing(Head(phases)) # {}
          /\ listed' = Listing(Head(phases)) /\ rest' = listed' /\ pc' = "write"
          /\ UNCHANGED << resources, phases, results >> /\ Calm
       \/ Listing(Head(phases)) = {} /\ NextPhase /\ Calm
       \/ ListFails(Head(phases)) /\ Report(StatusFailed) /\ Upset("failed")
    /\ UNCHANGED << host, inputs, clean, disturbs >>

\* ethtool -G
RaiseRings ==
    /\ lowRings' = {}
    /\ \/ UNCHANGED knob
       \/ knob' = [i \in DOMAIN Files |->
                      IF Files[i].dev = iface /\ OfDevice(Kind(i))
                      THEN Default(i, cpus) ELSE knob[i]]

\* applyRingBufferMax: no answer from `ethtool -g` is tolerated, `ethtool -G`
\* failing is not (given up on after 15 s, it may have worked).  It may leave
\* interrupts and masks at their defaults.
Ring ==
    /\ pc = "list" /\ Head(phases) = "ring"
    /\ \/ ~RingDrift /\ NextPhase /\ UNCHANGED << knob, lowRings >> /\ Calm
       \/ NextPhase /\ UNCHANGED << knob, lowRings >> /\ Upset("tolerated")
       \/ RingDrift /\ NextPhase /\ RaiseRings /\ Calm
       \/ /\ RingDrift /\ Report(StatusFailed) /\ Upset("failed")
          /\ RaiseRings \/ UNCHANGED << knob, lowRings >>
    /\ UNCHANGED << links, cpus, there, inputs, clean, disturbs >>

\* Mutant: every file of a queue is expected to be there
QueuePassedStrict(i) == Here(i) /\ Matches(i, listed)

\* Apply passes over a mask that is right, and a queue without the steering
\* file (ENOENT); a disk that is right, cannot be asked or offers no choice;
\* any other file that is read and right
QueuePassed(i) == ~Here(i) \/ Matches(i, listed)
SchedulerPassed(i) == ~Here(i) \/ Matches(i, listed) \/ ~Offered(i)
Passed(i) == IF Kind(i) \in Steering THEN QueuePassed(i)
             ELSE IF Kind(i) = "scheduler" THEN SchedulerPassed(i)
             ELSE Here(i) /\ Matches(i, listed)

\* Files a write may go to: one that is not passed over, and one that is right
\* but cannot be read.  (Not a disk's, and not a drop-in: WriteFileIfChanged
\* returns the error of reading a file that exists.)
MayWrite(i) == ~Passed(i) \/ (Here(i) /\ Kind(i) \notin {"limits", "scheduler"})

WriteDone(i) ==
    IF rest = {i} THEN NextPhase
    ELSE /\ rest' = rest \ {i}
         /\ UNCHANGED << pc, resources, phases, listed, results >>

\* Apply, one file: the first write that fails ends the resource, and so does
\* a drop-in that cannot be read, be it since Check or only now.  (A disk that
\* cannot be read is passed over; any other file is written, if it was right
\* to no effect.)
Write ==
    /\ pc = "write"
    /\ LET i == First(rest) IN
         \/ Passed(i) /\ WriteDone(i) /\ UNCHANGED << knob, there >> /\ Calm
         \/ /\ ~Passed(i)
            /\ \E v \in Stored(i) : knob' = [knob EXCEPT ![i] = v]
            /\ there' = there \cup {i}
            /\ WriteDone(i) /\ Calm
         \/ /\ ~Passed(i) /\ MayRefuse(i)
            /\ Report(StatusFailed) /\ UNCHANGED << knob, there >> /\ Calm
         \/ /\ ~Passed(i) /\ Kind(i) = "scheduler"
            /\ WriteDone(i) /\ UNCHANGED << knob, there >> /\ Upset("tolerated")
         \/ /\ MayWrite(i)
            /\ Report(StatusFailed) /\ UNCHANGED << knob, there >> /\ Upset("failed")
         \/ /\ Kind(i) = "limits" /\ Here(i)
            /\ Report(StatusFailed) /\ UNCHANGED << knob, there >>
            /\ ("unreadable" \in upset /\ Calm) \/ Upset("unreadable")
    /\ UNCHANGED << links, cpus, lowRings, inputs, clean, disturbs >>

\* The process is gone
Exit == /\ pc' = "idle" /\ resources' = << >> /\ phases' = << >>
        /\ listed' = {} /\ rest' = {} /\ results' = << >> /\ upset' = {}

Finish ==
    /\ pc = "report" /\ Exit
    /\ clean' = IF ExitCode(results, ModeApply) # 0 \/ upset # {} THEN 0
                ELSE IF clean = 2 THEN 2 ELSE clean + 1
    /\ UNCHANGED << host, inputs, faults, disturbs >>

-----------------------------------------------------------------------------
(* The environment.                                                         *)

Kill ==
    /\ pc # "idle" /\ Exit
    /\ Fault /\ clean' = 0
    /\ UNCHANGED << host, inputs, disturbs >>

\* Another program changes a knob, a queue or an interrupt comes or goes, the
\* driver shrinks its rings, an interface comes or goes
Disturb ==
    /\ Disturbed
    /\ \/ /\ \E i \in Present :
                \E v \in {Default(i, cpus)} \cup (IF Kind(i) = "irq" THEN {{0}} ELSE {}) :
                    v # knob[i] /\ knob' = [knob EXCEPT ![i] = v]
          /\ UNCHANGED << links, there, lowRings >>
       \/ /\ \E i \in there : there' = there \ {i}
          /\ UNCHANGED << links, knob, lowRings >>
       \/ /\ \E i \in DOMAIN Files \ there : Kind(i) # "limits" /\ there' = there \cup {i}
          /\ UNCHANGED << links, knob, lowRings >>
       \/ /\ \E r \in {"rx", "tx"} \ lowRings : lowRings' = lowRings \cup {r}
          /\ UNCHANGED << links, there, knob >>
       \/ links' \in Links \ {links} /\ UNCHANGED << there, knob, lowRings >>
    /\ upset' = IF pc = "idle" THEN {} ELSE upset \cup {"disturbed"}
    /\ UNCHANGED << cpus, inputs, run, faults >>

\* A stop and a start, perhaps as another instance type: what is not a file
\* on disk is lost, and the cached facts are not
Restart ==
    /\ Disturbed
    /\ cpus' \in CpuCounts
    /\ knob' = [i \in DOMAIN Files |->
                   IF Kind(i) = "limits" THEN knob[i] ELSE Default(i, cpus')]
    /\ lowRings' = {"rx", "tx"}
    /\ Exit
    /\ UNCHANGED << links, there, inputs, faults >>

Next == \/ Begin \/ Check \/ List \/ Ring \/ Write \/ Finish
        \/ Kill \/ Disturb \/ Restart

Spec == Init /\ [][Next]_vars

-----------------------------------------------------------------------------
Causes == {"tolerated", "unreadable", "failed", "disturbed"}

TypeOK ==
    /\ links \in Links /\ cpus \in CpuCounts
    /\ there \subseteq DOMAIN Files
    /\ \A i \in DOMAIN Files :
          knob[i] \in CASE Kind(i) = "limits" -> Nat
                        [] OfDevice(Kind(i)) -> SUBSET CpuRange(cpus)
                        [] OTHER -> Files[i].offers \cup {Files[i].default}
    /\ lowRings \subseteq {"rx", "tx"}
    /\ sizing \in Sizings /\ config \in Configs
    /\ iface \in {""} \cup UNION {Members(ls) : ls \in Links}
    /\ pc \in {"idle", "check", "list", "write", "report"}
    /\ pc \in {"check", "list", "write"} => resources # << >>
    /\ pc \in {"list", "write"} => phases # << >>
    /\ pc = "write" => rest # {} /\ rest \subseteq listed
    /\ results \in Seq(Status)
    /\ clean \in 0 .. 2 /\ upset \subseteq Causes

\* The facts do not promise CPUs the host does not have
FactsFit == sizing.vcpus <= cpus
Mine(kind) == {i \in Present : Kind(i) = kind /\ Files[i].dev \in {iface, "host"}}
OffersGovernor == \A i \in Mine("governor") : profile.governor \in Files[i].offers

\* One undisturbed apply that exits 0 leaves every knob but the interrupts as
\* the config asks: drop-ins, rings, masks over all CPUs, governor, scheduler
\* where it is offered -- although the ring change resets masks on its way.
ApplyTunes ==
    pc = "idle" /\ clean >= 1 /\ FactsFit =>
        /\ \A i \in Mine("limits") : knob[i] = profile.noFile
        /\ profile.ringBufferMax /\ iface \in Hardware => lowRings = {}
        /\ \A k \in Steering : Steers(k) =>
              \A i \in Mine(k) : knob[i] = CpuRange(sizing.vcpus)
        /\ profile.governor # "" =>
              \A i \in Mine("governor") : knob[i] = profile.governor
        /\ profile.ioEnabled =>
              \A i \in Mine("scheduler") : Offered(i) => knob[i] = profile.ioScheduler

\* Two in a row spread the interrupts: each is on one CPU, and no CPU serves
\* two more of them than another.  (One apply is not enough: irq-affinity runs
\* before nic-tuning, whose ring change sets the interrupts up again.)
IrqsSpread ==
    pc = "idle" /\ clean = 2 /\ FactsFit /\ profile.irq /\ sizing.vcpus > 1 =>
        LET load(c) == Cardinality({i \in Mine("irq") : knob[i] = {c}})
            all == CpuRange(sizing.vcpus)
        IN  /\ \A i \in Mine("irq") : \E c \in all : knob[i] = {c}
            /\ \A c, d \in all : load(c) <= load(d) + 1

\* After two, an undisturbed run finds nothing to do: no Apply begins.  The
\* text of a mask is not the text written: the kernel pads it.  (The run after
\* the first may still have work: the interrupts its ring change reset.)
SettledRunUnchanged ==
    clean = 2 /\ pc # "idle" /\ upset = {} /\ FactsFit =>
        phases = << >> /\ StatusChanged \notin Members(results)

\* An apply fails only if a listing, a write or `ethtool -G` failed, a drop-in
\* could not be read, the host changed under it, the facts promise CPUs it has
\* not, or the governor asked for is not offered.  Any other file it cannot
\* read, an ethtool that does not answer and a queue without the steering file
\* are no cause, nor is a /sys/class/net that cannot be listed.
FailsOnlyForCause ==
    pc = "report" /\ ExitCode(results, ModeApply) = 1 =>
        \/ upset \cap {"failed", "unreadable", "disturbed"} # {}
        \/ ~FactsFit \/ ~OffersGovernor

\* A run writes the knobs of a software interface (a bridge, a veth) only on a
\* host without a hardware one, and no knob the config turned off.
TouchesOnlyItsOwn ==
    [][pc = "write" /\ disturbs' = disturbs /\ "disturbed" \notin upset =>
         \A i \in {j \in DOMAIN Files : knob'[j] # knob[j]} :
            /\ \/ Files[i].dev \in Hardware \cup {"host"}
               \/ Hardware \cap Members(links) = {}
            /\ CASE Kind(i) = "irq" -> config.irqAffinity # {FALSE}
                 [] Kind(i) = "rps" -> config.rps # {FALSE}
                 [] Kind(i) = "xps" -> config.xps # {FALSE}
                 [] Kind(i) = "governor" -> config.governor # {""}
                 [] Kind(i) = "scheduler" -> config.ioScheduler # {""}
                 [] OTHER -> TRUE]_vars

ThreshKeys == << "net.ipv4.neigh.default.gc_thresh1",
                 "net.ipv4.neigh.default.gc_thresh2",
                 "net.ipv4.neigh.default.gc_thresh3" >>

\* Whatever the facts, the three neighbour-table thresholds the kernel wants
\* in order are: each has its own floor, so a clamp could cross them.
ThresholdsOrdered ==
    DOMAIN config.sysctls \cap Members(ThreshKeys) = {} =>
        \A j \in 1 .. 2 :
            profile.sysctls[ThreshKeys[j]][1] < profile.sysctls[ThreshKeys[j + 1]][1]

\* configs/example.yaml on sysctl.overrides: "Merged on top of the computed
\* sysctl map, highest precedence."
OverridesAreHighest ==
    pc # "idle" =>
        \A k \in DOMAIN config.sysctls : profile.sysctls[k] = config.sysctls[k]

NoSmaller(f, g) == \A field \in DOMAIN f : f[field] <= g[field]

\* A run on an instance that is no smaller, with the config unchanged, never
\* lowers a scaled value the operator leaves alone: no formula and no clamp
\* turns around.
GrowsWithInstance ==
    [][NoSmaller(sizing, sizing') /\ config' = config =>
         \A k \in ScalingKeys \ DOMAIN config.sysctls :
            \A j \in DOMAIN profile.sysctls[k] :
                profile.sysctls[k][j] <= profile'.sysctls[k][j]]_vars
=============================================================================
