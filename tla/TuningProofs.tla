---------------------------- MODULE TuningProofs ----------------------------
(***************************************************************************)
(* Tuning's properties for any facts, config, knobs, interfaces and bounds. *)
(***************************************************************************)
EXTENDS Tuning, ProfileProofs, WellFoundedInduction, SequenceTheorems, TLAPS

-----------------------------------------------------------------------------
(* The profile is always what Build makes of the facts and the config read. *)

ProfileInv ==
    /\ sizing \in Sizings /\ config \in Configs
    /\ profile = Build(sizing, ToProfileOverrides(config))

LEMMA InputsStep ==
    ASSUME [Next]_vars
    PROVE  Begin \/ UNCHANGED inputs
<1>1. CASE Begin BY <1>1
<1>2. CASE Check BY <1>2 DEF Check
<1>3. CASE List BY <1>3 DEF List
<1>4. CASE Ring BY <1>4 DEF Ring
<1>5. CASE Write BY <1>5 DEF Write
<1>6. CASE Finish BY <1>6 DEF Finish
<1>7. CASE Kill BY <1>7 DEF Kill
<1>8. CASE Disturb BY <1>8 DEF Disturb
<1>9. CASE Restart BY <1>9 DEF Restart
<1>10. CASE UNCHANGED vars BY <1>10 DEF vars
<1> QED BY <1>1, <1>2, <1>3, <1>4, <1>5, <1>6, <1>7, <1>8, <1>9, <1>10 DEF Next

LEMMA ProfileStep ==
    ASSUME ProfileInv, [Next]_vars
    PROVE  ProfileInv'
<1>1. CASE Begin BY <1>1 DEF Begin, ProfileInv
<1>2. CASE UNCHANGED inputs BY <1>2 DEF inputs, ProfileInv
<1> QED BY <1>1, <1>2, InputsStep

LEMMA ProfileInvariant == Spec => []ProfileInv
<1>1. Init => ProfileInv BY DEF Init, ProfileInv
<1> QED BY <1>1, ProfileStep, PTL DEF Spec

LEMMA ReadInputs ==
    ASSUME ProfileInv
    PROVE  sizing \in Sizing /\ IsConfig(config)
BY TuningAssumption DEF ProfileInv

\* Whatever facts are read, unknown or huge, applyScaling's three neighbour
\* thresholds are in the order the kernel needs (scaling.go).
THEOREM ThresholdsTheorem == Spec => []ThresholdsOrdered
<1>1. ASSUME ProfileInv PROVE ThresholdsOrdered
  <2> SUFFICES ASSUME DOMAIN config.sysctls \cap Members(ThreshKeys) = {},
                      NEW j \in 1 .. 2
               PROVE  profile.sysctls[ThreshKeys[j]][1]
                         < profile.sysctls[ThreshKeys[j + 1]][1]
      BY DEF ThresholdsOrdered
  <2>1. ASSUME NEW i \in 1 .. 3
        PROVE  ThreshKeys[i] \in ScalingKeys \ DOMAIN config.sysctls
    <3>1. ThreshKeys[i] \in Members(ThreshKeys) BY DEF ThreshKeys, Members
    <3>2. ThreshKeys[i] \in ScalingKeys BY DEF ThreshKeys, ScalingKeys
    <3> QED BY <3>1, <3>2
  <2>2. ASSUME NEW i \in 1 .. 3
        PROVE  profile.sysctls[ThreshKeys[i]] = ScalingSysctls(sizing)[ThreshKeys[i]]
      BY <1>1, <2>1, ReadInputs, ScaledValue, Zenon DEF ProfileInv
  <2>3. /\ ScalingSysctls(sizing)[ThreshKeys[1]] = << AtLeast(Thresh3(sizing) \div 8, 128) >>
        /\ ScalingSysctls(sizing)[ThreshKeys[2]] = << AtLeast(Thresh3(sizing) \div 2, 512) >>
        /\ ScalingSysctls(sizing)[ThreshKeys[3]] = << Thresh3(sizing) >>
      BY ScaledKeys, SMT DEF ThreshKeys
  <2>4. /\ AtLeast(Thresh3(sizing) \div 8, 128) < AtLeast(Thresh3(sizing) \div 2, 512)
        /\ AtLeast(Thresh3(sizing) \div 2, 512) < Thresh3(sizing)
      BY <1>1, ReadInputs, Thresh3Floor, ThreshOrder, SMT
  <2> QED BY <2>2, <2>3, <2>4, SMT
<1> QED BY <1>1, ProfileInvariant, PTL

\* A run on an instance that is no smaller never lowers a scaled value, for
\* all sizes: the products are monotone and no clamp turns around (scaling.go).
THEOREM GrowsTheorem == Spec => GrowsWithInstance
<1>1. ASSUME ProfileInv, [Next]_vars
      PROVE  [NoSmaller(sizing, sizing') /\ config' = config =>
               \A k \in ScalingKeys \ DOMAIN config.sysctls :
                  \A j \in DOMAIN profile.sysctls[k] :
                      profile.sysctls[k][j] <= profile'.sysctls[k][j]]_vars
  <2> SUFFICES ASSUME NoSmaller(sizing, sizing'), config' = config,
                      NEW k \in ScalingKeys \ DOMAIN config.sysctls,
                      NEW j \in DOMAIN profile.sysctls[k]
               PROVE  profile.sysctls[k][j] <= profile'.sysctls[k][j]
      OBVIOUS
  <2>1. ProfileInv' BY <1>1, ProfileStep
  <2>2. sizing \in Sizing /\ IsConfig(config) /\ sizing' \in Sizing
      BY <1>1, <2>1, TuningAssumption DEF ProfileInv
  <2>3. profile.sysctls[k] = ScalingSysctls(sizing)[k]
      BY <1>1, <2>2, ScaledValue, Zenon DEF ProfileInv
  <2>4. profile'.sysctls[k] = ScalingSysctls(sizing')[k]
      BY <2>1, <2>2, ScaledValue, Zenon DEF ProfileInv
  <2> QED BY <2>2, <2>3, <2>4, ScaledRise DEF NoSmaller, Within
<1> QED BY <1>1, ProfileInvariant, PTL DEF Spec, GrowsWithInstance

-----------------------------------------------------------------------------
(* The state of the host and of a run.                                      *)

\* The resources and steps of an Apply that the profile turns on
Resources == {"limits", "irq", "nic", "governor", "scheduler"}
MayRun(p, r) == /\ r = "irq" => p.irq
                /\ r = "governor" => p.governor # ""
                /\ r = "scheduler" => p.ioEnabled
MayDo(k)  == /\ MayRun(profile, k)
             /\ k = "rps" => profile.rps
             /\ k = "xps" => profile.xps
TurnedOn  == {r \in Resources : MayRun(profile, r)}
StepsOn   == {k \in Kinds \cup {"ring"} : MayDo(k)}

KnobType(i, n) == CASE Kind(i) = "limits" -> Nat
                    [] OfDevice(Kind(i)) -> SUBSET CpuRange(n)
                    [] OTHER -> Files[i].offers \cup {Files[i].default}
HostInv ==
    /\ links \in Links /\ cpus \in CpuCounts
    /\ there \subseteq DOMAIN Files
    /\ knob = [i \in DOMAIN Files |-> knob[i]]
    /\ \A i \in DOMAIN Files : knob[i] \in KnobType(i, cpus)
    /\ lowRings \subseteq {"rx", "tx"}

Interfaces == {""} \cup UNION {Members(ls) : ls \in Links}
InputInv == ProfileInv /\ iface \in Interfaces

\* What is being written is of the kind, and of the interface, of the step
RunInv ==
    /\ pc \in {"idle", "check", "list", "write", "report"}
    /\ resources \in Seq(TurnedOn) /\ phases \in Seq(StepsOn)
    /\ pc \in {"check", "list", "write"} => resources # << >>
    /\ pc \in {"list", "write"} => phases # << >>
    /\ pc = "write" =>
          /\ rest # {} /\ rest \subseteq listed /\ listed \subseteq DOMAIN Files
          /\ \A i \in listed : /\ Kind(i) = Head(phases)
                               /\ OfDevice(Kind(i)) => Files[i].dev = iface
    /\ results \in Seq(Status)

\* The interface is the primary one unless it could not be asked for, or the
\* interfaces changed since
IfaceInv ==
    pc # "idle" /\ "disturbed" \notin upset => iface \in {"", PrimaryInterface(links)}

HistInv == clean \in 0 .. 2 /\ upset \subseteq Causes /\ disturbs \in Nat

StateInv == HostInv /\ InputInv /\ RunInv /\ IfaceInv /\ HistInv

\* The first of some positions is one of them
LEMMA FirstIsIn ==
    ASSUME NEW S, S \subseteq Nat, S # {}
    PROVE  First(S) \in S /\ \A j \in S : First(S) <= j
<1>1. \E x \in S : \A y \in S : ~ (<< y, x >> \in OpToRel(<, Nat))
    BY NatLessThanWellFounded, WFMin
<1>2. PICK x \in S : \A y \in S : ~ (<< y, x >> \in OpToRel(<, Nat))
    BY <1>1
<1>3. ASSUME NEW y \in S PROVE x <= y
  <2>1. x \in Nat /\ y \in Nat OBVIOUS
  <2>2. ~ (y < x) BY <1>2, <2>1 DEF OpToRel
  <2> QED BY <2>1, <2>2
<1> QED BY <1>3 DEF First

\* PrimaryInterface answers a listed interface or none, and never a software
\* one if there is a hardware one
LEMMA PrimaryIsListed ==
    ASSUME NEW ls \in Links
    PROVE  /\ PrimaryInterface(ls) \in {""} \cup Members(ls)
           /\ PrimaryInterface(ls) \in Interfaces
           /\ PrimaryInterface(ls) \in Hardware \/ Hardware \cap Members(ls) = {}
<1>1. DOMAIN ls \subseteq Nat
  <2>1. ls \in Seq(STRING) BY TuningAssumption
  <2> QED BY <2>1
<1>i. \A i \in DOMAIN ls : ls[i] \in Interfaces
  <2>1. Members(ls) \subseteq Interfaces BY DEF Interfaces
  <2> QED BY <2>1 DEF Members
<1>2. CASE WithDevice(ls) # {}
  <2>1. First(WithDevice(ls)) \in WithDevice(ls)
      BY <1>1, <1>2, FirstIsIn DEF WithDevice, Named
  <2>2. PrimaryInterface(ls) = ls[First(WithDevice(ls))]
      BY <1>2 DEF PrimaryInterface
  <2>3. PrimaryInterface(ls) \in Hardware /\ First(WithDevice(ls)) \in DOMAIN ls
      BY <2>1, <2>2 DEF WithDevice, Named
  <2> QED BY <1>i, <2>2, <2>3 DEF Members
<1>3. CASE WithDevice(ls) = {}
  <2>1. Hardware \cap Members(ls) = {}
      BY <1>3, TuningAssumption DEF WithDevice, Named, Members
  <2>2. CASE Named(ls) # {}
    <3>1. First(Named(ls)) \in Named(ls)
        BY <1>1, <2>2, FirstIsIn DEF Named
    <3>2. PrimaryInterface(ls) = ls[First(Named(ls))]
        BY <1>3, <2>2 DEF PrimaryInterface
    <3> QED BY <1>i, <2>1, <3>1, <3>2 DEF Named, Members
  <2>3. CASE Named(ls) = {}
      BY <1>3, <2>1, <2>3 DEF PrimaryInterface, Interfaces
  <2> QED BY <2>2, <2>3
<1> QED BY <1>2, <1>3

\* A list of what is turned on lists only that
LEMMA WhenType ==
    ASSUME NEW S, NEW condition, NEW name, condition => name \in S
    PROVE  When(condition, name) \in Seq(S)
BY DEF When

LEMMA ResourceListType ==
    ASSUME NEW p
    PROVE  ResourceList(p) \in Seq({r \in Resources : MayRun(p, r)})
<1> DEFINE S == {r \in Resources : MayRun(p, r)}
<1>1. When(p.noFile > 0, "limits") \in Seq(S)
    BY WhenType DEF Resources, MayRun
<1>2. When(p.irq, "irq") \in Seq(S)
    BY WhenType DEF Resources, MayRun
<1>3. When(p.ringBufferMax \/ p.rps \/ p.xps, "nic") \in Seq(S)
    BY WhenType DEF Resources, MayRun
<1>4. When(p.governor # "", "governor") \in Seq(S)
    BY WhenType DEF Resources, MayRun
<1>5. When(p.ioEnabled, "scheduler") \in Seq(S)
    BY WhenType DEF Resources, MayRun
<1> QED BY <1>1, <1>2, <1>3, <1>4, <1>5, ConcatProperties DEF ResourceList

LEMMA PhasesType ==
    ASSUME NEW r \in TurnedOn
    PROVE  Phases(r) \in Seq(StepsOn)
<1>1. CASE r # "nic"
    BY <1>1 DEF Phases, TurnedOn, Resources, StepsOn, MayDo, Kinds
<1>2. CASE r = "nic"
  <2>1. When(profile.ringBufferMax, "ring") \in Seq(StepsOn)
      BY WhenType DEF StepsOn, MayDo, MayRun
  <2>2. When(Steers("rps"), "rps") \in Seq(StepsOn)
      BY WhenType DEF StepsOn, MayDo, MayRun, Kinds, Steers
  <2>3. When(Steers("xps"), "xps") \in Seq(StepsOn)
      BY WhenType DEF StepsOn, MayDo, MayRun, Kinds, Steers
  <2> QED BY <1>2, <2>1, <2>2, <2>3, ConcatProperties DEF Phases
<1> QED BY <1>1, <1>2

-----------------------------------------------------------------------------
(* How the run moves.                                                       *)

\* Lists shrink from the front
LEMMA TailOfList ==
    ASSUME NEW S, NEW s \in Seq(S), s # << >>
    PROVE  /\ Head(s) \in S /\ Tail(s) \in Seq(S)
           /\ Len(s) # 1 => Tail(s) # << >>
<1>1. Head(s) \in S /\ Tail(s) \in Seq(S) /\ Len(Tail(s)) = Len(s) - 1
    BY HeadTailProperties
<1>2. Len(s) \in Nat OBVIOUS
<1>3. Tail(s) = << >> => Len(Tail(s)) = 0 BY EmptySeq
<1> QED BY <1>1, <1>2, <1>3

LEMMA SameTurnedOn ==
    ASSUME profile' = profile
    PROVE  TurnedOn' = TurnedOn /\ StepsOn' = StepsOn
BY DEF TurnedOn, StepsOn, MayRun, MayDo

LEMMA ReportRun ==
    ASSUME RunInv, pc \in {"check", "list", "write"}, profile' = profile,
           NEW s \in Status, Report(s)
    PROVE  RunInv'
<1>1. resources # << >> /\ resources \in Seq(TurnedOn) BY DEF RunInv
<1>2. resources' \in Seq(TurnedOn) /\ (Len(resources) # 1 => resources' # << >>)
    BY <1>1, TailOfList DEF Report
<1>3. results' \in Seq(Status) BY DEF RunInv, Report
<1>4. phases' \in Seq(StepsOn) BY DEF Report
<1>5. pc' = "report" \/ (pc' = "check" /\ resources' # << >>)
    BY <1>2 DEF Report
<1> QED BY <1>2, <1>3, <1>4, <1>5, SameTurnedOn DEF RunInv

LEMMA NextPhaseRun ==
    ASSUME RunInv, pc \in {"list", "write"}, profile' = profile, NextPhase
    PROVE  RunInv'
<1>1. CASE Len(phases) = 1
  <2>1. Report(StatusChanged) BY <1>1 DEF NextPhase
  <2> QED BY <2>1, ReportRun DEF Status
<1>2. CASE Len(phases) # 1
  <2>1. phases # << >> /\ phases \in Seq(StepsOn) BY DEF RunInv
  <2>2. /\ phases' = Tail(phases) /\ pc' = "list" /\ resources' = resources
        /\ results' = results
      BY <1>2 DEF NextPhase
  <2>3. phases' \in Seq(StepsOn) /\ phases' # << >>
      BY <1>2, <2>1, <2>2, TailOfList
  <2> QED BY <2>2, <2>3, SameTurnedOn DEF RunInv
<1> QED BY <1>1, <1>2

\* A Check answers a status; nic-tuning finds drift only where it has a step
LEMMA CheckAnswers ==
    ASSUME NEW r \in Resources, NEW unread, NEW rings
    PROVE  /\ CheckStatus(r, unread, rings) \in Status
           /\ CheckStatus("nic", unread, rings) = StatusWouldChange =>
                 profile.ringBufferMax \/ \E k \in Steering : Steers(k)
<1>1. \A d : Found(d) \in Status BY DEF Found, Status
<1>2. StatusSkipped \in Status /\ StatusSkipped # StatusWouldChange
    BY DEF Status, StatusSkipped, StatusWouldChange
<1>3. /\ DropInCheck(unread) \in Status /\ IrqCheck(unread) \in Status
      /\ NicCheck(unread, rings) \in Status
      /\ GovernorCheck(unread) \in Status /\ SchedulerCheck(unread) \in Status
    BY <1>1, <1>2 DEF DropInCheck, IrqCheck, NicCheck, GovernorCheck, SchedulerCheck
<1>4. CheckStatus(r, unread, rings) \in Status
    BY <1>3 DEF CheckStatus, Resources
<1>5. CheckStatus("nic", unread, rings) = NicCheck(unread, rings)
    BY DEF CheckStatus
<1>6. NicCheck(unread, rings) = StatusWouldChange =>
         profile.ringBufferMax \/ \E k \in Steering : Steers(k)
    BY <1>2 DEF NicCheck, Found, StatusUnchanged, StatusWouldChange
<1> QED BY <1>4, <1>5, <1>6

LEMMA ActRun ==
    ASSUME RunInv, pc = "check", profile' = profile, NEW unread, NEW rings,
           Act(CheckStatus(Head(resources), unread, rings))
    PROVE  RunInv'
<1> DEFINE r == Head(resources)
           s == CheckStatus(r, unread, rings)
<1>1. resources # << >> /\ resources \in Seq(TurnedOn) BY DEF RunInv
<1>2. r \in TurnedOn BY <1>1, TailOfList
<1>3. r \in Resources BY <1>2 DEF TurnedOn
<1>4. CASE s = StatusWouldChange
  <2>1. /\ phases' = Phases(r) /\ pc' = "list" /\ resources' = resources
        /\ results' = results
      BY <1>4 DEF Act
  <2>2. phases' \in Seq(StepsOn) BY <1>2, <2>1, PhasesType
  <2>3. Phases(r) # << >>
    <3>1. CASE r # "nic"
      <4>1. Phases(r) = << r >> BY <3>1 DEF Phases
      <4> QED BY <4>1
    <3>2. CASE r = "nic"
      <4>1. profile.ringBufferMax \/ Steers("rps") \/ Steers("xps")
          BY <1>3, <1>4, <3>2, CheckAnswers DEF Steering
      <4>2. \A c, n : c => When(c, n) = << n >> BY DEF When
      <4>3. \A c, n : ~c => When(c, n) = << >> BY DEF When
      <4>4. Phases(r) = When(profile.ringBufferMax, "ring")
                        \o When(Steers("rps"), "rps") \o When(Steers("xps"), "xps")
          BY <3>2 DEF Phases
      <4>5. Len(Phases(r)) > 0 BY <4>1, <4>2, <4>3, <4>4
      <4> QED BY <4>5
    <3> QED BY <3>1, <3>2
  <2> QED BY <1>1, <2>1, <2>2, <2>3, SameTurnedOn DEF RunInv
<1>5. CASE s # StatusWouldChange
  <2>1. Report(s) BY <1>5 DEF Act
  <2>2. s \in Status BY <1>3, CheckAnswers
  <2> QED BY <2>1, <2>2, ReportRun
<1> QED BY <1>4, <1>5

\* A listing holds files of the step's kind, and of the run's interface
LEMMA ListingKind ==
    ASSUME NEW k \in Kinds, NEW i \in Listing(k)
    PROVE  /\ i \in DOMAIN Files /\ Kind(i) = k
           /\ OfDevice(Kind(i)) => Files[i].dev = iface
<1>1. CASE k \in Steering \cup {"irq"}
  <2>1. Listing(k) \subseteq OfInterface(k)
      BY <1>1 DEF Listing, EnaIRQs, QueueDirs, Steering
  <2> QED BY <2>1 DEF OfInterface, OfKind
<1>2. CASE k \in {"governor", "scheduler", "limits"}
  <2>1. Listing(k) \subseteq OfKind(k)
      BY <1>2 DEF Listing, GovernorPaths, NvmeDevices, Steering
  <2> QED BY <1>2, <2>1 DEF OfKind, OfDevice, Steering
<1> QED BY <1>1, <1>2 DEF Kinds, Steering

LEMMA RunStep ==
    ASSUME StateInv, Next
    PROVE  RunInv'
<1> USE DEF StateInv
<1>f. StatusFailed \in Status BY DEF Status
<1>1. CASE Begin
  <2>1. resources' = ResourceList(profile') /\ ResourceList(profile') \in Seq(TurnedOn')
    <3>1. ResourceList(profile') \in Seq({r \in Resources : MayRun(profile', r)})
        BY ResourceListType, Zenon
    <3>2. TurnedOn' = {r \in Resources : MayRun(profile', r)}
        BY DEF TurnedOn, MayRun, Resources
    <3> QED BY <1>1, <3>1, <3>2 DEF Begin
  <2>2. phases' \in Seq(StepsOn') /\ results' \in Seq(Status)
    <3>1. phases' = << >> /\ results' = << >> BY <1>1 DEF Begin
    <3>2. \A S : << >> \in Seq(S) OBVIOUS
    <3> QED BY <3>1, <3>2, Zenon
  <2>3. pc' = "report" \/ (pc' = "check" /\ resources' # << >>) BY <1>1 DEF Begin
  <2> QED BY <2>1, <2>2, <2>3 DEF RunInv
<1>2. CASE Check
  <2>0. pc = "check" /\ profile' = profile BY <1>2 DEF Check, inputs
  <2>1. CASE Report(StatusFailed) BY <1>f, <2>0, <2>1, ReportRun
  <2>2. CASE \E u, g : Act(CheckStatus(Head(resources), u, g))
      BY <2>0, <2>2, ActRun
  <2> QED BY <1>2, <2>1, <2>2 DEF Check
<1>3. CASE List
  <2>0. pc = "list" /\ profile' = profile /\ iface' = iface /\ Head(phases) # "ring"
      BY <1>3 DEF List, inputs
  <2>1. CASE Report(StatusFailed) BY <1>f, <2>0, <2>1, ReportRun
  <2>2. CASE NextPhase BY <2>0, <2>2, NextPhaseRun
  <2>3. CASE /\ Listing(Head(phases)) # {} /\ listed' = Listing(Head(phases))
             /\ rest' = listed' /\ pc' = "write"
             /\ UNCHANGED << resources, phases, results >>
    <3>1. phases \in Seq(StepsOn) /\ phases # << >> BY <2>0 DEF RunInv
    <3>2. Head(phases) \in StepsOn BY <3>1, TailOfList
    <3>3. Head(phases) \in Kinds BY <2>0, <3>2 DEF StepsOn
    <3>4. \A i \in listed' : /\ i \in DOMAIN Files /\ Kind(i) = Head(phases)
                             /\ OfDevice(Kind(i)) => Files[i].dev = iface
        BY <2>3, <3>3, ListingKind
    <3> QED BY <2>0, <2>3, <3>4, SameTurnedOn DEF RunInv, Kind
  <2> QED BY <1>3, <2>1, <2>2, <2>3 DEF List
<1>4. CASE Ring
  <2>0. pc = "list" /\ profile' = profile BY <1>4 DEF Ring, inputs
  <2>1. CASE Report(StatusFailed) BY <1>f, <2>0, <2>1, ReportRun
  <2>2. CASE NextPhase BY <2>0, <2>2, NextPhaseRun
  <2> QED BY <1>4, <2>1, <2>2 DEF Ring
<1>5. CASE Write
  <2>0. pc = "write" /\ profile' = profile /\ iface' = iface BY <1>5 DEF Write, inputs
  <2>1. CASE Report(StatusFailed) BY <1>f, <2>0, <2>1, ReportRun
  <2>2. ASSUME NEW i, WriteDone(i) PROVE RunInv'
    <3>1. CASE rest = {i} BY <2>0, <2>2, <3>1, NextPhaseRun DEF WriteDone
    <3>2. CASE rest # {i}
      <4>1. rest' = rest \ {i} /\ UNCHANGED << pc, resources, phases, listed, results >>
          BY <2>2, <3>2 DEF WriteDone
      <4>2. rest # {} /\ rest \subseteq listed BY <2>0 DEF RunInv
      <4>3. rest' # {} /\ rest' \subseteq listed BY <3>2, <4>1, <4>2
      <4> QED BY <2>0, <4>1, <4>3, SameTurnedOn DEF RunInv, Kind
    <3> QED BY <3>1, <3>2
  <2> QED BY <1>5, <2>1, <2>2 DEF Write
<1>6. CASE Exit BY <1>6 DEF Exit, RunInv
<1>7. CASE Disturb
  <2>1. UNCHANGED run /\ profile' = profile /\ iface' = iface
      BY <1>7 DEF Disturb, inputs
  <2> QED BY <2>1, SameTurnedOn DEF run, RunInv, Kind
<1> QED BY <1>1, <1>2, <1>3, <1>4, <1>5, <1>6, <1>7 DEF Next, Finish, Kill, Restart

LEMMA KnobTypes ==
    ASSUME NEW i \in DOMAIN Files, NEW n
    PROVE  /\ Kind(i) = "limits" => KnobType(i, n) = Nat
           /\ OfDevice(Kind(i)) => KnobType(i, n) = SUBSET CpuRange(n)
<1>1. Kind(i) = "limits" => ~OfDevice(Kind(i)) BY DEF OfDevice, Steering
<1>2. CASE Kind(i) = "limits" BY <1>1, <1>2, Zenon DEF KnobType
<1>3. CASE OfDevice(Kind(i)) BY <1>1, <1>3, Zenon DEF KnobType
<1> QED BY <1>2, <1>3

\* The kernel's values have the knob's type: defaults, and what a write leaves
LEMMA DefaultType ==
    ASSUME NEW i \in DOMAIN Files, NEW n \in CpuCounts
    PROVE  Default(i, n) \in KnobType(i, n)
<1>1. Kind(i) \in Kinds BY TuningAssumption DEF Kind
<1>2. CASE Kind(i) = "limits"
  <2>1. Default(i, n) = 0 BY <1>2 DEF Default, Steering
  <2> QED BY <1>2, <2>1, KnobTypes
<1>3. CASE OfDevice(Kind(i)) BY <1>3 DEF Default, KnobType, OfDevice, Steering
<1>4. CASE Kind(i) \in {"governor", "scheduler"}
    BY <1>4 DEF Default, KnobType, OfDevice, Steering
<1> QED BY <1>1, <1>2, <1>3, <1>4 DEF Kinds, OfDevice, Steering

LEMMA StoredType ==
    ASSUME ProfileInv, cpus \in CpuCounts, NEW i \in DOMAIN Files, NEW v \in Stored(i)
    PROVE  v \in KnobType(i, cpus)
<1>1. Kind(i) \in Kinds BY TuningAssumption DEF Kind
<1>2. CASE Kind(i) = "limits"
  <2>1. profile.noFile \in Nat
      BY ReadInputs, BuildNoFile, Zenon DEF ProfileInv
  <2>2. Want(i, listed) = profile.noFile
      BY <1>2 DEF Want, RenderLimits, Steering
  <2>3. Stored(i) = {Want(i, listed)}
      BY <1>2 DEF Stored, Steering
  <2> QED BY <1>2, <2>1, <2>2, <2>3, KnobTypes
<1>3. CASE OfDevice(Kind(i))
  <2>1. v \subseteq CpuRange(cpus)
      BY <1>3 DEF Stored, OfDevice, Steering
  <2> QED BY <1>3, <2>1 DEF KnobType, OfDevice, Steering
<1>4. CASE Kind(i) \in {"governor", "scheduler"}
    BY <1>4 DEF Stored, KnobType, OfDevice, Steering
<1> QED BY <1>1, <1>2, <1>3, <1>4 DEF Kinds, OfDevice, Steering

LEMMA WrittenIsListed ==
    ASSUME RunInv, pc = "write"
    PROVE  First(rest) \in rest /\ First(rest) \in listed /\ First(rest) \in DOMAIN Files
BY FirstIsIn, TuningAssumption DEF RunInv

\* One knob changes, or all are set to their defaults in some places
LEMMA KnobSet ==
    ASSUME HostInv, NEW i \in DOMAIN Files, NEW v \in KnobType(i, cpus),
           knob' = [knob EXCEPT ![i] = v]
    PROVE  /\ knob' = [j \in DOMAIN Files |-> knob'[j]]
           /\ \A j \in DOMAIN Files : knob'[j] \in KnobType(j, cpus)
           /\ \A j \in DOMAIN Files \ {i} : knob'[j] = knob[j]
<1>1. knob' = [j \in DOMAIN Files |-> IF j = i THEN v ELSE knob[j]]
    BY DEF HostInv
<1> QED BY <1>1 DEF HostInv

LEMMA HostStep ==
    ASSUME StateInv, Next
    PROVE  HostInv'
<1> USE DEF StateInv
<1>1. CASE Begin \/ Check \/ List \/ Finish \/ Kill
  <2>1. UNCHANGED host BY <1>1 DEF Begin, Check, List, Finish, Kill
  <2> QED BY <2>1 DEF host, HostInv, KnobType, Kind
<1>2. CASE Ring
  <2>1. UNCHANGED << links, cpus, there >> BY <1>2 DEF Ring
  <2>2. CASE UNCHANGED << knob, lowRings >>
      BY <2>1, <2>2 DEF HostInv, KnobType, Kind
  <2>3. CASE RaiseRings
    <3>1. lowRings' = {} BY <2>3 DEF RaiseRings
    <3>2. CASE knob' = knob BY <2>1, <3>1, <3>2 DEF HostInv, KnobType, Kind
    <3>3. CASE knob' = [i \in DOMAIN Files |->
                          IF Files[i].dev = iface /\ OfDevice(Kind(i))
                          THEN Default(i, cpus) ELSE knob[i]]
      <4>1. \A i \in DOMAIN Files : knob'[i] \in KnobType(i, cpus)
          BY <3>3, DefaultType DEF HostInv
      <4>2. knob' = [i \in DOMAIN Files |-> knob'[i]] BY <3>3
      <4> QED BY <2>1, <3>1, <4>1, <4>2 DEF HostInv, KnobType, Kind
    <3> QED BY <2>3, <3>2, <3>3 DEF RaiseRings
  <2> QED BY <1>2, <2>2, <2>3 DEF Ring
<1>3. CASE Write
  <2>1. UNCHANGED << links, cpus, lowRings >> /\ pc = "write" BY <1>3 DEF Write
  <2>2. First(rest) \in DOMAIN Files BY <2>1, WrittenIsListed
  <2>3. CASE UNCHANGED << knob, there >>
      BY <2>1, <2>3 DEF HostInv, KnobType, Kind
  <2>4. CASE /\ \E v \in Stored(First(rest)) : knob' = [knob EXCEPT ![First(rest)] = v]
             /\ there' = there \cup {First(rest)}
    <3>1. PICK v \in Stored(First(rest)) : knob' = [knob EXCEPT ![First(rest)] = v]
        BY <2>4
    <3>2. v \in KnobType(First(rest), cpus)
        BY <2>2, StoredType DEF InputInv, HostInv
    <3>3. /\ knob' = [j \in DOMAIN Files |-> knob'[j]]
          /\ \A j \in DOMAIN Files : knob'[j] \in KnobType(j, cpus)
        BY <2>2, <3>1, <3>2, KnobSet
    <3> QED BY <2>1, <2>2, <2>4, <3>3 DEF HostInv, KnobType, Kind
  <2> QED BY <1>3, <2>3, <2>4 DEF Write
<1>4. CASE Disturb
  <2>1. cpus' = cpus BY <1>4 DEF Disturb
  <2>2. ASSUME NEW i \in Present,
               NEW v \in {Default(i, cpus)} \cup (IF Kind(i) = "irq" THEN {{0}} ELSE {}),
               knob' = [knob EXCEPT ![i] = v], UNCHANGED << links, there, lowRings >>
        PROVE  HostInv'
    <3>1. i \in DOMAIN Files BY DEF Present, HostInv
    <3>2. cpus \in CpuCounts /\ cpus \in Nat /\ cpus >= 1
      <4>1. cpus \in CpuCounts BY DEF HostInv
      <4>2. cpus \in 1 .. CpuIds /\ CpuIds \in Nat BY <4>1, TuningAssumption
      <4> QED BY <4>1, <4>2
    <3>3. Kind(i) = "irq" => {0} \in KnobType(i, cpus)
        BY <3>2 DEF KnobType, OfDevice, CpuRange
    <3>4. v \in KnobType(i, cpus)
        BY <3>1, <3>2, <3>3, DefaultType
    <3>5. /\ knob' = [j \in DOMAIN Files |-> knob'[j]]
          /\ \A j \in DOMAIN Files : knob'[j] \in KnobType(j, cpus)
        BY <2>2, <3>1, <3>4, KnobSet
    <3> QED BY <2>1, <2>2, <3>5 DEF HostInv, KnobType, Kind
  <2>3. CASE /\ knob' = knob /\ lowRings' \subseteq {"rx", "tx"}
             /\ there' \subseteq DOMAIN Files /\ links' \in Links
      BY <2>1, <2>3 DEF HostInv, KnobType, Kind
  <2> QED BY <1>4, <2>2, <2>3 DEF Disturb, HostInv
<1>5. CASE Restart
  <2>1. /\ cpus' \in CpuCounts /\ UNCHANGED << links, there >>
        /\ lowRings' = {"rx", "tx"}
        /\ knob' = [i \in DOMAIN Files |->
                      IF Kind(i) = "limits" THEN knob[i] ELSE Default(i, cpus')]
      BY <1>5 DEF Restart
  <2>2. ASSUME NEW i \in DOMAIN Files PROVE knob'[i] \in KnobType(i, cpus')
    <3>1. CASE Kind(i) = "limits"
      <4>1. knob[i] \in Nat BY <3>1, KnobTypes DEF HostInv
      <4> QED BY <2>1, <3>1, <4>1, KnobTypes
    <3>2. CASE Kind(i) # "limits"
      <4>1. Default(i, cpus') \in KnobType(i, cpus') BY <2>1, DefaultType
      <4> QED BY <2>1, <3>2, <4>1
    <3> QED BY <3>1, <3>2
  <2>3. knob' = [i \in DOMAIN Files |-> knob'[i]] BY <2>1
  <2> QED BY <2>1, <2>2, <2>3 DEF HostInv, KnobType, Kind
<1> QED BY <1>1, <1>2, <1>3, <1>4, <1>5 DEF Next

LEMMA InterfaceStep ==
    ASSUME StateInv, Next
    PROVE  iface' \in Interfaces /\ IfaceInv'
<1> USE DEF StateInv
<1>1. CASE Begin
  <2>1. links' = links /\ iface' \in {"", PrimaryInterface(links)}
      BY <1>1 DEF Begin, host
  <2>2. links \in Links BY DEF HostInv
  <2>3. PrimaryInterface(links) \in Interfaces BY <2>2, PrimaryIsListed
  <2>4. "" \in Interfaces BY DEF Interfaces
  <2>5. IfaceInv' BY <2>1 DEF IfaceInv, PrimaryInterface
  <2> QED BY <2>1, <2>3, <2>4, <2>5
<1>2. CASE Check \/ List \/ Ring \/ Write
  <2>1. iface' = iface /\ links' = links /\ pc # "idle"
      BY <1>2 DEF Check, List, Ring, Write, host, inputs
  <2>2. upset \subseteq upset'
      BY <1>2 DEF Check, List, Ring, Write, Calm, Upset
  <2> QED BY <2>1, <2>2 DEF InputInv, IfaceInv
<1>3. CASE Finish \/ Kill \/ Restart
  <2>1. iface' = iface /\ pc' = "idle"
      BY <1>3 DEF Finish, Kill, Restart, inputs, Exit
  <2> QED BY <2>1 DEF InputInv, IfaceInv
<1>4. CASE Disturb
  <2>1. iface' = iface /\ pc' = pc BY <1>4 DEF Disturb, inputs, run
  <2>2. pc = "idle" \/ "disturbed" \in upset' BY <1>4 DEF Disturb
  <2> QED BY <2>1, <2>2 DEF InputInv, IfaceInv
<1> QED BY <1>1, <1>2, <1>3, <1>4 DEF Next

LEMMA HistoryStep ==
    ASSUME StateInv, Next
    PROVE  HistInv'
<1> USE DEF StateInv, HistInv
<1>1. CASE Begin
  <2>1. disturbs' = disturbs /\ clean' \in {0, clean} BY <1>1 DEF Begin
  <2>2. upset' \subseteq Causes BY <1>1 DEF Begin, Calm, Upset, Causes
  <2> QED BY <2>1, <2>2
<1>2. CASE Check \/ List \/ Ring \/ Write
  <2>1. clean' = clean /\ disturbs' = disturbs
      BY <1>2 DEF Check, List, Ring, Write
  <2>2. upset' \subseteq Causes
      BY <1>2 DEF Check, List, Ring, Write, Calm, Upset, Causes
  <2> QED BY <2>1, <2>2
<1>3. CASE Finish
  <2>1. disturbs' = disturbs /\ upset' = {} BY <1>3 DEF Finish, Exit
  <2>2. clean' \in {0, 2, clean + 1} /\ (clean = 2 => clean' \in {0, 2})
      BY <1>3 DEF Finish
  <2> QED BY <2>1, <2>2
<1>4. CASE Kill BY <1>4 DEF Kill, Exit
<1>5. CASE Disturb
  <2>1. clean' = 0 /\ disturbs' = disturbs + 1 BY <1>5 DEF Disturb, Disturbed
  <2>2. upset' \subseteq Causes BY <1>5 DEF Disturb, Causes
  <2> QED BY <2>1, <2>2
<1>6. CASE Restart BY <1>6 DEF Restart, Disturbed, Exit
<1> QED BY <1>1, <1>2, <1>3, <1>4, <1>5, <1>6 DEF Next

LEMMA StateInit == Init => StateInv
<1> SUFFICES ASSUME Init PROVE StateInv OBVIOUS
<1>1. HostInv
  <2>1. /\ links \in Links /\ cpus \in CpuCounts /\ lowRings = {"rx", "tx"}
        /\ there \subseteq DOMAIN Files
        /\ knob = [i \in DOMAIN Files |-> Default(i, cpus)]
      BY DEF Init
  <2> QED BY <2>1, DefaultType DEF HostInv
<1>2. InputInv BY DEF Init, InputInv, ProfileInv, Interfaces
<1>3. RunInv
  <2>1. pc = "idle" /\ resources = << >> /\ phases = << >> /\ results = << >>
      BY DEF Init
  <2> QED BY <2>1 DEF RunInv
<1>4. IfaceInv /\ HistInv
  <2>1. pc = "idle" /\ clean = 0 /\ upset = {} /\ disturbs = 0 BY DEF Init
  <2> QED BY <2>1 DEF IfaceInv, HistInv
<1> QED BY <1>1, <1>2, <1>3, <1>4 DEF StateInv

LEMMA StateStep ==
    ASSUME StateInv, [Next]_vars
    PROVE  StateInv'
<1>1. CASE Next
  <2>1. ProfileInv' BY <1>1, ProfileStep DEF StateInv, InputInv
  <2> QED BY <1>1, <2>1, RunStep, HostStep, InterfaceStep, HistoryStep
          DEF StateInv, InputInv
<1>2. CASE UNCHANGED vars
  <2> USE <1>2 DEF vars, host, inputs, run
  <2>1. HostInv' BY DEF StateInv, HostInv, KnobType, Kind
  <2>2. InputInv' BY DEF StateInv, InputInv, ProfileInv, Interfaces
  <2>3. RunInv' BY SameTurnedOn DEF StateInv, RunInv, Kind
  <2>4. IfaceInv' /\ HistInv'
      BY DEF StateInv, IfaceInv, HistInv, PrimaryInterface
  <2> QED BY <2>1, <2>2, <2>3, <2>4 DEF StateInv
<1> QED BY <1>1, <1>2

LEMMA StateInvariant == Spec => []StateInv
BY StateInit, StateStep, PTL DEF Spec

\* The host, the inputs and the run stay well formed: no step is taken without
\* a resource, a phase and a file to take it on, and a mask never holds a CPU
\* that is not online.
THEOREM TypeCorrect == Spec => []TypeOK
<1>1. StateInv => TypeOK
    BY DEF StateInv, HostInv, InputInv, ProfileInv, RunInv, HistInv, Interfaces,
           KnobType, Causes, TypeOK
<1> QED BY <1>1, StateInvariant, PTL

\* The knob a step of a run changes is the one it is writing
LEMMA OnlyTheWritten ==
    ASSUME StateInv, [Next]_vars, pc = "write", disturbs' = disturbs,
           NEW i \in DOMAIN Files, knob'[i] # knob[i]
    PROVE  i \in listed
<1> USE DEF StateInv
<1>1. CASE Write
  <2>1. knob' # knob BY DEF HostInv
  <2>2. PICK v : knob' = [knob EXCEPT ![First(rest)] = v]
      BY <1>1, <2>1 DEF Write
  <2>3. i = First(rest) BY <2>2 DEF HostInv
  <2> QED BY <2>3, WrittenIsListed
<1>2. CASE Kill \/ UNCHANGED vars
    BY <1>2 DEF Kill, host, vars
<1>3. ~ Disturbed BY DEF HistInv, Disturbed
<1> QED BY <1>1, <1>2, <1>3 DEF Next, Begin, Check, List, Ring, Finish, Disturb, Restart

\* What the config turns off is off in the profile
LEMMA ConfigTurnsOff ==
    ASSUME ProfileInv
    PROVE  /\ profile.irq => config.irqAffinity # {FALSE}
           /\ profile.rps => config.rps # {FALSE}
           /\ profile.xps => config.xps # {FALSE}
           /\ profile.governor # "" => config.governor # {""}
           /\ profile.ioEnabled => config.ioScheduler # {""}
<1>1. IsConfig(config) BY ReadInputs
<1>2. /\ profile.irq = Given(config.irqAffinity, sizing.vcpus > 1)
      /\ profile.rps = Given(config.rps, TRUE)
      /\ profile.xps = Given(config.xps, TRUE)
      /\ profile.governor = Given(config.governor, "performance")
      /\ profile.ioEnabled =
            IF config.ioScheduler = {} THEN TRUE ELSE config.ioScheduler # {""}
    BY <1>1, BuildFields, Zenon DEF ProfileInv
<1>3. \A v, d : Given({v}, d) = v BY DEF Given
<1> QED BY <1>2, <1>3, Zenon

\* Whatever the host lists and the config turns off, Apply writes the files of
\* the primary interface and of the resources engine.Build made, and no other.
THEOREM TouchesOnlyTheorem == Spec => TouchesOnlyItsOwn
<1> DEFINE Allowed(i) ==
        CASE Kind(i) = "irq" -> config.irqAffinity # {FALSE}
          [] Kind(i) = "rps" -> config.rps # {FALSE}
          [] Kind(i) = "xps" -> config.xps # {FALSE}
          [] Kind(i) = "governor" -> config.governor # {""}
          [] Kind(i) = "scheduler" -> config.ioScheduler # {""}
          [] OTHER -> TRUE
<1>1. ASSUME StateInv, [Next]_vars, pc = "write", disturbs' = disturbs,
             "disturbed" \notin upset, NEW i \in DOMAIN Files, knob'[i] # knob[i]
      PROVE  /\ \/ Files[i].dev \in Hardware \cup {"host"}
                \/ Hardware \cap Members(links) = {}
             /\ Allowed(i)
  <2>1. i \in listed BY <1>1, OnlyTheWritten
  <2>2. /\ Kind(i) = Head(phases) /\ Kind(i) \in StepsOn
        /\ OfDevice(Kind(i)) => Files[i].dev = iface
    <3>1. phases \in Seq(StepsOn) /\ phases # << >> BY <1>1 DEF StateInv, RunInv
    <3>2. Head(phases) \in StepsOn BY <3>1, TailOfList
    <3> QED BY <1>1, <2>1, <3>2 DEF StateInv, RunInv
  <2>3. Files[i].dev # "" /\ (~OfDevice(Kind(i)) => Files[i].dev = "host")
      BY TuningAssumption DEF Kind
  <2>4. iface \in {"", PrimaryInterface(links)} /\ links \in Links
      BY <1>1 DEF StateInv, IfaceInv, HostInv
  <2>5. \/ Files[i].dev \in Hardware \cup {"host"}
        \/ Hardware \cap Members(links) = {}
      BY <2>2, <2>3, <2>4, PrimaryIsListed
  <2>6. Allowed(i)
    <3>1. ProfileInv BY <1>1 DEF StateInv, InputInv
    <3>2. MayDo(Kind(i)) BY <2>2 DEF StepsOn
    <3> QED BY <3>1, <3>2, ConfigTurnsOff DEF MayDo, MayRun
  <2> QED BY <2>5, <2>6
<1>2. StateInv /\ [Next]_vars =>
        [pc = "write" /\ disturbs' = disturbs /\ "disturbed" \notin upset =>
           \A i \in {j \in DOMAIN Files : knob'[j] # knob[j]} :
              /\ \/ Files[i].dev \in Hardware \cup {"host"}
                 \/ Hardware \cap Members(links) = {}
              /\ Allowed(i)]_vars
    BY <1>1
<1> QED BY <1>2, StateInvariant, PTL DEF Spec, TouchesOnlyItsOwn
=============================================================================
