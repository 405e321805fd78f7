-------------------------- MODULE TuningRunProofs --------------------------
(***************************************************************************)
(* What a run of Tuning leaves behind, for any facts, config, knobs and     *)
(* bounds: TuningProofs has the invariant that types the state.             *)
(***************************************************************************)
EXTENDS TuningProofs, FiniteSetTheorems

-----------------------------------------------------------------------------
(* CPU masks.                                                               *)

\* A CPU's word and its bit in it
LEMMA WordBit ==
    ASSUME NEW c \in Nat
    PROVE  /\ c % WordBits \in CpuRange(WordBits)
           /\ c \div WordBits \in Nat
           /\ (c \div WordBits) * WordBits + (c % WordBits) = c
<1>1. c % 32 \in 0 .. 31 /\ c \div 32 \in Nat OBVIOUS
<1>2. (c \div 32) * 32 + (c % 32) = c OBVIOUS
<1> QED BY <1>1, <1>2 DEF WordBits, CpuRange

\* Enough words for n bits
Words(n) == (n + WordBits - 1) \div WordBits

LEMMA WordsEnough ==
    ASSUME NEW n \in Nat
    PROVE  Words(n) \in Nat /\ \A c \in CpuRange(n) : c \div WordBits < Words(n)
BY DEF Words, WordBits, CpuRange

LEMMA MaskText ==
    ASSUME NEW n \in Nat, n >= 1
    PROVE  /\ CpumaskAll(n) = [w \in 1 .. Words(n) |->
                 {b \in CpuRange(WordBits) : (Words(n) - w) * WordBits + b < n}]
           /\ Len(CpumaskAll(n)) = Words(n)
<1>1. PositiveOr(n, 1) = n BY DEF PositiveOr
<1>2. CpumaskAll(n) = [w \in 1 .. Words(n) |->
                 {b \in CpuRange(WordBits) : (Words(n) - w) * WordBits + b < n}]
    BY <1>1 DEF CpumaskAll, Words
<1>3. Words(n) \in Nat BY WordsEnough
<1> QED BY <1>2, <1>3

\* The kernel reads cpumaskAll's text as the low n CPUs
LEMMA MaskRead ==
    ASSUME NEW n \in Nat, n >= 1
    PROVE  KernelRead(CpumaskAll(n)) = CpuRange(n)
<1> DEFINE W == Words(n)
           m == CpumaskAll(n)
<1>1. W \in Nat BY WordsEnough
<1>2. Len(m) = W BY MaskText
<1>3. ASSUME NEW c \in CpuRange(W * WordBits)
      PROVE  c % WordBits \in m[W - c \div WordBits] <=> c < n
  <2>1. c \in Nat /\ c \div WordBits \in 0 .. (W - 1)
      BY <1>1 DEF CpuRange, WordBits
  <2>2. W - c \div WordBits \in 1 .. W BY <1>1, <2>1
  <2>3. m[W - c \div WordBits] =
          {b \in CpuRange(WordBits) : (W - (W - c \div WordBits)) * WordBits + b < n}
      BY <2>2, MaskText
  <2> HIDE DEF W, m
  <2>4. W - (W - c \div WordBits) = c \div WordBits BY <1>1, <2>1
  <2>5. m[W - c \div WordBits] =
          {b \in CpuRange(WordBits) : (c \div WordBits) * WordBits + b < n}
      BY <2>3, <2>4
  <2>6. c % WordBits \in CpuRange(WordBits)
        /\ (c \div WordBits) * WordBits + (c % WordBits) = c
      BY <2>1, WordBit
  <2> QED BY <2>5, <2>6
<1>4. CpuRange(n) \subseteq CpuRange(W * WordBits)
  <2>1. ASSUME NEW c \in CpuRange(n) PROVE c \in Nat /\ c < W * WordBits
    <3>1. c \in Nat /\ c \div WordBits < W BY WordsEnough DEF CpuRange
    <3> HIDE DEF W
    <3> QED BY <1>1, <3>1 DEF WordBits
  <2>2. W * WordBits \in Nat BY <1>1 DEF WordBits
  <2> HIDE DEF W
  <2> QED BY <2>1, <2>2 DEF CpuRange
<1>5. KernelRead(m) = {c \in CpuRange(W * WordBits) : c < n}
    BY <1>2, <1>3 DEF KernelRead
<1>6. \A c \in CpuRange(W * WordBits) : c < n <=> c \in CpuRange(n)
    BY DEF CpuRange
<1> QED BY <1>4, <1>5, <1>6

\* parseCPUMaskBits reads back the bits cpumaskAll set
LEMMA MaskBits ==
    ASSUME NEW n \in Nat, n >= 1
    PROVE  ParseCPUMaskBits(CpumaskAll(n)) = CpuRange(n)
<1> DEFINE W == Words(n)
           m == CpumaskAll(n)
<1>1. W \in Nat BY WordsEnough
<1>2. Len(m) = W /\ DOMAIN m = 1 .. W BY MaskText
<1>3. \A w \in 1 .. W : m[w] = {b \in CpuRange(WordBits) : (W - w) * WordBits + b < n}
    BY MaskText
<1>4. ASSUME NEW c \in ParseCPUMaskBits(m) PROVE c \in CpuRange(n)
  <2>1. PICK w \in 1 .. W : c \in {(W - w) * WordBits + b : b \in m[w]}
      BY <1>2, <1>4 DEF ParseCPUMaskBits
  <2>2. PICK b \in m[w] : c = (W - w) * WordBits + b BY <2>1
  <2>3. b \in CpuRange(WordBits) /\ c < n BY <1>3, <2>2
  <2>4. W - w \in Nat /\ b \in Nat BY <1>1, <2>3 DEF CpuRange
  <2> HIDE DEF W, m
  <2>5. c \in Nat BY <2>2, <2>4 DEF WordBits
  <2> QED BY <2>3, <2>5 DEF CpuRange
<1>5. ASSUME NEW c \in CpuRange(n) PROVE c \in ParseCPUMaskBits(m)
  <2>1. c \in Nat /\ c < n BY DEF CpuRange
  <2> DEFINE w == W - c \div WordBits
             b == c % WordBits
  <2>2. c \div WordBits \in Nat /\ c \div WordBits < W BY <2>1, WordBit, WordsEnough
  <2>3. w \in 1 .. W /\ W - w = c \div WordBits
    <3> HIDE DEF W
    <3> QED BY <1>1, <2>2
  <2>4. b \in CpuRange(WordBits) /\ (W - w) * WordBits + b = c
    <3>1. b \in CpuRange(WordBits) /\ (c \div WordBits) * WordBits + b = c
        BY <2>1, WordBit
    <3> HIDE DEF W, w, b
    <3> QED BY <2>3, <3>1
  <2>5. b \in m[w] BY <1>3, <2>1, <2>3, <2>4
  <2> HIDE DEF W, m, w, b
  <2>6. c \in {(Len(m) - w) * WordBits + d : d \in m[w]} BY <1>2, <2>4, <2>5
  <2> QED BY <1>2, <2>3, <2>6 DEF ParseCPUMaskBits
<1> QED BY <1>4, <1>5

\* ... and whatever the kernel prints, at its own width
LEMMA PrintedBits ==
    ASSUME NEW mask, mask \subseteq CpuRange(CpuIds), CpuIds \in Nat
    PROVE  ParseCPUMaskBits(KernelPrint(mask)) = mask
<1> DEFINE W == Words(CpuIds)
           m == KernelPrint(mask)
<1>1. W \in Nat BY WordsEnough
<1>2. /\ DOMAIN m = 1 .. W
      /\ \A w \in 1 .. W : m[w] = {c % WordBits : c \in {d \in mask : d \div WordBits = W - w}}
    BY DEF KernelPrint, Words
<1>3. Len(m) = W BY <1>1, <1>2 DEF KernelPrint, Words
<1>4. ASSUME NEW c \in ParseCPUMaskBits(m) PROVE c \in mask
  <2>1. PICK w \in 1 .. W : c \in {(W - w) * WordBits + b : b \in m[w]}
      BY <1>2, <1>3, <1>4 DEF ParseCPUMaskBits
  <2>2. PICK b \in m[w] : c = (W - w) * WordBits + b BY <2>1
  <2>3. PICK d \in mask : d \div WordBits = W - w /\ b = d % WordBits BY <1>2, <2>2
  <2>4. d \in Nat BY DEF CpuRange
  <2>5. (d \div WordBits) * WordBits + (d % WordBits) = d BY <2>4, WordBit
  <2> HIDE DEF W, m
  <2>6. c = d BY <2>2, <2>3, <2>5
  <2> QED BY <2>6
<1>5. ASSUME NEW c \in mask PROVE c \in ParseCPUMaskBits(m)
  <2>1. c \in Nat /\ c \in CpuRange(CpuIds) BY DEF CpuRange
  <2> DEFINE w == W - c \div WordBits
             b == c % WordBits
  <2>2. c \div WordBits \in Nat /\ c \div WordBits < W BY <2>1, WordBit, WordsEnough
  <2>3. w \in 1 .. W /\ W - w = c \div WordBits
    <3> HIDE DEF W
    <3> QED BY <1>1, <2>2
  <2>4. (W - w) * WordBits + b = c
    <3>1. (c \div WordBits) * WordBits + b = c BY <2>1, WordBit
    <3> HIDE DEF W, w, b
    <3> QED BY <2>3, <3>1
  <2>5. b \in m[w] BY <1>2, <2>3
  <2> HIDE DEF W, m, w, b
  <2>6. c \in {(Len(m) - w) * WordBits + d : d \in m[w]} BY <1>3, <2>4, <2>5
  <2> QED BY <1>2, <2>3, <2>6 DEF ParseCPUMaskBits
<1> QED BY <1>4, <1>5

\* cpuMasksEqual holds of the file read and the mask wanted exactly if the
\* mask set is the low n CPUs, whatever the widths
LEMMA MasksEqual ==
    ASSUME NEW n \in Nat, n >= 1, NEW mask, mask \subseteq CpuRange(CpuIds), CpuIds \in Nat
    PROVE  CpuMasksEqual(KernelPrint(mask), CpumaskAll(n)) <=> mask = CpuRange(n)
BY MaskBits, PrintedBits DEF CpuMasksEqual

-----------------------------------------------------------------------------
(* Why a run fails.                                                         *)

Excused == \/ upset \cap {"failed", "unreadable", "disturbed"} # {}
           \/ ~FactsFit \/ ~OffersGovernor

\* What is being written was there when it was listed, but for a queue's files
\* and the drop-ins
CauseInv ==
    /\ pc # "idle" /\ StatusFailed \in Members(results) => Excused
    /\ pc = "write" /\ "disturbed" \notin upset =>
          \A i \in listed : Kind(i) \in Steering \cup {"limits"} \/ Here(i)

Running == Check \/ List \/ Ring \/ Write

LEMMA MembersOfAppend ==
    ASSUME NEW S, NEW s \in Seq(S), NEW x
    PROVE  Members(Append(s, x)) = Members(s) \cup {x}
<1>1. DOMAIN s = 1 .. Len(s) /\ Len(s) \in Nat OBVIOUS
<1>2. /\ DOMAIN Append(s, x) = 1 .. (Len(s) + 1)
      /\ \A i \in 1 .. (Len(s) + 1) :
            Append(s, x)[i] = IF i = Len(s) + 1 THEN x ELSE s[i]
  <2>1. s \in Seq(S \cup {x}) BY <1>1
  <2>2. Append(s, x) \in Seq(S \cup {x}) /\ Len(Append(s, x)) = Len(s) + 1
      BY <2>1, AppendProperties
  <2> QED BY <1>1, <2>1, <2>2, AppendProperties
<1>3. ASSUME NEW y \in Members(Append(s, x)) PROVE y \in Members(s) \cup {x}
  <2>1. PICK i \in 1 .. (Len(s) + 1) : y = IF i = Len(s) + 1 THEN x ELSE s[i]
      BY <1>2, <1>3 DEF Members
  <2> QED BY <1>1, <2>1 DEF Members
<1>4. ASSUME NEW y \in Members(s) \cup {x} PROVE y \in Members(Append(s, x))
  <2>1. CASE y = x BY <1>1, <1>2, <2>1 DEF Members
  <2>2. CASE y \in Members(s)
    <3>1. PICK i \in 1 .. Len(s) : y = s[i] BY <1>1, <2>2 DEF Members
    <3> QED BY <1>1, <1>2, <3>1 DEF Members
  <2> QED BY <2>1, <2>2, <1>4
<1> QED BY <1>3, <1>4

\* Only a drop-in can be created: what else there is stays as it is in a run
LEMMA SameHere ==
    ASSUME StateInv, Running
    PROVE  /\ links' = links /\ cpus' = cpus /\ sizing' = sizing /\ profile' = profile
           /\ config' = config /\ iface' = iface /\ upset \subseteq upset'
           /\ there \subseteq there'
           /\ \A j \in DOMAIN Files : Kind(j) # "limits" => (Here(j)' <=> Here(j))
<1>1. /\ links' = links /\ cpus' = cpus /\ sizing' = sizing /\ profile' = profile
      /\ config' = config /\ iface' = iface
    BY DEF Running, Check, List, Ring, Write, host, inputs
<1>2. upset \subseteq upset'
    BY DEF Running, Check, List, Ring, Write, Calm, Upset
<1>3. CASE there' = there BY <1>1, <1>2, <1>3 DEF Here
<1>4. CASE Write /\ there' = there \cup {First(rest)} /\ Stored(First(rest)) # {}
  <2>1. Kind(First(rest)) = "limits" \/ Here(First(rest)) BY <1>4 DEF Stored
  <2> QED BY <1>1, <1>2, <1>4, <2>1 DEF Here
<1>5. there' = there \/ (Write /\ there' = there \cup {First(rest)} /\ Stored(First(rest)) # {})
  <2>1. CASE Check \/ List \/ Ring BY <2>1 DEF Check, List, Ring, host
  <2>2. CASE Write BY <2>2 DEF Write
  <2> QED BY <2>1, <2>2 DEF Running
<1> QED BY <1>3, <1>4, <1>5

LEMMA ExcusedKept ==
    ASSUME StateInv, Running, Excused
    PROVE  Excused'
<1>1. FactsFit' = FactsFit BY SameHere DEF FactsFit
<1>2. ASSUME NEW i PROVE i \in Mine("governor") <=> i \in Mine("governor")'
  <2>1. Next BY DEF Running, Next
  <2>2. there \subseteq DOMAIN Files /\ there' \subseteq DOMAIN Files
      BY <2>1, HostStep DEF StateInv, HostInv
  <2>3. i \in DOMAIN Files /\ Kind(i) = "governor" => (Here(i)' <=> Here(i))
      BY SameHere
  <2> QED BY <2>2, <2>3, SameHere DEF Mine, Present, Here, Kind
<1>3. ~OffersGovernor => ~OffersGovernor' BY <1>2, SameHere DEF OffersGovernor
<1> QED BY <1>1, <1>3, SameHere DEF Excused

\* The round robin stays within the CPUs
LEMMA AffinityInRange ==
    ASSUME NEW i, NEW irqs, irqs \subseteq DOMAIN Files, sizing \in Sizing
    PROVE  DesiredAffinity(i, irqs) \subseteq CpuRange(PositiveOr(sizing.vcpus, 1))
<1>1. IsFiniteSet({j \in irqs : j < i})
    BY TuningAssumption, FS_Subset
<1>2. Cardinality({j \in irqs : j < i}) \in Nat BY <1>1, FS_CardinalityType
<1>3. sizing.vcpus \in Nat BY DEF Sizing
<1>4. PositiveOr(sizing.vcpus, 1) \in Nat /\ PositiveOr(sizing.vcpus, 1) >= 1
    BY <1>3 DEF PositiveOr
<1>5. \A c, n \in Nat : n >= 1 => c % n \in CpuRange(n) BY DEF CpuRange
<1> QED BY <1>2, <1>4, <1>5 DEF DesiredAffinity

\* A write is refused, on a host that fits the facts and that nobody changed,
\* only for a governor that is not offered
LEMMA RefusedForCause ==
    ASSUME StateInv, CauseInv, pc = "write", "disturbed" \notin upset, FactsFit,
           ~Passed(First(rest)), MayRefuse(First(rest))
    PROVE  ~OffersGovernor
<1> DEFINE i == First(rest)
<1>1. i \in listed /\ i \in DOMAIN Files /\ Kind(i) \in Kinds
    BY WrittenIsListed, TuningAssumption DEF StateInv, Kind
<1>2. Kind(i) \in Steering \cup {"limits"} \/ Here(i) BY <1>1 DEF CauseInv
<1>3. sizing \in Sizing BY ReadInputs DEF StateInv, InputInv
<1>4. sizing.vcpus \in Nat /\ cpus \in Nat /\ cpus >= 1
  <2>1. cpus \in 1 .. CpuIds /\ CpuIds \in Nat
      BY TuningAssumption DEF StateInv, HostInv
  <2> QED BY <1>3, <2>1 DEF Sizing
<1> DEFINE n == PositiveOr(sizing.vcpus, 1)
<1>5. n \in Nat /\ n >= 1 /\ n <= cpus BY <1>4 DEF PositiveOr, FactsFit
<1>6. CpuRange(n) \subseteq CpuRange(cpus) BY <1>4, <1>5 DEF CpuRange
<1> HIDE DEF n
<1>7. CASE Kind(i) = "limits"
  <2>1. Stored(i) = {Want(i, listed)} BY <1>7 DEF Stored, Steering
  <2> QED BY <1>7, <2>1 DEF MayRefuse, Steering
<1>8. CASE Kind(i) \in Steering
  <2>1. Here(i) BY <1>8 DEF Passed, QueuePassed
  <2>2. Want(i, listed) = CpumaskAll(sizing.vcpus) BY <1>8 DEF Want, Steering
  <2>3. CpumaskAll(sizing.vcpus) = CpumaskAll(n)
    <3>1. PositiveOr(n, 1) = n /\ n = PositiveOr(sizing.vcpus, 1)
        BY <1>5 DEF PositiveOr, n
    <3> QED BY <3>1 DEF CpumaskAll
  <2>4. KernelRead(Want(i, listed)) \subseteq CpuRange(cpus)
      BY <1>5, <1>6, <2>2, <2>3, MaskRead
  <2>5. Stored(i) # {} BY <1>8, <2>1, <2>4 DEF Stored, Steering
  <2> QED BY <2>4, <2>5 DEF MayRefuse
<1>9. CASE Kind(i) = "irq"
  <2>1. Want(i, listed) = DesiredAffinity(i, listed) BY <1>9 DEF Want, Steering
  <2>2. listed \subseteq DOMAIN Files BY DEF StateInv, RunInv
  <2>3. Want(i, listed) \subseteq CpuRange(cpus)
      BY <1>3, <1>6, <2>1, <2>2, AffinityInRange DEF n
  <2>4. Stored(i) # {} BY <1>2, <1>9, <2>3 DEF Stored, Steering
  <2> QED BY <1>9, <2>4 DEF MayRefuse, Steering
<1>10. CASE Kind(i) = "scheduler"
  <2>1. Here(i) /\ profile.ioScheduler \in Files[i].offers
      BY <1>10 DEF Passed, SchedulerPassed, Offered, Steering
  <2>2. Want(i, listed) = profile.ioScheduler BY <1>10 DEF Want, Steering
  <2>3. Stored(i) # {} BY <1>10, <2>1, <2>2 DEF Stored, Steering
  <2> QED BY <1>10, <2>3 DEF MayRefuse, Steering
<1>11. CASE Kind(i) = "governor"
  <2>1. Here(i) BY <1>2, <1>11 DEF Steering
  <2>2. Want(i, listed) = profile.governor BY <1>11 DEF Want, Steering
  <2>3. Stored(i) = {} BY <1>11 DEF MayRefuse, Steering
  <2>4. profile.governor \notin Files[i].offers
      BY <1>11, <2>1, <2>2, <2>3 DEF Stored, Steering
  <2>5. Files[i].dev = "host"
      BY <1>1, <1>11, TuningAssumption DEF Kind, OfDevice, Steering
  <2>6. i \in Mine("governor") BY <1>11, <2>1, <2>5 DEF Mine, Present, Here
  <2> QED BY <2>4, <2>6 DEF OffersGovernor
<1> QED BY <1>1, <1>7, <1>8, <1>9, <1>10, <1>11 DEF Kinds, Steering

LEMMA ReportMembers ==
    ASSUME RunInv, NEW s, Report(s)
    PROVE  Members(results') = Members(results) \cup {s} /\ pc' \in {"check", "report"}
BY MembersOfAppend DEF RunInv, Report

LEMMA NextPhaseMembers ==
    ASSUME RunInv, NextPhase
    PROVE  /\ Members(results') \subseteq Members(results) \cup {StatusChanged}
           /\ pc' \in {"check", "report", "list"}
<1>1. CASE Report(StatusChanged) BY <1>1, ReportMembers
<1> QED BY <1>1 DEF NextPhase, Members

LEMMA CheckNeverFails ==
    ASSUME NEW r \in Resources, NEW unread, NEW rings
    PROVE  CheckStatus(r, unread, rings) \notin {StatusFailed, StatusChanged}
<1>1. \A d : Found(d) \notin {StatusFailed, StatusChanged}
    BY DEF Found, StatusFailed, StatusChanged, StatusWouldChange, StatusUnchanged
<1>2. StatusSkipped \notin {StatusFailed, StatusChanged}
    BY DEF StatusFailed, StatusChanged, StatusSkipped
<1>3. \A x \in {DropInCheck(unread), IrqCheck(unread), NicCheck(unread, rings),
                GovernorCheck(unread), SchedulerCheck(unread)} :
         x \notin {StatusFailed, StatusChanged}
    BY <1>1, <1>2 DEF DropInCheck, IrqCheck, NicCheck, GovernorCheck, SchedulerCheck
<1> QED BY <1>3 DEF CheckStatus, Resources

\* A step of a run adds a failure only with a cause
LEMMA FailureHasCause ==
    ASSUME StateInv, CauseInv, Running
    PROVE  StatusFailed \in Members(results') /\ StatusFailed \notin Members(results)
              => Excused'
<1> SUFFICES ASSUME StatusFailed \in Members(results'), StatusFailed \notin Members(results)
             PROVE  Excused'
    OBVIOUS
<1> USE DEF StateInv
<1>c. StatusFailed # StatusChanged BY DEF StatusFailed, StatusChanged
<1>u. "failed" \in upset' \/ "unreadable" \in upset' => Excused' BY DEF Excused
<1>n. ~NextPhase BY <1>c, NextPhaseMembers
<1>r. results' # results OBVIOUS
<1>1. CASE Check
  <2>1. CASE Upset("failed") BY <1>u, <2>1 DEF Upset
  <2>2. ASSUME NEW unread, NEW rings, Act(CheckStatus(Head(resources), unread, rings))
        PROVE  FALSE
    <3>1. Head(resources) \in Resources
      <4>1. resources \in Seq(TurnedOn) /\ resources # << >>
          BY <1>1 DEF Check, RunInv
      <4>2. Head(resources) \in TurnedOn BY <4>1, TailOfList
      <4> QED BY <4>2 DEF TurnedOn
    <3>2. CheckStatus(Head(resources), unread, rings) # StatusFailed
        BY <3>1, CheckNeverFails
    <3>3. Report(CheckStatus(Head(resources), unread, rings))
        BY <1>r, <2>2 DEF Act
    <3> QED BY <3>2, <3>3, ReportMembers
  <2> QED BY <1>1, <2>1, <2>2 DEF Check
<1>2. CASE List BY <1>2, <1>u, <1>n, <1>r DEF List, Upset
<1>3. CASE Ring BY <1>3, <1>u, <1>n DEF Ring, Upset
<1>4. CASE Write
  <2>1. CASE Upset("failed") BY <1>u, <2>1 DEF Upset
  <2>2. ASSUME NEW i, WriteDone(i) PROVE FALSE
      BY <1>n, <1>r, <2>2 DEF WriteDone
  <2>3. CASE ~Passed(First(rest)) /\ MayRefuse(First(rest))
    <3>1. pc = "write" BY <1>4 DEF Write
    <3>2. Excused BY <2>3, <3>1, RefusedForCause DEF Excused
    <3> QED BY <3>2, ExcusedKept
  <2>4. CASE ("unreadable" \in upset /\ Calm) \/ Upset("unreadable")
      BY <1>u, <2>4 DEF Upset, Calm
  <2> QED BY <1>4, <2>1, <2>2, <2>3, <2>4 DEF Write
<1> QED BY <1>1, <1>2, <1>3, <1>4 DEF Running

LEMMA CauseStep ==
    ASSUME StateInv, CauseInv, [Next]_vars
    PROVE  CauseInv'
<1>1. CASE Running
  <2>1. (pc # "idle" /\ StatusFailed \in Members(results) => Excused)'
    <3>1. pc # "idle" BY <1>1 DEF Running, Check, List, Ring, Write
    <3> QED BY <1>1, <3>1, FailureHasCause, ExcusedKept DEF CauseInv, Members
  <2>2. ASSUME pc' = "write", "disturbed" \notin upset', NEW i \in listed'
        PROVE  Kind(i) \in Steering \cup {"limits"} \/ Here(i)'
    <3>0. "disturbed" \notin upset BY <1>1, <2>2, SameHere
    <3>1. CASE pc = "write"
      <4>1. listed' = listed
        <5>1. Write BY <1>1, <3>1 DEF Running, Check, List, Ring
        <5>2. \A s : ~Report(s) BY <2>2 DEF Report
        <5>3. ~NextPhase BY <2>2, <5>2 DEF NextPhase
        <5> QED BY <5>1, <5>2, <5>3 DEF Write, WriteDone
      <4>2. i \in DOMAIN Files BY <2>2, <3>1, <4>1 DEF StateInv, RunInv
      <4>3. Kind(i) \in Steering \cup {"limits"} \/ Here(i)
          BY <2>2, <3>0, <3>1, <4>1 DEF CauseInv
      <4> QED BY <1>1, <4>2, <4>3, SameHere
    <3>2. CASE pc # "write"
      <4>1. \A s : ~Report(s) BY <2>2 DEF Report
      <4>2. ~NextPhase BY <2>2, <4>1 DEF NextPhase
      <4>3. ~Check BY <2>2, <4>1 DEF Check, Act
      <4>4. List BY <1>1, <3>2, <4>1, <4>2, <4>3 DEF Running, Ring, Write
      <4>5. listed' = Listing(Head(phases)) /\ Head(phases) # "ring" /\ pc = "list"
          BY <4>1, <4>2, <4>4 DEF List
      <4>6. Head(phases) \in Kinds
        <5>1. phases \in Seq(StepsOn) /\ phases # << >> BY <4>5 DEF StateInv, RunInv
        <5> QED BY <4>5, <5>1, TailOfList DEF StepsOn
      <4>7. i \in DOMAIN Files /\ Kind(i) = Head(phases)
          BY <2>2, <4>5, <4>6, ListingKind
      <4>8. Kind(i) \in {"irq", "governor", "scheduler"} => Here(i)
          BY <2>2, <4>5, <4>7 DEF Listing, EnaIRQs, GovernorPaths, NvmeDevices, Steering
      <4> QED BY <1>1, <4>6, <4>7, <4>8, SameHere DEF Kinds, Steering
    <3> QED BY <3>1, <3>2
  <2> QED BY <2>1, <2>2 DEF CauseInv, Kind
<1>2. CASE Begin
  <2>1. results' = << >> /\ pc' # "write" BY <1>2 DEF Begin
  <2> QED BY <2>1 DEF CauseInv, Members
<1>3. CASE Exit BY <1>3 DEF Exit, CauseInv
<1>4. CASE Disturb
  <2>1. pc = "idle" \/ "disturbed" \in upset' BY <1>4 DEF Disturb
  <2>2. pc' = pc BY <1>4 DEF Disturb, run
  <2> QED BY <2>1, <2>2 DEF CauseInv, Excused
<1>5. CASE UNCHANGED vars
    BY <1>5 DEF vars, host, inputs, run, CauseInv, Excused, FactsFit, OffersGovernor, Mine,
                Present, Here, Kind, Members
<1> QED BY <1>1, <1>2, <1>3, <1>4, <1>5 DEF Next, Running, Finish, Kill, Restart

\* For any knobs and any CPU counts, an apply fails only for the causes listed:
\* a listing, a write or `ethtool -G` that failed, a drop-in that could not be
\* read, a host that changed, facts with too many CPUs, a governor not offered.
\* No other unreadable file, no ethtool without an answer and no queue without
\* its steering file is one.
THEOREM CauseTheorem == Spec => []FailsOnlyForCause
<1>1. Init => CauseInv BY DEF Init, CauseInv
<1>2. StateInv /\ CauseInv => FailsOnlyForCause
    BY DEF CauseInv, FailsOnlyForCause, Excused, ExitCode, Members
<1> QED BY <1>1, <1>2, CauseStep, StateInvariant, PTL DEF Spec

-----------------------------------------------------------------------------
(* What a run leaves behind.                                                *)

Steps == Kinds \cup {"ring"}
Owner(k) == IF k \in Steering \cup {"ring"} THEN "nic" ELSE k

\* The config and the facts ask for step k
On(k) == CASE k = "ring" -> profile.ringBufferMax
           [] k \in Steering -> Steers(k)
           [] k = "irq" -> profile.irq /\ sizing.vcpus > 1
           [] k = "governor" -> profile.governor # ""
           [] k = "scheduler" -> profile.ioEnabled
           [] k = "limits" -> TRUE

\* A knob holds what is wanted; every knob of a step does
Value(i) == IF Kind(i) \in Steering THEN CpuRange(sizing.vcpus) ELSE Want(i, EnaIRQs)
Right(i) == /\ Kind(i) = "limits" => Here(i)
            /\ i \in Present /\ Offered(i) => knob[i] = Value(i)
InTune(k) == IF k = "ring" THEN iface \in Hardware => lowRings = {}
            ELSE \A i \in Listing(k) : Right(i)

\* The run is past step k
Behind(k) == \/ Owner(k) \notin Members(resources)
             \/ /\ pc \in {"list", "write"} /\ Owner(k) = Head(resources)
                /\ k \notin Members(phases)

IdleInv ==
    /\ pc = "idle" => upset = {} /\ phases = << >> /\ results = << >>
    /\ pc = "report" => resources = << >>
    /\ pc \in {"check", "report"} => phases = << >>
    /\ pc \in {"list", "write"} => \A k \in Members(phases) : Owner(k) = Head(resources)

\* The ring step comes first
RingInv ==
    pc \in {"list", "write"} =>
        /\ "ring" \notin Members(Tail(phases))
        /\ Head(phases) = "ring" =>
              \A k \in Steering : Steers(k) => k \in Members(Tail(phases))

Calmly == upset = {} /\ (pc # "idle" \/ clean >= 1)
SameInv ==
    Calmly => /\ iface = PrimaryInterface(links)
              /\ pc = "write" => listed = Listing(Head(phases))

\* What is behind the run is in tune -- the interrupts only if an earlier run has
\* dealt with the rings -- and so are the files the current step has visited
Done ==
    /\ \A k \in Steps : On(k) /\ (k = "irq" => clean >= 1) /\ Behind(k) => InTune(k)
    /\ pc = "write" /\ On(Head(phases)) => \A i \in listed \ rest : Right(i)

\* Only the interrupts are left to tune, after two clean runs nothing is
Steady ==
    /\ \A k \in Steps \ {"irq"} : On(k) => InTune(k)
    /\ phases \in {<< >>, << "irq" >>}
    /\ clean = 2 => /\ On("irq") => InTune("irq")
                    /\ phases = << >> /\ StatusChanged \notin Members(results)

ProgressInv ==
    pc # "idle" /\ upset = {} /\ FactsFit /\ StatusFailed \notin Members(results) => Done
SteadyInv == clean >= 1 /\ upset = {} /\ FactsFit => Steady

TunedInv == IdleInv /\ RingInv /\ SameInv /\ ProgressInv /\ SteadyInv

LEMMA HeadMembers ==
    ASSUME NEW S, NEW s \in Seq(S), s # << >>
    PROVE  /\ Head(s) \in Members(s) /\ Members(s) = {Head(s)} \cup Members(Tail(s))
           /\ Len(s) = 1 => Tail(s) = << >>
           /\ Members(<< >>) = {} /\ Members(s) \subseteq S
<1>1. Len(s) \in Nat /\ Len(s) # 0 /\ DOMAIN s = 1 .. Len(s) BY EmptySeq
<1>2. /\ Head(s) = s[1] /\ Tail(s) \in Seq(S) /\ Len(Tail(s)) = Len(s) - 1
      /\ \A i \in 1 .. (Len(s) - 1) : Tail(s)[i] = s[i + 1]
    BY HeadTailProperties
<1>3. DOMAIN Tail(s) = 1 .. (Len(s) - 1) BY <1>1, <1>2
<1>4. ASSUME NEW x \in Members(s) PROVE x \in {Head(s)} \cup Members(Tail(s))
  <2>1. PICK i \in 1 .. Len(s) : x = s[i] BY <1>1, <1>4 DEF Members
  <2>2. CASE i = 1 BY <1>2, <2>1, <2>2
  <2>3. CASE i # 1
    <3>1. i - 1 \in 1 .. (Len(s) - 1) /\ (i - 1) + 1 = i BY <1>1, <2>3
    <3> QED BY <1>2, <1>3, <2>1, <3>1 DEF Members
  <2> QED BY <2>2, <2>3
<1>5. ASSUME NEW x \in {Head(s)} \cup Members(Tail(s)) PROVE x \in Members(s)
  <2>1. CASE x = Head(s) BY <1>1, <1>2, <2>1 DEF Members
  <2>2. CASE x \in Members(Tail(s))
    <3>1. PICK i \in 1 .. (Len(s) - 1) : x = s[i + 1] BY <1>2, <1>3, <2>2 DEF Members
    <3> QED BY <1>1, <3>1 DEF Members
  <2> QED BY <1>5, <2>1, <2>2
<1>6. Len(s) = 1 => Tail(s) = << >>
  <2>1. Len(s) = 1 => Len(Tail(s)) = 0 BY <1>2
  <2>2. Tail(s) = << >> <=> Len(Tail(s)) = 0 BY <1>2, EmptySeq
  <2> QED BY <2>1, <2>2
<1>7. Members(<< >>) = {} BY DEF Members
<1>8. Members(s) \subseteq S
  <2>1. \A i \in 1 .. Len(s) : s[i] \in S BY ElementOfSeq
  <2> QED BY <1>1, <2>1 DEF Members
<1>9. Head(s) \in Members(s) BY <1>5
<1> QED BY <1>4, <1>5, <1>6, <1>7, <1>8, <1>9

LEMMA MembersOfConcat ==
    ASSUME NEW S, NEW s \in Seq(S), NEW t \in Seq(S)
    PROVE  s \o t \in Seq(S) /\ Members(s \o t) = Members(s) \cup Members(t)
<1>1. /\ Len(s) \in Nat /\ Len(t) \in Nat /\ DOMAIN s = 1 .. Len(s) /\ DOMAIN t = 1 .. Len(t)
      /\ DOMAIN (s \o t) = 1 .. (Len(s) + Len(t))
      /\ \A i \in 1 .. (Len(s) + Len(t)) :
            (s \o t)[i] = IF i <= Len(s) THEN s[i] ELSE t[i - Len(s)]
    BY ConcatProperties
<1>2. ASSUME NEW x \in Members(s \o t) PROVE x \in Members(s) \cup Members(t)
  <2>1. PICK i \in 1 .. (Len(s) + Len(t)) : x = (s \o t)[i] BY <1>1, <1>2 DEF Members
  <2>2. CASE i <= Len(s) BY <1>1, <2>1, <2>2 DEF Members
  <2>3. CASE ~(i <= Len(s))
    <3>1. i - Len(s) \in 1 .. Len(t) BY <1>1, <2>3
    <3> QED BY <1>1, <2>1, <2>3, <3>1 DEF Members
  <2> QED BY <2>2, <2>3
<1>3. ASSUME NEW x \in Members(s) PROVE x \in Members(s \o t)
  <2>1. PICK i \in 1 .. Len(s) : x = s[i] BY <1>1, <1>3 DEF Members
  <2>2. i \in 1 .. (Len(s) + Len(t)) /\ i <= Len(s) BY <1>1
  <2> QED BY <1>1, <2>1, <2>2 DEF Members
<1>4. ASSUME NEW x \in Members(t) PROVE x \in Members(s \o t)
  <2>1. PICK i \in 1 .. Len(t) : x = t[i] BY <1>1, <1>4 DEF Members
  <2>2. /\ i + Len(s) \in 1 .. (Len(s) + Len(t)) /\ ~(i + Len(s) <= Len(s))
        /\ (i + Len(s)) - Len(s) = i
      BY <1>1
  <2> QED BY <1>1, <2>1, <2>2 DEF Members
<1>5. s \o t \in Seq(S) BY ConcatProperties
<1> QED BY <1>2, <1>3, <1>4, <1>5

LEMMA WhenMembers ==
    ASSUME NEW c, NEW name
    PROVE  Members(When(c, name)) = IF c THEN {name} ELSE {}
<1>1. Members(<< name >>) = {name} /\ Members(<< >>) = {} BY DEF Members
<1> QED BY <1>1, Zenon DEF When

\* engine.Build makes a resource for every step that is asked for, and Apply has
\* the step, the ring change first
LEMMA OwnerListed ==
    ASSUME NEW p, NEW k \in Steps,
           k = "limits" => p.noFile > 0, k = "irq" => p.irq,
           k = "ring" => p.ringBufferMax, k = "rps" => p.rps, k = "xps" => p.xps,
           k = "governor" => p.governor # "", k = "scheduler" => p.ioEnabled
    PROVE  Owner(k) \in Members(ResourceList(p))
<1> DEFINE a == When(p.noFile > 0, "limits")
           b == When(p.irq, "irq")
           c == When(p.ringBufferMax \/ p.rps \/ p.xps, "nic")
           d == When(p.governor # "", "governor")
           e == When(p.ioEnabled, "scheduler")
<1>1. a \in Seq(Resources) BY WhenType DEF Resources
<1>2. b \in Seq(Resources) BY WhenType DEF Resources
<1>3. c \in Seq(Resources) BY WhenType DEF Resources
<1>4. d \in Seq(Resources) BY WhenType DEF Resources
<1>5. e \in Seq(Resources) BY WhenType DEF Resources
<1>6. /\ Members(a) = IF p.noFile > 0 THEN {"limits"} ELSE {}
      /\ Members(b) = IF p.irq THEN {"irq"} ELSE {}
      /\ Members(c) = IF p.ringBufferMax \/ p.rps \/ p.xps THEN {"nic"} ELSE {}
      /\ Members(d) = IF p.governor # "" THEN {"governor"} ELSE {}
      /\ Members(e) = IF p.ioEnabled THEN {"scheduler"} ELSE {}
    BY WhenMembers, Zenon
<1>7. ResourceList(p) = a \o b \o c \o d \o e BY DEF ResourceList
<1> HIDE DEF a, b, c, d, e
<1>8. \A s, t \in Seq(Resources) :
         (s \o t) \in Seq(Resources) /\ Members(s \o t) = Members(s) \cup Members(t)
    BY MembersOfConcat
<1> DEFINE ab == a \o b
           abc == ab \o c
           abcd == abc \o d
<1>9. ab \in Seq(Resources) /\ Members(ab) = Members(a) \cup Members(b)
    BY <1>1, <1>2, <1>8
<1> HIDE DEF ab
<1>10. abc \in Seq(Resources) /\ Members(abc) = Members(ab) \cup Members(c)
    BY <1>3, <1>8, <1>9
<1> HIDE DEF abc
<1>11. /\ abcd \in Seq(Resources) /\ Members(abcd) = Members(abc) \cup Members(d)
       /\ Members(abcd \o e) = Members(abcd) \cup Members(e)
    BY <1>4, <1>5, <1>8, <1>10
<1>13. ResourceList(p) = abcd \o e BY <1>7 DEF ab, abc
<1>12. Members(ResourceList(p)) =
         Members(a) \cup Members(b) \cup Members(c) \cup Members(d) \cup Members(e)
    BY <1>9, <1>10, <1>11, <1>13
<1> QED BY <1>6, <1>12 DEF Steps, Kinds, Owner, Steering

LEMMA PhasesOfNic ==
    /\ Phases("nic") \in Seq(Steps)
    /\ Members(Phases("nic")) =
          (IF profile.ringBufferMax THEN {"ring"} ELSE {})
          \cup (IF Steers("rps") THEN {"rps"} ELSE {})
          \cup (IF Steers("xps") THEN {"xps"} ELSE {})
    /\ profile.ringBufferMax =>
          Members(Tail(Phases("nic"))) = (IF Steers("rps") THEN {"rps"} ELSE {})
                                         \cup (IF Steers("xps") THEN {"xps"} ELSE {})
<1> DEFINE a == When(profile.ringBufferMax, "ring")
           b == When(Steers("rps"), "rps")
           c == When(Steers("xps"), "xps")
<1>1. a \in Seq(Steps) BY WhenType DEF Steps, Kinds
<1>2. b \in Seq(Steps) BY WhenType DEF Steps, Kinds
<1>3. c \in Seq(Steps) BY WhenType DEF Steps, Kinds
<1>4. /\ Members(a) = IF profile.ringBufferMax THEN {"ring"} ELSE {}
      /\ Members(b) = IF Steers("rps") THEN {"rps"} ELSE {}
      /\ Members(c) = IF Steers("xps") THEN {"xps"} ELSE {}
    BY WhenMembers, Zenon
<1>5. Phases("nic") = a \o b \o c BY Zenon DEF Phases
<1>6. profile.ringBufferMax => a = << "ring" >> BY Zenon DEF When
<1> HIDE DEF a, b, c
<1>7. \A s, t \in Seq(Steps) :
         (s \o t) \in Seq(Steps) /\ Members(s \o t) = Members(s) \cup Members(t)
    BY MembersOfConcat
<1> DEFINE bc == b \o c
<1>8. bc \in Seq(Steps) /\ Members(bc) = Members(b) \cup Members(c)
    BY <1>2, <1>3, <1>7
<1>9. Phases("nic") = a \o bc
  <2>1. \A s, t, u \in Seq(Steps) : (s \o t) \o u = s \o (t \o u)
      BY ConcatAssociative
  <2>2. (a \o b) \o c = a \o (b \o c) BY <1>1, <1>2, <1>3, <2>1, Zenon
  <2> QED BY <1>5, <2>2
<1> HIDE DEF bc
<1>10. (a \o bc) \in Seq(Steps) /\ Members(a \o bc) = Members(a) \cup Members(bc)
    BY <1>1, <1>7, <1>8
<1>11. profile.ringBufferMax => Tail(a \o bc) = bc
  <2>1. "ring" \in Steps BY DEF Steps
  <2>2. ASSUME NEW x \in Steps, NEW s \in Seq(Steps) PROVE Tail(<< x >> \o s) = s
      OBVIOUS
  <2> QED BY <1>6, <1>8, <2>1, <2>2, Zenon
<1> QED BY <1>4, <1>8, <1>9, <1>10, <1>11, Zenon

LEMMA StepsOfApply ==
    ASSUME NEW r \in Resources
    PROVE  /\ \A k \in Members(Phases(r)) : Owner(k) = r
           /\ \A k \in Steps : On(k) /\ Owner(k) = r => k \in Members(Phases(r))
           /\ Phases(r) # << >> =>
                 /\ "ring" \notin Members(Tail(Phases(r)))
                 /\ Head(Phases(r)) = "ring" =>
                       \A k \in Steering : Steers(k) => k \in Members(Tail(Phases(r)))
<1>1. CASE r # "nic"
  <2>1. Phases(r) = << r >> BY <1>1 DEF Phases
  <2>2. Members(<< r >>) = {r} BY DEF Members
  <2>3. Tail(<< r >>) = << >> /\ Members(<< >>) = {} BY DEF Members
  <2>4. Head(<< r >>) = r OBVIOUS
  <2> QED BY <1>1, <2>1, <2>2, <2>3, <2>4 DEF Owner, Resources, Steps, Kinds, Steering
<1>2. CASE r = "nic"
  <2>1. \A k \in Members(Phases(r)) : Owner(k) = r
      BY <1>2, PhasesOfNic DEF Owner, Steering
  <2>2. \A k \in Steps : On(k) /\ Owner(k) = r => k \in Members(Phases(r))
      BY <1>2, PhasesOfNic DEF Owner, Steering, Steps, Kinds, On
  <2>3. ASSUME Phases(r) # << >>
        PROVE  /\ "ring" \notin Members(Tail(Phases(r)))
               /\ Head(Phases(r)) = "ring" =>
                     \A k \in Steering : Steers(k) => k \in Members(Tail(Phases(r)))
    <3>1. CASE profile.ringBufferMax BY <1>2, <3>1, PhasesOfNic DEF Steering
    <3>2. CASE ~profile.ringBufferMax
      <4>1. Phases(r) \in Seq(Steps) BY <1>2, PhasesOfNic
      <4>2. "ring" \notin Members(Phases(r)) BY <1>2, <3>2, PhasesOfNic
      <4> QED BY <2>3, <4>1, <4>2, HeadMembers
    <3> QED BY <3>1, <3>2
  <2> QED BY <2>1, <2>2, <2>3
<1> QED BY <1>1, <1>2

LEMMA CpuFacts ==
    ASSUME StateInv
    PROVE  /\ sizing \in Sizing /\ sizing.vcpus \in Nat
           /\ cpus \in Nat /\ cpus >= 1 /\ CpuIds \in Nat /\ cpus <= CpuIds
<1>1. sizing \in Sizing BY ReadInputs DEF StateInv, InputInv
<1>2. cpus \in 1 .. CpuIds /\ CpuIds \in Nat
    BY TuningAssumption DEF StateInv, HostInv
<1> QED BY <1>1, <1>2 DEF Sizing

LEMMA KindOf ==
    ASSUME NEW i \in DOMAIN Files
    PROVE  /\ Kind(i) \in Kinds /\ Files[i].dev # ""
           /\ Files[i].dev = "host" <=> ~OfDevice(Kind(i))
BY TuningAssumption DEF Kind

\* The code's comparison of a file with what it wants is the right one: a mask
\* is compared by its bits
LEMMA MatchesValue ==
    ASSUME StateInv, NEW i \in DOMAIN Files, NEW files,
           Kind(i) = "irq" => files = EnaIRQs,
           Kind(i) \in Steering => sizing.vcpus >= 1
    PROVE  Matches(i, files) <=> knob[i] = Value(i)
<1>1. CASE Kind(i) \in Steering
  <2>1. Want(i, files) = CpumaskAll(sizing.vcpus) BY <1>1 DEF Want, Steering
  <2>2. knob[i] \subseteq CpuRange(cpus)
    <3>1. knob[i] \in KnobType(i, cpus) BY DEF StateInv, HostInv
    <3> QED BY <1>1, <3>1, KnobTypes DEF OfDevice
  <2>3. CpuRange(cpus) \subseteq CpuRange(CpuIds) BY CpuFacts DEF CpuRange
  <2>4. knob[i] \subseteq CpuRange(CpuIds) BY <2>2, <2>3
  <2>5. CpuMasksEqual(KernelPrint(knob[i]), CpumaskAll(sizing.vcpus))
           <=> knob[i] = CpuRange(sizing.vcpus)
      BY <1>1, <2>4, CpuFacts, MasksEqual
  <2> QED BY <1>1, <2>1, <2>5 DEF Matches, Value
<1>2. CASE Kind(i) \notin Steering
  <2>1. Want(i, files) = Want(i, EnaIRQs)
    <3>1. CASE Kind(i) = "irq" BY <3>1
    <3>2. CASE Kind(i) # "irq" BY <1>2, <3>2, KindOf DEF Want, Kinds, Steering
    <3> QED BY <3>1, <3>2
  <2> QED BY <1>2, <2>1 DEF Matches, Value
<1> QED BY <1>1, <1>2

\* What a step lists is there, but for a queue's files and the drop-ins, and
\* nothing belongs to no interface
LEMMA ListingFacts ==
    ASSUME StateInv, NEW k \in Kinds, NEW i \in Listing(k)
    PROVE  /\ i \in DOMAIN Files /\ Kind(i) = k /\ Kind(i) \in Kinds
           /\ k \in {"irq", "governor", "scheduler"} => Here(i)
           /\ OfDevice(k) => iface # ""
           /\ k = "limits" => Files[i].dev = "host"
<1>1. i \in DOMAIN Files /\ Kind(i) = k /\ (OfDevice(Kind(i)) => Files[i].dev = iface)
    BY ListingKind
<1>2. k \in {"irq", "governor", "scheduler"} => Here(i)
    BY DEF Listing, EnaIRQs, GovernorPaths, NvmeDevices, Steering
<1> QED BY <1>1, <1>2, KindOf DEF OfDevice, Steering

LEMMA PresentIsHere ==
    ASSUME NEW i
    PROVE  i \in Present <=> Here(i)
BY DEF Present, Here

LEMMA RingInTune ==
    ASSUME StateInv, iface = PrimaryInterface(links), ~RingDrift
    PROVE  InTune("ring")
<1>1. iface \in {""} \cup Members(links) BY PrimaryIsListed DEF StateInv, HostInv
<1>2. iface # "" \/ iface \notin Hardware BY TuningAssumption
<1> QED BY <1>1, <1>2 DEF RingDrift, InTune

\* A step without drift is in tune, and one in tune has no drift
LEMMA DriftedInTune ==
    ASSUME StateInv, NEW k \in Kinds \ {"limits"}, k \in Steering => sizing.vcpus > 1
    PROVE  ~Drifted(k, {}) <=> InTune(k)
<1>1. ASSUME NEW i \in Listing(k)
      PROVE  Right(i) <=> ~(Here(i) /\ Offered(i) /\ ~Matches(i, Listing(k)))
  <2>1. i \in DOMAIN Files /\ Kind(i) = k BY ListingFacts
  <2>2. Kind(i) = "irq" => Listing(k) = EnaIRQs BY <2>1 DEF Listing, Steering
  <2>3. Kind(i) \in Steering => sizing.vcpus >= 1 BY <2>1, CpuFacts
  <2>4. Matches(i, Listing(k)) <=> knob[i] = Value(i)
      BY <2>1, <2>2, <2>3, MatchesValue
  <2> QED BY <2>1, <2>4, PresentIsHere DEF Right
<1>2. Drifted(k, {}) <=>
         \E i \in Listing(k) : Here(i) /\ Offered(i) /\ ~Matches(i, Listing(k))
    BY DEF Drifted
<1>3. InTune(k) <=> \A i \in Listing(k) : Right(i) BY DEF InTune, Kinds
<1> QED BY <1>1, <1>2, <1>3

LEMMA LimitsInTune ==
    ASSUME StateInv
    PROVE  DropInCheck({}) # StatusWouldChange <=> InTune("limits")
<1>1. Listing("limits") = OfKind("limits") BY DEF Listing, Steering
<1>2. ASSUME NEW i \in OfKind("limits")
      PROVE  Right(i) <=> ~(~Here(i) \/ ~Matches(i, {i}))
  <2>1. i \in DOMAIN Files /\ Kind(i) = "limits" BY DEF OfKind
  <2>2. Offered(i) BY <2>1 DEF Offered
  <2>3. Matches(i, {i}) <=> knob[i] = Value(i)
      BY <2>1, MatchesValue DEF Steering
  <2> QED BY <2>1, <2>2, <2>3, PresentIsHere DEF Right
<1>3. DropInCheck({}) # StatusWouldChange <=>
         ~ \E i \in OfKind("limits") : ~Here(i) \/ ~Matches(i, {i})
    BY DEF DropInCheck, Found, StatusUnchanged, StatusWouldChange
<1>4. InTune("limits") <=> \A i \in OfKind("limits") : Right(i)
    BY <1>1 DEF InTune
<1> QED BY <1>2, <1>3, <1>4

\* Check finds no drift exactly if all of the resource's steps are in tune
LEMMA CheckFinds ==
    ASSUME StateInv, iface = PrimaryInterface(links), NEW r \in TurnedOn
    PROVE  CheckStatus(r, {}, TRUE) # StatusWouldChange <=>
              \A k \in Steps : On(k) /\ Owner(k) = r => InTune(k)
<1>f. \A d : Found(d) = StatusWouldChange <=> d
    BY DEF Found, StatusUnchanged, StatusWouldChange
<1>s. StatusSkipped # StatusWouldChange BY DEF StatusSkipped, StatusWouldChange
<1>r. r \in Resources /\ MayRun(profile, r) BY DEF TurnedOn
<1>i. iface = "" => \A k \in Kinds : OfDevice(k) => Listing(k) = {} BY ListingFacts
<1>1. CASE r = "limits"
  <2>1. CheckStatus(r, {}, TRUE) = DropInCheck({}) BY <1>1 DEF CheckStatus
  <2>2. \A k \in Steps : (On(k) /\ Owner(k) = r) <=> k = "limits"
      BY <1>1 DEF Steps, Kinds, Owner, Steering, On
  <2> QED BY <2>1, <2>2, LimitsInTune DEF Steps, Kinds
<1>2. CASE r = "irq"
  <2>1. CheckStatus(r, {}, TRUE) = IrqCheck({}) BY <1>2 DEF CheckStatus
  <2>2. \A k \in Steps : (On(k) /\ Owner(k) = r) <=> (k = "irq" /\ sizing.vcpus > 1)
      BY <1>2, <1>r DEF Steps, Kinds, Owner, Steering, On, MayRun
  <2>3. "irq" \in Kinds \ {"limits"} /\ "irq" \notin Steering /\ "irq" \in Steps
      BY DEF Kinds, Steering, Steps
  <2>4. Listing("irq") = EnaIRQs BY DEF Listing, Steering
  <2>5. EnaIRQs = {} => InTune("irq") BY <2>4 DEF InTune
  <2>6. iface = "" => EnaIRQs = {} BY <1>i, <2>3, <2>4 DEF OfDevice
  <2>7. ~(sizing.vcpus <= 1) <=> sizing.vcpus > 1 BY CpuFacts
  <2>8. ~Drifted("irq", {}) <=> InTune("irq") BY <2>3, DriftedInTune
  <2>9. IrqCheck({}) = StatusWouldChange <=>
           iface # "" /\ ~(sizing.vcpus <= 1) /\ EnaIRQs # {} /\ Drifted("irq", {})
      BY DEF IrqCheck, Found, StatusUnchanged, StatusWouldChange, StatusSkipped
  <2> QED BY <2>1, <2>2, <2>3, <2>5, <2>6, <2>7, <2>8, <2>9
<1>3. CASE r = "nic"
  <2>1. CheckStatus(r, {}, TRUE) = NicCheck({}, TRUE) BY <1>3 DEF CheckStatus
  <2>2. \A k \in Steps : (On(k) /\ Owner(k) = r) <=>
           (k = "ring" /\ profile.ringBufferMax) \/ (k \in Steering /\ Steers(k))
      BY <1>3 DEF Steps, Kinds, Owner, Steering, On
  <2>3. ASSUME NEW k \in Steering, Steers(k)
        PROVE  (~Drifted(k, {}) <=> InTune(k)) /\ (iface = "" => InTune(k))
    <3>1. k \in Kinds \ {"limits"} /\ OfDevice(k) /\ k # "ring"
        BY DEF Steering, Kinds, OfDevice
    <3>2. sizing.vcpus > 1 BY <2>3 DEF Steers
    <3>3. iface = "" => InTune(k) BY <1>i, <3>1 DEF InTune
    <3> QED BY <3>1, <3>2, <3>3, DriftedInTune
  <2>4. ~RingDrift <=> InTune("ring")
      BY RingInTune DEF RingDrift, InTune
  <2>5. iface = "" => ~RingDrift BY TuningAssumption DEF RingDrift
  <2>6. "ring" \in Steps /\ Steering \subseteq Steps BY DEF Steps, Steering, Kinds
  <2>7. CASE iface = "" BY <1>s, <2>1, <2>2, <2>3, <2>4, <2>5, <2>7 DEF NicCheck
  <2>8. CASE iface # ""
    <3>1. NicCheck({}, TRUE) # StatusWouldChange <=>
             ~(\/ profile.ringBufferMax /\ RingDrift
               \/ \E k \in Steering : Steers(k) /\ Drifted(k, {}))
        BY <1>f, <2>8 DEF NicCheck
    <3> QED BY <2>1, <2>2, <2>3, <2>4, <2>6, <3>1
  <2> QED BY <2>7, <2>8
<1>4. CASE r = "governor"
  <2>1. CheckStatus(r, {}, TRUE) = GovernorCheck({}) BY <1>4 DEF CheckStatus
  <2>2. \A k \in Steps : (On(k) /\ Owner(k) = r) <=> k = "governor"
      BY <1>4, <1>r DEF Steps, Kinds, Owner, Steering, On, MayRun
  <2>3. "governor" \in Kinds \ {"limits"} /\ "governor" \notin Steering
        /\ "governor" \in Steps
      BY DEF Kinds, Steering, Steps
  <2>4. Listing("governor") = GovernorPaths BY DEF Listing, Steering
  <2>5. GovernorPaths = {} => InTune("governor") BY <2>4 DEF InTune
  <2>6. ~Drifted("governor", {}) <=> InTune("governor") BY <2>3, DriftedInTune
  <2>7. GovernorCheck({}) = StatusWouldChange <=>
           GovernorPaths # {} /\ Drifted("governor", {})
      BY DEF GovernorCheck, Found, StatusUnchanged, StatusWouldChange, StatusSkipped
  <2> QED BY <2>1, <2>2, <2>3, <2>5, <2>6, <2>7
<1>5. CASE r = "scheduler"
  <2>1. CheckStatus(r, {}, TRUE) = SchedulerCheck({}) BY <1>5 DEF CheckStatus
  <2>2. \A k \in Steps : (On(k) /\ Owner(k) = r) <=> k = "scheduler"
      BY <1>5, <1>r DEF Steps, Kinds, Owner, Steering, On, MayRun
  <2>3. "scheduler" \in Kinds \ {"limits"} /\ "scheduler" \notin Steering
        /\ "scheduler" \in Steps
      BY DEF Kinds, Steering, Steps
  <2>4. Listing("scheduler") = NvmeDevices BY DEF Listing, Steering
  <2>5. NvmeDevices = {} => InTune("scheduler") BY <2>4 DEF InTune
  <2>6. ~Drifted("scheduler", {}) <=> InTune("scheduler") BY <2>3, DriftedInTune
  <2>7. SchedulerCheck({}) = StatusWouldChange <=>
           NvmeDevices # {} /\ Drifted("scheduler", {})
      BY DEF SchedulerCheck, Found, StatusUnchanged, StatusWouldChange, StatusSkipped
  <2> QED BY <2>1, <2>2, <2>3, <2>5, <2>6, <2>7
<1> QED BY <1>r, <1>1, <1>2, <1>3, <1>4, <1>5 DEF Resources

-----------------------------------------------------------------------------
(* What a step of a run leaves alone.                                       *)

LEMMA SameListing ==
    ASSUME StateInv, Running, NEW k \in Kinds
    PROVE  Listing(k)' = Listing(k)
<1>1. \A c \in Kinds : OfKind(c)' = OfKind(c) /\ OfInterface(c)' = OfInterface(c)
    BY SameHere DEF OfKind, OfInterface, Kind
<1>2. \A i \in DOMAIN Files : Kind(i) # "limits" => (Here(i)' <=> Here(i))
    BY SameHere
<1>3. CASE k = "irq"
    BY <1>1, <1>2, <1>3 DEF Listing, EnaIRQs, OfInterface, OfKind, Steering, Kind
<1>4. CASE k \in Steering BY <1>1, <1>4 DEF Listing, QueueDirs, Steering
<1>5. CASE k = "governor"
    BY <1>1, <1>2, <1>5 DEF Listing, GovernorPaths, OfKind, Steering, Kind
<1>6. CASE k = "scheduler"
    BY <1>1, <1>2, <1>6 DEF Listing, NvmeDevices, OfKind, Steering, Kind
<1>7. CASE k = "limits" BY <1>1, <1>7 DEF Listing, Steering
<1> QED BY <1>3, <1>4, <1>5, <1>6, <1>7 DEF Kinds, Steering

LEMMA SameWishes ==
    ASSUME StateInv, Running
    PROVE  /\ FactsFit' <=> FactsFit
           /\ \A k \in Steps : On(k)' <=> On(k)
           /\ \A i \in DOMAIN Files : Value(i)' = Value(i) /\ (Offered(i)' <=> Offered(i))
<1>1. EnaIRQs' = EnaIRQs
  <2>1. Listing("irq")' = Listing("irq") BY SameListing DEF Kinds
  <2> QED BY <2>1 DEF Listing, Steering
<1>2. FactsFit' <=> FactsFit BY SameHere DEF FactsFit
<1>3. ASSUME NEW k \in Steps PROVE On(k)' <=> On(k)
    BY SameHere DEF On, Steers
<1>4. ASSUME NEW i \in DOMAIN Files
      PROVE  Value(i)' = Value(i) /\ (Offered(i)' <=> Offered(i))
  <2>1. Offered(i)' <=> Offered(i) BY SameHere DEF Offered, Kind
  <2>2. Want(i, EnaIRQs)' = Want(i, EnaIRQs)
      BY <1>1, SameHere DEF Want, Kind, RenderLimits, DesiredAffinity
  <2> QED BY <2>1, <2>2, SameHere DEF Value, Kind
<1> QED BY <1>2, <1>3, <1>4

LEMMA RightKept ==
    ASSUME StateInv, Running, NEW i \in DOMAIN Files, Right(i), knob'[i] = knob[i]
    PROVE  Right(i)'
<1>1. Value(i)' = Value(i) /\ (Offered(i)' <=> Offered(i)) BY SameWishes
<1>2. (i \in Present)' <=> Here(i)' BY DEF Present, Here
<1>3. CASE Kind(i) = "limits"
  <2>1. Here(i) /\ Here(i)' BY <1>3, SameHere DEF Right, Here
  <2> QED BY <1>1, <2>1, PresentIsHere DEF Right, Kind
<1>4. CASE Kind(i) # "limits"
  <2>1. Here(i)' <=> Here(i) BY <1>4, SameHere
  <2> QED BY <1>1, <1>2, <1>4, <2>1, PresentIsHere DEF Right, Kind
<1> QED BY <1>3, <1>4

LEMMA InTuneKept ==
    ASSUME StateInv, Running, NEW k \in Steps, InTune(k),
           k = "ring" => lowRings' = lowRings,
           \A i \in DOMAIN Files : Kind(i) = k => knob'[i] = knob[i] \/ Right(i)'
    PROVE  InTune(k)'
<1>1. CASE k = "ring" BY <1>1, SameHere DEF InTune
<1>2. CASE k # "ring"
  <2>1. k \in Kinds BY <1>2 DEF Steps
  <2>2. Listing(k)' = Listing(k) BY <2>1, SameListing
  <2>3. ASSUME NEW i \in Listing(k) PROVE Right(i)'
    <3>1. i \in DOMAIN Files /\ Kind(i) = k BY <2>1, ListingFacts
    <3>2. Right(i) BY <1>2 DEF InTune
    <3> QED BY <3>1, <3>2, RightKept
  <2> QED BY <1>2, <2>2, <2>3 DEF InTune
<1> QED BY <1>1, <1>2

-----------------------------------------------------------------------------
(* What a step puts behind the run.                                         *)

LEMMA ReportBehind ==
    ASSUME StateInv, pc \in {"check", "list", "write"}, NEW s, Report(s), NEW k,
           Behind(k)', ~Behind(k)
    PROVE  Owner(k) = Head(resources) /\ (pc = "check" \/ k \in Members(phases))
<1>1. resources \in Seq(TurnedOn) /\ resources # << >> BY DEF StateInv, RunInv
<1>2. Members(resources) = {Head(resources)} \cup Members(Tail(resources))
    BY <1>1, HeadMembers
<1>3. resources' = Tail(resources) /\ pc' \notin {"list", "write"} BY DEF Report
<1>4. Owner(k) \notin Members(Tail(resources)) BY <1>3 DEF Behind, Members, Owner
<1>5. Owner(k) \in Members(resources) BY DEF Behind
<1>6. Owner(k) = Head(resources) BY <1>2, <1>4, <1>5
<1> QED BY <1>6 DEF Behind

LEMMA NextPhaseBehind ==
    ASSUME StateInv, pc \in {"list", "write"}, NextPhase, NEW k, Behind(k)', ~Behind(k)
    PROVE  k = Head(phases)
<1>1. phases \in Seq(StepsOn) /\ phases # << >> BY DEF StateInv, RunInv
<1>2. /\ Members(phases) = {Head(phases)} \cup Members(Tail(phases))
      /\ Len(phases) = 1 => Tail(phases) = << >>
    BY <1>1, HeadMembers
<1>3. CASE Len(phases) = 1
  <2>1. Members(Tail(phases)) = {} BY <1>2, <1>3 DEF Members
  <2>2. Report(StatusChanged) BY <1>3 DEF NextPhase
  <2>3. k \in Members(phases) BY <2>2, ReportBehind
  <2> QED BY <1>2, <2>1, <2>3
<1>4. CASE Len(phases) # 1
  <2>1. phases' = Tail(phases) /\ resources' = resources BY <1>4 DEF NextPhase
  <2>2. k \notin Members(Tail(phases)) BY <2>1 DEF Behind, Members, Owner
  <2>3. k \in Members(phases) BY <2>1 DEF Behind, Members, Owner
  <2> QED BY <1>2, <2>2, <2>3
<1> QED BY <1>3, <1>4

LEMMA ActBehind ==
    ASSUME StateInv, pc = "check", phases' = Phases(Head(resources)),
           resources' = resources, NEW k \in Steps, On(k), Behind(k)'
    PROVE  Behind(k)
<1>1. resources \in Seq(TurnedOn) /\ resources # << >> BY DEF StateInv, RunInv
<1>2. Head(resources) \in Resources BY <1>1, TailOfList DEF TurnedOn
<1>3. Owner(k) = Head(resources) => k \in Members(phases') BY <1>2, StepsOfApply
<1> QED BY <1>3 DEF Behind, Members, Owner

-----------------------------------------------------------------------------
(* What a write leaves.                                                     *)

LEMMA WantIsValue ==
    ASSUME NEW i \in DOMAIN Files, Kind(i) \notin Steering, NEW files,
           Kind(i) = "irq" => files = EnaIRQs
    PROVE  Want(i, files) = Value(i)
<1>1. CASE Kind(i) = "irq" BY <1>1 DEF Value
<1>2. CASE Kind(i) # "irq"
  <2>1. Want(i, files) = Want(i, EnaIRQs)
      BY <1>2, KindOf DEF Want, Kinds, Steering
  <2> QED BY <2>1 DEF Value
<1> QED BY <1>1, <1>2

\* The file being written, in a run that nothing disturbs
LEMMA Writing ==
    ASSUME StateInv, SameInv, pc = "write", upset = {}
    PROVE  /\ First(rest) \in listed /\ First(rest) \in rest
           /\ First(rest) \in DOMAIN Files /\ Kind(First(rest)) = Head(phases)
           /\ Head(phases) \in Kinds /\ listed = Listing(Head(phases))
           /\ Kind(First(rest)) = "irq" => listed = EnaIRQs
<1>1. First(rest) \in listed /\ First(rest) \in rest /\ First(rest) \in DOMAIN Files
    BY WrittenIsListed DEF StateInv
<1>2. Kind(First(rest)) = Head(phases) BY <1>1 DEF StateInv, RunInv
<1>3. listed = Listing(Head(phases)) BY DEF SameInv, Calmly
<1>4. Kind(First(rest)) \in Kinds BY <1>1, KindOf
<1> QED BY <1>1, <1>2, <1>3, <1>4 DEF Listing, Steering

LEMMA PassedIsRight ==
    ASSUME StateInv, SameInv, pc = "write", upset = {}, On(Head(phases)),
           Passed(First(rest))
    PROVE  Right(First(rest))
<1> DEFINE i == First(rest)
<1>1. /\ i \in DOMAIN Files /\ Kind(i) = Head(phases)
      /\ Kind(i) = "irq" => listed = EnaIRQs
    BY Writing
<1>2. Kind(i) \in Steering => sizing.vcpus >= 1
  <2>1. Kind(i) \in Steering => Steers(Kind(i)) BY <1>1 DEF On, Steering
  <2> QED BY <2>1, CpuFacts DEF Steers
<1> HIDE DEF i
<1>3. Matches(i, listed) <=> knob[i] = Value(i) BY <1>1, <1>2, MatchesValue
<1>4. Kind(i) = "limits" => Here(i) /\ Matches(i, listed)
    BY DEF Passed, Steering, i
<1>5. ~Here(i) \/ Matches(i, listed) \/ ~Offered(i)
    BY DEF Passed, QueuePassed, SchedulerPassed, i
<1>6. Right(i) BY <1>3, <1>4, <1>5, PresentIsHere DEF Right
<1> QED BY <1>6 DEF i

LEMMA StoredIsValue ==
    ASSUME StateInv, SameInv, pc = "write", upset = {}, FactsFit, On(Head(phases)),
           ~Passed(First(rest)), NEW v \in Stored(First(rest))
    PROVE  v = Value(First(rest))
<1> DEFINE i == First(rest)
<1>1. /\ i \in DOMAIN Files /\ Kind(i) = Head(phases)
      /\ Kind(i) = "irq" => listed = EnaIRQs
    BY Writing
<1>2. CASE Kind(i) \in Steering
  <2>1. Steers(Kind(i)) BY <1>1, <1>2 DEF On, Steering
  <2>2. sizing.vcpus \in Nat /\ sizing.vcpus >= 1 /\ cpus \in Nat
      BY <2>1, CpuFacts DEF Steers
  <2>3. Here(i) BY <1>2 DEF Passed, QueuePassed
  <2>4. Want(i, listed) = CpumaskAll(sizing.vcpus) BY <1>2 DEF Want, Steering
  <2>5. KernelRead(Want(i, listed)) = CpuRange(sizing.vcpus) BY <2>2, <2>4, MaskRead
  <2>6. CpuRange(sizing.vcpus) \subseteq CpuRange(cpus)
      BY <2>2 DEF CpuRange, FactsFit
  <2>7. Stored(i) = {CpuRange(sizing.vcpus)}
      BY <1>2, <2>3, <2>5, <2>6 DEF Stored, Steering
  <2> QED BY <1>2, <2>7 DEF Value
<1>3. CASE Kind(i) \notin Steering
  <2>1. Stored(i) \subseteq {Want(i, listed)} BY <1>3 DEF Stored
  <2>2. Want(i, listed) = Value(i) BY <1>1, <1>3, WantIsValue
  <2> QED BY <2>1, <2>2
<1> QED BY <1>2, <1>3

LEMMA WrittenIsRight ==
    ASSUME StateInv, SameInv, Write, upset = {}, FactsFit, On(Head(phases)),
           ~Report(StatusFailed), upset' = {}, NEW i, i = First(rest)
    PROVE  Right(i)'
<1>0. pc = "write" /\ Running BY DEF Write, Running
<1>1. i \in DOMAIN Files /\ Kind(i) = Head(phases) BY <1>0, Writing
<1>3. ~Upset("failed") /\ ~Upset("tolerated") BY DEF Upset
<1>4. CASE Passed(i) /\ knob' = knob
  <2>1. Right(i) BY <1>0, <1>4, PassedIsRight
  <2> QED BY <1>0, <1>1, <1>4, <2>1, RightKept
<1>5. CASE /\ ~Passed(i) /\ there' = there \cup {i}
           /\ \E v \in Stored(i) : knob' = [knob EXCEPT ![i] = v]
  <2>1. PICK v \in Stored(i) : knob' = [knob EXCEPT ![i] = v] BY <1>5
  <2>2. v = Value(i) BY <1>0, <1>5, StoredIsValue
  <2>3. knob'[i] = Value(i) BY <1>1, <2>1, <2>2 DEF StateInv, HostInv
  <2>4. Value(i)' = Value(i) BY <1>0, <1>1, SameWishes
  <2>5. Kind(i) = "limits" => Files[i].dev = "host"
      BY <1>1, KindOf DEF OfDevice, Steering
  <2>6. Kind(i) = "limits" => Here(i)' BY <1>5, <2>5 DEF Here
  <2> QED BY <2>3, <2>4, <2>6 DEF Right, Kind
<1> QED BY <1>3, <1>4, <1>5 DEF Write

-----------------------------------------------------------------------------
(* How a step moves the run.                                                *)

LEMMA WriteShape ==
    ASSUME StateInv, Running, pc' = "write"
    PROVE  /\ phases' = phases /\ resources' = resources /\ results' = results
           /\ \/ Write /\ listed' = listed
              \/ /\ List /\ pc = "list" /\ Head(phases) \in Kinds
                 /\ listed' = Listing(Head(phases)) /\ rest' = listed'
<1>1. \A s : ~Report(s) BY DEF Report
<1>2. ~NextPhase BY <1>1 DEF NextPhase
<1>3. ~Check /\ ~Ring BY <1>1, <1>2 DEF Check, Act, Ring
<1>4. CASE Write BY <1>1, <1>2, <1>4 DEF Write, WriteDone
<1>5. CASE List
  <2>1. /\ listed' = Listing(Head(phases)) /\ rest' = listed' /\ pc = "list"
        /\ UNCHANGED << phases, resources, results >> /\ Head(phases) # "ring"
      BY <1>1, <1>2, <1>5 DEF List
  <2>2. phases \in Seq(StepsOn) /\ phases # << >> BY <2>1 DEF StateInv, RunInv
  <2>3. Head(phases) \in Kinds BY <2>1, <2>2, TailOfList DEF StepsOn
  <2> QED BY <1>5, <2>1, <2>3
<1> QED BY <1>3, <1>4, <1>5 DEF Running

LEMMA ReportIdle ==
    ASSUME StateInv, pc \in {"check", "list", "write"}, NEW s, Report(s)
    PROVE  IdleInv' /\ RingInv'
<1>1. resources \in Seq(TurnedOn) /\ resources # << >> BY DEF StateInv, RunInv
<1>2. Len(resources) = 1 => Tail(resources) = << >> BY <1>1, HeadMembers
<1>3. /\ phases' = << >> /\ pc' \in {"check", "report"}
      /\ pc' = "report" => resources' = << >>
    BY <1>2 DEF Report
<1>4. pc' # "idle" /\ pc' \notin {"list", "write"} BY <1>3
<1>5. IdleInv' BY <1>3, <1>4 DEF IdleInv
<1>6. RingInv' BY <1>4 DEF RingInv
<1> QED BY <1>5, <1>6

LEMMA NextPhaseIdle ==
    ASSUME StateInv, IdleInv, RingInv, pc \in {"list", "write"}, NextPhase
    PROVE  IdleInv' /\ RingInv'
<1>1. CASE Report(StatusChanged) BY <1>1, ReportIdle
<1>2. CASE ~Report(StatusChanged)
  <2>1. phases' = Tail(phases) /\ pc' = "list" /\ resources' = resources /\ Len(phases) # 1
      BY <1>2 DEF NextPhase
  <2>2. phases \in Seq(StepsOn) /\ phases # << >> BY DEF StateInv, RunInv
  <2>3. Tail(phases) \in Seq(StepsOn) /\ Tail(phases) # << >> BY <2>1, <2>2, TailOfList
  <2>4. Members(phases) = {Head(phases)} \cup Members(Tail(phases)) BY <2>2, HeadMembers
  <2>5. /\ Head(Tail(phases)) \in Members(Tail(phases))
        /\ Members(Tail(Tail(phases))) \subseteq Members(Tail(phases))
    <3>1. ASSUME NEW t \in Seq(StepsOn), t # << >>
          PROVE  Head(t) \in Members(t) /\ Members(Tail(t)) \subseteq Members(t)
        BY <3>1, HeadMembers
    <3> QED BY <2>3, <3>1, Zenon
  <2>6. /\ "ring" \notin Members(Tail(phases))
        /\ \A k \in Members(phases) : Owner(k) = Head(resources)
      BY DEF IdleInv, RingInv
  <2>7. IdleInv' BY <2>1, <2>4, <2>6 DEF IdleInv, Members, Owner
  <2>8. RingInv' BY <2>1, <2>5, <2>6 DEF RingInv, Members
  <2> QED BY <2>7, <2>8
<1> QED BY <1>1, <1>2

LEMMA SamePlaceIdle ==
    ASSUME StateInv, IdleInv, RingInv, UNCHANGED << phases, resources, results >>,
           pc \in {"list", "write"}, pc' \in {"list", "write"},
           sizing' = sizing, profile' = profile
    PROVE  IdleInv' /\ RingInv'
<1>1. IdleInv' BY DEF IdleInv, Owner, Members
<1>2. RingInv' BY DEF RingInv, Members, Steers
<1> QED BY <1>1, <1>2

LEMMA IdleStep ==
    ASSUME StateInv, IdleInv, RingInv, [Next]_vars
    PROVE  IdleInv' /\ RingInv'
<1>1. CASE Begin
  <2>1. /\ phases' = << >> /\ pc' \in {"check", "report"}
        /\ pc' = "report" => resources' = << >>
      BY <1>1 DEF Begin
  <2> QED BY <2>1 DEF IdleInv, RingInv
<1>2. CASE Running
  <2>0. pc \in {"check", "list", "write"}
      BY <1>2 DEF Running, Check, List, Ring, Write
  <2>1. CASE \E s : Report(s) BY <2>0, <2>1, ReportIdle
  <2>2. CASE NextPhase /\ pc \in {"list", "write"} BY <2>2, NextPhaseIdle
  <2>3. CASE pc' = "write"
    <3>1. UNCHANGED << phases, resources, results >> /\ pc \in {"list", "write"}
        BY <1>2, <2>3, WriteShape DEF Write
    <3> QED BY <1>2, <2>3, <3>1, SamePlaceIdle, SameHere
  <2>4. CASE Check /\ ~ \E s : Report(s)
    <3>1. phases' = Phases(Head(resources)) /\ pc' = "list" /\ resources' = resources
        BY <2>4 DEF Check, Act
    <3>2. resources \in Seq(TurnedOn) /\ resources # << >>
        BY <2>0 DEF StateInv, RunInv
    <3>3. Head(resources) \in Resources BY <3>2, TailOfList DEF TurnedOn
    <3>4. phases' # << >>
      <4>1. RunInv' BY <1>2, RunStep DEF Running, Next
      <4> QED BY <3>1, <4>1 DEF RunInv
    <3>5. /\ \A k \in Members(phases') : Owner(k) = Head(resources)
          /\ "ring" \notin Members(Tail(phases'))
          /\ Head(phases') = "ring" =>
                \A k \in Steering : Steers(k) => k \in Members(Tail(phases'))
        BY <3>1, <3>3, <3>4, StepsOfApply
    <3>6. IdleInv' BY <3>1, <3>5 DEF IdleInv, Owner, Members
    <3>7. RingInv' BY <1>2, <3>5, SameHere DEF RingInv, Members, Steers
    <3> QED BY <3>6, <3>7
  <2>5. CASE List /\ (~ \E s : Report(s)) /\ ~NextPhase BY <2>3, <2>5 DEF List
  <2>6. CASE Ring /\ (~ \E s : Report(s)) /\ ~NextPhase BY <2>6 DEF Ring
  <2>7. CASE Write /\ (~ \E s : Report(s)) /\ ~NextPhase
    <3>1. pc' = "write" BY <2>7 DEF Write, WriteDone
    <3> QED BY <2>3, <3>1
  <2>8. pc \in {"list", "write"} \/ Check BY <1>2 DEF Running, List, Ring, Write
  <2>9. CASE Check BY <2>1, <2>4, <2>9
  <2>10. CASE ~Check BY <1>2, <2>1, <2>2, <2>5, <2>6, <2>7, <2>8, <2>10 DEF Running
  <2> QED BY <2>9, <2>10
<1>3. CASE Exit BY <1>3 DEF Exit, IdleInv, RingInv
<1>4. CASE Disturb
  <2>1. UNCHANGED run /\ (pc = "idle" => upset' = {}) /\ UNCHANGED inputs
      BY <1>4 DEF Disturb
  <2>2. IdleInv' BY <2>1 DEF run, IdleInv, Owner, Members
  <2>3. RingInv' BY <2>1 DEF run, inputs, RingInv, Members, Steers
  <2> QED BY <2>2, <2>3
<1>5. CASE UNCHANGED vars
  <2>1. IdleInv' BY <1>5 DEF vars, run, IdleInv, Owner, Members
  <2>2. RingInv' BY <1>5 DEF vars, run, inputs, RingInv, Members, Steers
  <2> QED BY <2>1, <2>2
<1> QED BY <1>1, <1>2, <1>3, <1>4, <1>5 DEF Next, Running, Finish, Kill, Restart

LEMMA SameStep ==
    ASSUME StateInv, SameInv, [Next]_vars
    PROVE  SameInv'
<1>1. CASE Begin
  <2>1. pc' # "write" /\ links' = links /\ (upset' = {} => iface' = PrimaryInterface(links))
      BY <1>1 DEF Begin, host, Upset
  <2> QED BY <2>1 DEF SameInv, Calmly, PrimaryInterface
<1>2. CASE Running
  <2> SUFFICES ASSUME Calmly'
               PROVE  /\ iface' = PrimaryInterface(links')
                      /\ pc' = "write" => listed' = Listing(Head(phases))'
      BY DEF SameInv, PrimaryInterface
  <2>1. /\ links' = links /\ iface' = iface /\ upset = {} /\ pc # "idle"
      BY <1>2, SameHere DEF Calmly, Running, Check, List, Ring, Write
  <2>2. /\ iface = PrimaryInterface(links)
        /\ pc = "write" => listed = Listing(Head(phases))
      BY <2>1 DEF SameInv, Calmly
  <2>3. ASSUME pc' = "write" PROVE listed' = Listing(Head(phases))'
    <3>1. phases' = phases /\ Head(phases) \in Kinds /\ listed' = Listing(Head(phases))
      <4>1. CASE List /\ phases' = phases /\ Head(phases) \in Kinds
                 /\ listed' = Listing(Head(phases))
          BY <4>1
      <4>2. CASE Write /\ phases' = phases /\ listed' = listed
        <5>1. pc = "write" BY <4>2 DEF Write
        <5> QED BY <2>1, <2>2, <4>2, <5>1, Writing
      <4> QED BY <1>2, <2>3, <4>1, <4>2, WriteShape
    <3>2. \A k \in Kinds : Listing(k)' = Listing(k) BY <1>2, SameListing
    <3>3. Listing(Head(phases))' = Listing(Head(phases))
        BY <3>1, <3>2
    <3> QED BY <3>1, <3>3
  <2> QED BY <2>1, <2>2, <2>3
<1>3. CASE Finish
  <2>1. /\ pc' = "idle" /\ links' = links /\ iface' = iface
        /\ pc = "report" /\ (clean' >= 1 => upset = {})
      BY <1>3 DEF Finish, Exit, host, inputs
  <2> QED BY <2>1 DEF SameInv, Calmly, PrimaryInterface
<1>4. CASE Exit /\ clean' = 0
  <2>1. pc' = "idle" /\ ~(clean' >= 1) BY <1>4 DEF Exit
  <2> QED BY <2>1 DEF SameInv, Calmly
<1>5. CASE Disturb
  <2>1. clean' = 0 /\ pc' = pc /\ (pc # "idle" => upset' # {})
      BY <1>5 DEF Disturb, Disturbed, run
  <2>2. ~(clean' >= 1) BY <2>1
  <2> QED BY <2>1, <2>2 DEF SameInv, Calmly
<1>6. CASE UNCHANGED vars
    BY <1>6 DEF vars, host, inputs, run, SameInv, Calmly, PrimaryInterface, Listing,
                EnaIRQs, QueueDirs, GovernorPaths, NvmeDevices, OfKind, OfInterface, Here, Kind
<1> QED BY <1>1, <1>2, <1>3, <1>4, <1>5, <1>6
        DEF Next, Running, Finish, Kill, Restart, Disturbed

-----------------------------------------------------------------------------
(* Each step of a calm run tunes what it puts behind.                       *)

LEMMA SameRight ==
    ASSUME UNCHANGED << host, inputs >>, NEW i
    PROVE  Right(i)' <=> Right(i)
<1>1. /\ links' = links /\ cpus' = cpus /\ there' = there /\ knob' = knob
      /\ sizing' = sizing /\ profile' = profile /\ iface' = iface
    BY DEF host, inputs
<1>2. EnaIRQs' = EnaIRQs BY <1>1 DEF EnaIRQs, OfKind, OfInterface, Here, Kind
<1>3. Want(i, EnaIRQs)' = Want(i, EnaIRQs)
    BY <1>1, <1>2 DEF Want, Kind, RenderLimits, DesiredAffinity
<1>4. (Here(i)' <=> Here(i)) /\ (Offered(i)' <=> Offered(i))
      /\ (i \in Present' <=> i \in Present)
    BY <1>1 DEF Here, Offered, Present, Kind
<1>5. Value(i)' = Value(i) BY <1>1, <1>3 DEF Value, Kind
<1> QED BY <1>1, <1>4, <1>5 DEF Right, Kind

LEMMA SameTune ==
    ASSUME UNCHANGED << host, inputs >>
    PROVE  /\ FactsFit' <=> FactsFit
           /\ \A k \in Steps : (On(k)' <=> On(k)) /\ (InTune(k)' <=> InTune(k))
<1>1. /\ links' = links /\ cpus' = cpus /\ there' = there /\ knob' = knob
      /\ lowRings' = lowRings /\ sizing' = sizing /\ profile' = profile /\ iface' = iface
    BY DEF host, inputs
<1>2. FactsFit' <=> FactsFit BY <1>1 DEF FactsFit
<1>3. \A k \in Steps : On(k)' <=> On(k) BY <1>1 DEF On, Steers
<1>4. ASSUME NEW k \in Steps PROVE InTune(k)' <=> InTune(k)
  <2>1. \A c : Listing(c)' = Listing(c)
      BY <1>1 DEF Listing, EnaIRQs, QueueDirs, GovernorPaths, NvmeDevices, OfKind,
                  OfInterface, Here, Kind
  <2>2. \A i : Right(i)' <=> Right(i) BY SameRight
  <2> QED BY <1>1, <2>1, <2>2 DEF InTune
<1> QED BY <1>2, <1>3, <1>4

\* What a step of a run that stays calm may count on
LEMMA CalmStep ==
    ASSUME StateInv, Running, upset' = {}
    PROVE  /\ upset = {} /\ pc \in {"check", "list", "write"} /\ clean' = clean
           /\ clean \in 0 .. 2 /\ Members(results) \subseteq Members(results')
           /\ \A c : ~Upset(c)
<1>1. upset = {} BY SameHere
<1>2. pc \in {"check", "list", "write"} /\ clean' = clean
    BY DEF Running, Check, List, Ring, Write
<1>3. \A c : ~Upset(c) BY DEF Upset
<1>4. Members(results) \subseteq Members(results')
  <2>1. CASE \E s : Report(s) BY <2>1, ReportMembers DEF StateInv
  <2>2. CASE results' = results BY <2>2 DEF Members
  <2> QED BY <2>1, <2>2
          DEF Running, Check, Act, List, Ring, Write, WriteDone, NextPhase
<1> QED BY <1>1, <1>2, <1>3, <1>4 DEF StateInv, HistInv

LEMMA CheckTunes ==
    ASSUME StateInv, TunedInv, Check, upset' = {}, FactsFit
    PROVE  /\ StatusFailed \notin Members(results') => Done'
           /\ clean >= 1 => Steady'
<1> DEFINE r == Head(resources)
           s == CheckStatus(r, {}, TRUE)
<1>0. Running BY DEF Running
<1>1. /\ upset = {} /\ pc = "check" /\ clean' = clean /\ clean \in 0 .. 2
      /\ Members(results) \subseteq Members(results')
    BY <1>0, CalmStep DEF Check
<1>2. Act(s) /\ UNCHANGED << host, inputs >>
  <2>1. \A c : ~Upset(c) BY <1>0, CalmStep
  <2> QED BY <2>1 DEF Check
<1>3. iface = PrimaryInterface(links) BY <1>1 DEF TunedInv, SameInv, Calmly
<1>4. resources \in Seq(TurnedOn) /\ resources # << >> BY <1>1 DEF StateInv, RunInv
<1>5. r \in TurnedOn BY <1>4, TailOfList
<1>6. r \in Resources BY <1>5 DEF TurnedOn
<1>7. \A k \in Steps : (On(k)' <=> On(k)) /\ (InTune(k)' <=> InTune(k)) BY <1>2, SameTune
<1>8. StatusFailed \notin Members(results') => Done BY <1>1 DEF TunedInv, ProgressInv
<1>9. clean >= 1 => Steady BY <1>1 DEF TunedInv, SteadyInv
<1>10. s # StatusWouldChange <=> \A k \in Steps : On(k) /\ Owner(k) = r => InTune(k)
    BY <1>3, <1>5, CheckFinds
<1>11. CASE s = StatusWouldChange
  <2>1. /\ phases' = Phases(r) /\ pc' = "list" /\ resources' = resources
        /\ results' = results
      BY <1>2, <1>11 DEF Act
  <2>2. ASSUME Done PROVE Done'
    <3>1. ASSUME NEW k \in Steps, On(k)', k = "irq" => clean' >= 1, Behind(k)'
          PROVE  InTune(k)'
      <4>1. On(k) BY <1>7, <3>1
      <4>2. Behind(k) BY <1>1, <2>1, <3>1, <4>1, ActBehind
      <4>3. InTune(k) BY <1>1, <2>2, <3>1, <4>1, <4>2 DEF Done
      <4> QED BY <1>7, <4>3
    <3> QED BY <2>1, <3>1 DEF Done
  <2>3. ASSUME clean >= 1 PROVE Steady'
    <3>1. PICK k \in Steps : On(k) /\ Owner(k) = r /\ ~InTune(k) BY <1>10, <1>11
    <3>2. k = "irq" BY <1>9, <2>3, <3>1 DEF Steady
    <3>3. clean # 2 BY <1>9, <2>3, <3>1, <3>2 DEF Steady
    <3>4. r = "irq" BY <3>1, <3>2 DEF Owner, Steering
    <3>5. phases' = << "irq" >> BY <2>1, <3>4 DEF Phases
    <3>6. \A c \in Steps \ {"irq"} : On(c) => InTune(c) BY <1>9, <2>3 DEF Steady
    <3> QED BY <1>1, <1>7, <3>3, <3>5, <3>6 DEF Steady
  <2> QED BY <1>8, <1>9, <2>2, <2>3
<1>12. CASE s # StatusWouldChange
  <2>1. Report(s) BY <1>2, <1>12 DEF Act
  <2>2. ASSUME Done PROVE Done'
    <3>1. ASSUME NEW k \in Steps, On(k)', k = "irq" => clean' >= 1, Behind(k)'
          PROVE  InTune(k)'
      <4>1. On(k) BY <1>7, <3>1
      <4>2. CASE Behind(k)
        <5>1. InTune(k) BY <1>1, <2>2, <3>1, <4>1, <4>2 DEF Done
        <5> QED BY <1>7, <5>1
      <4>3. CASE ~Behind(k)
        <5>1. Owner(k) = r BY <1>1, <2>1, <3>1, <4>3, ReportBehind
        <5>2. InTune(k) BY <1>10, <1>12, <4>1, <5>1
        <5> QED BY <1>7, <5>2
      <4> QED BY <4>2, <4>3
    <3>2. pc' # "write" BY <2>1 DEF Report
    <3> QED BY <3>1, <3>2 DEF Done
  <2>3. ASSUME clean >= 1 PROVE Steady'
    <3>1. phases' = << >> BY <2>1 DEF Report
    <3>2. s # StatusChanged BY <1>6, CheckNeverFails
    <3>3. Members(results') = Members(results) \cup {s}
        BY <2>1, ReportMembers DEF StateInv
    <3>4. \A c \in Steps \ {"irq"} : On(c)' => InTune(c)' BY <1>7, <1>9, <2>3 DEF Steady
    <3>5. clean' = 2 => (On("irq")' => InTune("irq")')
        BY <1>1, <1>7, <1>9, <2>3 DEF Steady, Steps, Kinds
    <3>6. clean' = 2 => StatusChanged \notin Members(results')
        BY <1>1, <1>9, <2>3, <3>2, <3>3 DEF Steady
    <3> QED BY <3>1, <3>4, <3>5, <3>6 DEF Steady, Members
  <2> QED BY <1>8, <1>9, <2>2, <2>3
<1> QED BY <1>11, <1>12

\* After a clean run the only step an Apply has is the interrupts', and it leaves
\* the rest as it is
LEMMA SteadyKept ==
    ASSUME StateInv, Steady, pc \in {"list", "write"}, Running, upset' = {},
           phases' = phases \/ NextPhase \/ \E s : Report(s),
           \A k \in Steps \ {"irq"} : InTune(k) => InTune(k)'
    PROVE  Steady'
<1>1. phases \in Seq(StepsOn) /\ phases # << >> BY DEF StateInv, RunInv
<1>2. phases = << "irq" >> /\ clean # 2 BY <1>1 DEF Steady
<1>3. phases' \in {<< >>, << "irq" >>}
  <2>1. Len(phases) = 1 BY <1>2
  <2> QED BY <1>2, <2>1 DEF NextPhase, Report
<1>4. clean' # 2 BY <1>2, CalmStep
<1>5. ASSUME NEW k \in Steps \ {"irq"}, On(k)' PROVE InTune(k)'
  <2>1. On(k) BY <1>5, SameWishes
  <2> QED BY <2>1 DEF Steady
<1> QED BY <1>3, <1>4, <1>5 DEF Steady

LEMMA ListTunes ==
    ASSUME StateInv, TunedInv, List, upset' = {}, FactsFit
    PROVE  /\ StatusFailed \notin Members(results') => Done'
           /\ clean >= 1 => Steady'
<1> DEFINE k0 == Head(phases)
<1>0. Running BY DEF Running
<1>1. /\ upset = {} /\ pc = "list" /\ clean' = clean /\ clean \in 0 .. 2
      /\ Members(results) \subseteq Members(results')
    BY <1>0, CalmStep DEF List
<1>2. \/ /\ listed' = Listing(k0) /\ rest' = listed' /\ pc' = "write"
         /\ UNCHANGED << resources, phases, results >>
      \/ Listing(k0) = {} /\ NextPhase
  <2>1. \A c : ~Upset(c) BY <1>0, CalmStep
  <2> QED BY <2>1 DEF List
<1>3. UNCHANGED << host, inputs >> /\ k0 # "ring" BY DEF List
<1>4. \A k \in Steps : (On(k)' <=> On(k)) /\ (InTune(k)' <=> InTune(k)) BY <1>3, SameTune
<1>5. StatusFailed \notin Members(results') => Done BY <1>1 DEF TunedInv, ProgressInv
<1>6. clean >= 1 => Steady BY <1>1 DEF TunedInv, SteadyInv
<1>7. ASSUME clean >= 1 PROVE Steady'
    BY <1>0, <1>1, <1>2, <1>4, <1>6, <1>7, SteadyKept
<1>8. ASSUME Done PROVE Done'
  <2>1. ASSUME NEW k \in Steps, On(k)', k = "irq" => clean' >= 1, Behind(k)'
        PROVE  InTune(k)'
    <3>1. On(k) BY <1>4, <2>1
    <3>2. CASE Behind(k)
      <4>1. InTune(k) BY <1>1, <1>8, <2>1, <3>1, <3>2 DEF Done
      <4> QED BY <1>4, <4>1
    <3>3. CASE ~Behind(k)
      <4>1. CASE resources' = resources /\ phases' = phases /\ pc' = "write"
        <5>1. Behind(k) BY <1>1, <2>1, <4>1 DEF Behind, Members, Owner
        <5> QED BY <3>3, <5>1
      <4>2. CASE Listing(k0) = {} /\ NextPhase
        <5>1. k = k0 BY <1>1, <2>1, <3>3, <4>2, NextPhaseBehind
        <5>2. InTune(k) BY <1>3, <4>2, <5>1 DEF InTune
        <5> QED BY <1>4, <5>2
      <4> QED BY <1>2, <4>1, <4>2
    <3> QED BY <3>2, <3>3
  <2>2. pc' = "write" => listed' \ rest' = {}
    <3>1. CASE NextPhase BY <3>1, NextPhaseMembers DEF StateInv
    <3> QED BY <1>2, <3>1
  <2> QED BY <2>1, <2>2 DEF Done
<1> QED BY <1>5, <1>7, <1>8

LEMMA RingTunes ==
    ASSUME StateInv, TunedInv, Ring, upset' = {}, FactsFit
    PROVE  /\ StatusFailed \notin Members(results') => Done'
           /\ clean >= 1 => Steady'
<1>0. Running BY DEF Running
<1>1. /\ upset = {} /\ pc = "list" /\ clean' = clean /\ clean \in 0 .. 2
      /\ Members(results) \subseteq Members(results') /\ Head(phases) = "ring"
    BY <1>0, CalmStep DEF Ring
<1>2. /\ NextPhase
      /\ \/ ~RingDrift /\ UNCHANGED << knob, lowRings >>
         \/ RaiseRings
  <2>1. \A c : ~Upset(c) BY <1>0, CalmStep
  <2> QED BY <2>1 DEF Ring
<1>3. iface = PrimaryInterface(links) BY <1>1 DEF TunedInv, SameInv, Calmly
<1>4. phases \in Seq(StepsOn) /\ phases # << >> /\ resources \in Seq(TurnedOn)
      /\ resources # << >>
    BY <1>1 DEF StateInv, RunInv
<1>5. ~(clean >= 1)
  <2>1. SUFFICES ASSUME clean >= 1 PROVE FALSE OBVIOUS
  <2>2. Steady BY <1>1, <2>1 DEF TunedInv, SteadyInv
  <2>3. phases = << "irq" >> BY <1>4, <2>2 DEF Steady
  <2>4. Head(<< "irq" >>) = "irq" OBVIOUS
  <2> QED BY <1>1, <2>3, <2>4
<1>6. \A k \in Steps : On(k)' <=> On(k) BY <1>0, SameWishes
<1>7. StatusFailed \notin Members(results') => Done BY <1>1 DEF TunedInv, ProgressInv
<1>8. ASSUME Done PROVE Done'
  <2>1. ASSUME NEW k \in Steps, On(k)', k = "irq" => clean' >= 1, Behind(k)'
        PROVE  InTune(k)'
    <3>1. On(k) /\ k # "irq" BY <1>1, <1>5, <1>6, <2>1
    <3>2. Behind(k) \/ k = "ring" BY <1>1, <1>2, <2>1, NextPhaseBehind
    <3>3. Behind(k) => InTune(k) BY <1>8, <3>1 DEF Done
    <3>4. CASE ~RingDrift /\ UNCHANGED << knob, lowRings >>
      <4>1. InTune(k) BY <1>3, <3>2, <3>3, <3>4, RingInTune
      <4> QED BY <1>0, <3>4, <4>1, InTuneKept
    <3>5. CASE RaiseRings /\ k = "ring" BY <3>5 DEF RaiseRings, InTune
    <3>6. CASE RaiseRings /\ k # "ring"
      <4>1. k \notin Steering
        <5>1. SUFFICES ASSUME k \in Steering PROVE FALSE OBVIOUS
        <5>2. Steers(k) BY <3>1, <5>1 DEF On, Steering
        <5>3. k \in Members(Tail(phases))
            BY <1>1, <5>1, <5>2 DEF TunedInv, RingInv
        <5>4. k \in Members(phases) BY <1>4, <5>3, HeadMembers
        <5>5. Owner(k) = Head(resources) BY <1>1, <5>4 DEF TunedInv, IdleInv
        <5>6. Head(resources) \in Members(resources) BY <1>4, HeadMembers
        <5> QED BY <3>2, <3>6, <5>4, <5>5, <5>6 DEF Behind
      <4>2. ASSUME NEW i \in DOMAIN Files, Kind(i) = k PROVE knob'[i] = knob[i]
          BY <3>1, <3>6, <4>1, <4>2 DEF RaiseRings, OfDevice
      <4> QED BY <1>0, <3>2, <3>3, <3>6, <4>2, InTuneKept
    <3> QED BY <1>2, <3>4, <3>5, <3>6
  <2>2. pc' # "write" BY <1>2, NextPhaseMembers DEF StateInv
  <2> QED BY <2>1, <2>2 DEF Done
<1> QED BY <1>5, <1>7, <1>8

\* A write changes the knob it is about and no other
LEMMA WriteChanges ==
    ASSUME StateInv, Write, NEW i, i = First(rest)
    PROVE  /\ lowRings' = lowRings
           /\ \A j \in DOMAIN Files : j # i => knob'[j] = knob[j]
<1>1. knob = [j \in DOMAIN Files |-> knob[j]] BY DEF StateInv, HostInv
<1>2. knob' = knob \/ \E v : knob' = [knob EXCEPT ![i] = v] BY DEF Write
<1> QED BY <1>1, <1>2 DEF Write

LEMMA WriteTunes ==
    ASSUME StateInv, TunedInv, Write, upset' = {}, FactsFit
    PROVE  /\ StatusFailed \notin Members(results') => Done'
           /\ clean >= 1 => Steady'
<1> DEFINE k0 == Head(phases)
<1>p. PICK i : i = First(rest) OBVIOUS
<1>0. Running BY DEF Running
<1>1. /\ upset = {} /\ pc = "write" /\ clean' = clean /\ clean \in 0 .. 2
      /\ Members(results) \subseteq Members(results')
    BY <1>0, CalmStep DEF Write
<1>2. WriteDone(i) \/ Report(StatusFailed)
  <2>1. \A c : ~Upset(c) BY <1>0, CalmStep
  <2> QED BY <1>p, <2>1 DEF Write
<1>3. /\ i \in listed /\ i \in rest /\ i \in DOMAIN Files /\ Kind(i) = k0
      /\ k0 \in Kinds /\ listed = Listing(k0)
    BY <1>p, <1>1, Writing DEF TunedInv
<1>4. lowRings' = lowRings /\ \A j \in DOMAIN Files : j # i => knob'[j] = knob[j]
    BY <1>p, WriteChanges
<1>5. \A k \in Steps : On(k)' <=> On(k) BY <1>0, SameWishes
<1>6. ASSUME NEW k \in Steps, k # k0, InTune(k) PROVE InTune(k)'
    BY <1>0, <1>3, <1>4, <1>6, InTuneKept
<1>7. phases' = phases \/ NextPhase \/ Report(StatusFailed)
    BY <1>2 DEF WriteDone
<1>8. ASSUME clean >= 1 PROVE Steady'
  <2>1. Steady BY <1>1, <1>8 DEF TunedInv, SteadyInv
  <2>2. phases # << >> BY <1>1 DEF StateInv, RunInv
  <2>3. phases = << "irq" >> BY <2>1, <2>2 DEF Steady
  <2>4. k0 = "irq" BY <2>3
  <2> QED BY <1>0, <1>1, <1>6, <1>7, <2>1, <2>4, SteadyKept
<1>9. ASSUME StatusFailed \notin Members(results') PROVE Done'
  <2>1. ~Report(StatusFailed) BY <1>9, ReportMembers DEF StateInv
  <2>2. Done BY <1>1, <1>9 DEF TunedInv, ProgressInv
  <2>3. On(k0) => Right(i)'
      BY <1>p, <1>1, <2>1, WrittenIsRight DEF TunedInv
  <2>4. ASSUME On(k0), NEW j \in listed \ rest PROVE Right(j)'
    <3>1. Right(j) BY <1>1, <2>2, <2>4 DEF Done
    <3>2. j \in DOMAIN Files /\ j # i BY <1>1, <1>3, <2>4 DEF StateInv, RunInv
    <3> QED BY <1>0, <1>4, <3>1, <3>2, RightKept
  <2>5. ASSUME NEW k \in Steps, On(k)', k = "irq" => clean' >= 1, Behind(k)'
        PROVE  InTune(k)'
    <3>1. On(k) BY <1>5, <2>5
    <3>2. CASE Behind(k)
      <4>1. InTune(k) BY <1>1, <2>2, <2>5, <3>1, <3>2 DEF Done
      <4>2. \A j \in DOMAIN Files : Kind(j) = k => knob'[j] = knob[j] \/ Right(j)'
          BY <1>3, <1>4, <2>3, <3>1
      <4> QED BY <1>0, <1>4, <4>1, <4>2, InTuneKept
    <3>3. CASE ~Behind(k)
      <4>1. CASE rest = {i}
        <5>1. NextPhase BY <1>2, <2>1, <4>1 DEF WriteDone
        <5>2. k = k0 BY <1>1, <2>5, <3>3, <5>1, NextPhaseBehind
        <5>3. \A j \in Listing(k0) : Right(j)' BY <1>3, <2>3, <2>4, <3>1, <4>1, <5>2
        <5>4. k # "ring" BY <1>3, <5>2 DEF Kinds
        <5>5. Listing(k)' = Listing(k)
            BY <1>0, <1>3, <5>2, SameListing
        <5> QED BY <5>2, <5>3, <5>4, <5>5 DEF InTune
      <4>2. CASE rest # {i}
        <5>1. UNCHANGED << pc, resources, phases >> BY <1>2, <2>1, <4>2 DEF WriteDone
        <5>2. Behind(k) BY <2>5, <5>1 DEF Behind, Members, Owner
        <5> QED BY <3>3, <5>2
      <4> QED BY <4>1, <4>2
    <3> QED BY <3>2, <3>3
  <2>6. ASSUME pc' = "write", On(Head(phases))', NEW j \in listed' \ rest'
        PROVE  Right(j)'
    <3>1. rest # {i} /\ ~NextPhase
        BY <1>2, <2>1, <2>6, NextPhaseMembers DEF StateInv, WriteDone
    <3>2. rest' = rest \ {i} /\ listed' = listed /\ phases' = phases
        BY <1>2, <2>1, <3>1 DEF WriteDone
    <3>3. On(k0)
      <4>1. PICK k \in Steps : k = k0 BY <1>3 DEF Steps
      <4>2. On(k)' BY <2>6, <3>2, <4>1 DEF On, Steers
      <4> QED BY <1>5, <4>1, <4>2
    <3> QED BY <2>3, <2>4, <2>6, <3>2, <3>3
  <2> QED BY <2>5, <2>6 DEF Done
<1> QED BY <1>8, <1>9

-----------------------------------------------------------------------------
(* From run to run.                                                         *)

\* engine.Build leaves out nothing that is asked for
LEMMA BeginTunes ==
    ASSUME StateInv, TunedInv, Begin
    PROVE  ProgressInv' /\ SteadyInv'
<1>1. /\ phases' = << >> /\ results' = << >> /\ pc' \in {"check", "report"}
      /\ resources' = ResourceList(profile') /\ UNCHANGED host
    BY DEF Begin
<1>2. InputInv' BY InterfaceStep, StateStep DEF StateInv, Next
<1>3. /\ profile' = Build(sizing', ToProfileOverrides(config')) /\ IsConfig(config')
    BY <1>2, TuningAssumption DEF InputInv, ProfileInv
<1>4. profile'.noFile > 0 BY <1>3, BuildNoFile
<1>5. ASSUME NEW k \in Steps, On(k)' PROVE ~Behind(k)'
  <2>1. Owner(k) \in Members(ResourceList(profile'))
      BY <1>4, <1>5, OwnerListed DEF On, Steers, Steps, Kinds, Steering
  <2> QED BY <1>1, <2>1 DEF Behind, Members, Owner
<1>6. ProgressInv' BY <1>1, <1>5 DEF ProgressInv, Done
<1>7. ASSUME clean' >= 1, upset' = {}, FactsFit' PROVE Steady'
  <2>1. UNCHANGED << sizing, config, clean, upset >> /\ iface' = PrimaryInterface(links)
        /\ pc = "idle"
    <3>1. ~(clean' = 0) BY <1>7
    <3>2. \A c : ~Upset(c) BY <1>7 DEF Upset
    <3> QED BY <3>1, <3>2 DEF Begin, Calm
  <2>2. iface = PrimaryInterface(links) BY <1>7, <2>1 DEF TunedInv, SameInv, Calmly
  <2>3. profile' = profile BY <1>3, <2>1 DEF StateInv, InputInv, ProfileInv
  <2>4. UNCHANGED << host, inputs >> BY <1>1, <2>1, <2>2, <2>3 DEF inputs
  <2>5. /\ FactsFit /\ \A k \in Steps : (On(k)' <=> On(k)) /\ (InTune(k)' <=> InTune(k))
      BY <1>7, <2>4, SameTune
  <2>6. Steady BY <1>7, <2>1, <2>5 DEF TunedInv, SteadyInv
  <2>7. "irq" \in Steps BY DEF Steps, Kinds
  <2> QED BY <1>1, <2>1, <2>5, <2>6, <2>7 DEF Steady, Members
<1> QED BY <1>6, <1>7 DEF SteadyInv

\* A run that ends with exit code 0 is past every step
LEMMA FinishTunes ==
    ASSUME StateInv, TunedInv, Finish
    PROVE  ProgressInv' /\ SteadyInv'
<1>1. pc = "report" /\ pc' = "idle" /\ phases' = << >> /\ results' = << >>
    BY DEF Finish, Exit
<1>2. UNCHANGED << host, inputs >> BY DEF Finish
<1>3. ASSUME clean' >= 1, FactsFit' PROVE Steady'
  <2>1. upset = {} /\ ExitCode(results, ModeApply) = 0
        /\ clean' = IF clean = 2 THEN 2 ELSE clean + 1
      BY <1>3 DEF Finish
  <2>2. StatusFailed \notin Members(results) BY <2>1 DEF ExitCode, Members
  <2>3. /\ FactsFit /\ \A k \in Steps : (On(k)' <=> On(k)) /\ (InTune(k)' <=> InTune(k))
      BY <1>2, <1>3, SameTune
  <2>4. Done BY <1>1, <2>1, <2>2, <2>3 DEF TunedInv, ProgressInv
  <2>5. ASSUME NEW k PROVE Behind(k)
    <3>1. resources = << >> BY <1>1 DEF TunedInv, IdleInv
    <3>2. Members(resources) = {} BY <3>1 DEF Members
    <3> QED BY <3>2 DEF Behind
  <2>6. \A k \in Steps : On(k) /\ (k = "irq" => clean >= 1) => InTune(k)
      BY <2>4, <2>5 DEF Done
  <2>7. clean' = 2 => clean >= 1
    <3>1. clean \in 0 .. 2 BY DEF StateInv, HistInv
    <3> QED BY <2>1, <3>1
  <2>8. "irq" \in Steps BY DEF Steps, Kinds
  <2>9. clean' = 2 => (On("irq")' => InTune("irq")') BY <2>3, <2>6, <2>7, <2>8
  <2>10. \A k \in Steps \ {"irq"} : On(k)' => InTune(k)' BY <2>3, <2>6
  <2> QED BY <1>1, <2>9, <2>10 DEF Steady, Members
<1> QED BY <1>1, <1>3 DEF ProgressInv, SteadyInv

LEMMA TunedStep ==
    ASSUME StateInv, TunedInv, [Next]_vars
    PROVE  TunedInv'
<1>1. IdleInv' /\ RingInv' /\ SameInv' BY IdleStep, SameStep DEF TunedInv
<1>2. ProgressInv' /\ SteadyInv'
  <2>1. CASE Begin BY <2>1, BeginTunes
  <2>2. CASE Running
    <3>1. FactsFit' => FactsFit BY <2>2, SameWishes
    <3>2. ASSUME upset' = {}, FactsFit
          PROVE  /\ StatusFailed \notin Members(results') => Done'
                 /\ clean' >= 1 => Steady'
      <4>1. clean' = clean BY <2>2, <3>2, CalmStep
      <4> QED BY <2>2, <3>2, <4>1, CheckTunes, ListTunes, RingTunes, WriteTunes DEF Running
    <3> QED BY <3>1, <3>2 DEF ProgressInv, SteadyInv, Members
  <2>3. CASE Finish BY <2>3, FinishTunes
  <2>4. CASE Exit /\ clean' = 0
    <3>1. pc' = "idle" /\ ~(clean' >= 1) BY <2>4 DEF Exit
    <3> QED BY <3>1 DEF ProgressInv, SteadyInv
  <2>5. CASE Disturb
    <3>1. clean' = 0 /\ pc' = pc /\ (pc # "idle" => upset' # {})
        BY <2>5 DEF Disturb, Disturbed, run
    <3>2. ~(clean' >= 1) BY <3>1
    <3> QED BY <3>1, <3>2 DEF ProgressInv, SteadyInv
  <2>6. CASE UNCHANGED vars
    <3>1. UNCHANGED << host, inputs >> /\ UNCHANGED run /\ UNCHANGED << clean, upset >>
        BY <2>6 DEF vars
    <3>2. /\ FactsFit' <=> FactsFit
          /\ \A k \in Steps : (On(k)' <=> On(k)) /\ (InTune(k)' <=> InTune(k))
        BY <3>1, SameTune
    <3>3. Steady => Steady'
        BY <3>1, <3>2 DEF Steady, Members, run, Steps, Kinds
    <3>4. Done => Done' 
      <4>1. \A k \in Steps : Behind(k)' <=> Behind(k)
          BY <3>1 DEF run, Behind, Members, Owner
      <4>2. On(Head(phases))' <=> On(Head(phases))
          BY <3>1 DEF run, inputs, On, Steers
      <4>3. \A i : Right(i)' <=> Right(i)
          BY <3>1, SameRight
      <4> QED BY <3>1, <3>2, <4>1, <4>2, <4>3 DEF Done, run
    <3>5. pc' = pc /\ upset' = upset /\ clean' = clean /\ results' = results
        BY <3>1 DEF run
    <3>6. ProgressInv' BY <3>2, <3>4, <3>5 DEF TunedInv, ProgressInv, Members
    <3>7. SteadyInv' BY <3>2, <3>3, <3>5 DEF TunedInv, SteadyInv
    <3> QED BY <3>6, <3>7
  <2> QED BY <2>1, <2>2, <2>3, <2>4, <2>5, <2>6
          DEF Next, Running, Kill, Restart, Disturbed
<1> QED BY <1>1, <1>2 DEF TunedInv

LEMMA TunedInvariant == Spec => [](StateInv /\ TunedInv)
<1>1. Init => TunedInv
  <2>1. ASSUME Init PROVE TunedInv
    <3>1. /\ pc = "idle" /\ upset = {} /\ phases = << >> /\ results = << >>
          /\ clean = 0
        BY <2>1 DEF Init
    <3>2. ~(clean >= 1) BY <3>1
    <3> QED BY <3>1, <3>2
            DEF TunedInv, IdleInv, RingInv, SameInv, Calmly, ProgressInv, SteadyInv
  <2> QED BY <2>1
<1> QED BY <1>1, TunedStep, StateInvariant, PTL DEF Spec

\* For any files, interfaces, facts and config: one undisturbed apply that exits
\* 0 leaves every knob but the interrupts' affinities as asked for, although the
\* ring change resets the masks on its way.
THEOREM TunesTheorem == Spec => []ApplyTunes
<1>1. ASSUME StateInv, TunedInv PROVE ApplyTunes
  <2> SUFFICES ASSUME pc = "idle", clean >= 1, FactsFit
               PROVE  ApplyTunes
      BY DEF ApplyTunes
  <2>1. Steady BY <1>1 DEF TunedInv, IdleInv, SteadyInv
  <2>2. ASSUME NEW k \in Kinds \ {"irq"}, On(k), NEW i \in Mine(k), Offered(i)
        PROVE  knob[i] = Value(i) /\ Kind(i) = k
    <3>1. i \in Present /\ Kind(i) = k /\ Files[i].dev \in {iface, "host"} BY <2>2 DEF Mine
    <3>2. Here(i) /\ i \in DOMAIN Files
        BY <1>1, <3>1, PresentIsHere DEF Present, StateInv, HostInv
    <3>3. i \in Listing(k)
        BY <2>2, <3>1, <3>2, KindOf
        DEF Listing, QueueDirs, GovernorPaths, NvmeDevices, OfInterface, OfKind, OfDevice,
            Kinds, Steering
    <3>4. InTune(k) BY <2>1, <2>2 DEF Steady, Steps
    <3>5. Right(i) BY <2>2, <3>3, <3>4 DEF InTune, Kinds
    <3> QED BY <2>2, <3>1, <3>5 DEF Right
  <2>3. \A i : Kind(i) # "scheduler" => Offered(i) BY DEF Offered
  <2>4. \A i \in Mine("limits") : knob[i] = profile.noFile
    <3>1. On("limits") /\ "limits" \in Kinds \ {"irq"} BY DEF On, Kinds, Steering
    <3>2. ASSUME NEW i, Kind(i) = "limits" PROVE Offered(i) /\ Value(i) = profile.noFile
        BY <3>2 DEF Offered, Value, Want, RenderLimits, Steering
    <3>3. \A i \in Mine("limits") : Kind(i) = "limits" BY DEF Mine
    <3> QED BY <2>2, <3>1, <3>2, <3>3
  <2>5. profile.ringBufferMax /\ iface \in Hardware => lowRings = {}
    <3>1. "ring" \in Steps \ {"irq"} BY DEF Steps
    <3>2. On("ring") <=> profile.ringBufferMax BY DEF On, Steering
    <3>3. InTune("ring") <=> (iface \in Hardware => lowRings = {}) BY DEF InTune
    <3> QED BY <2>1, <3>1, <3>2, <3>3 DEF Steady
  <2>6. \A k \in Steering : Steers(k) => \A i \in Mine(k) : knob[i] = CpuRange(sizing.vcpus)
      BY <2>2, <2>3 DEF On, Value, Mine, Kinds, Steering
  <2>7. profile.governor # "" => \A i \in Mine("governor") : knob[i] = profile.governor
      BY <2>2, <2>3 DEF On, Value, Want, Mine, Kinds, Steering
  <2>8. profile.ioEnabled =>
           \A i \in Mine("scheduler") : Offered(i) => knob[i] = profile.ioScheduler
      BY <2>2 DEF On, Value, Want, Mine, Kinds, Steering
  <2> QED BY <2>4, <2>5, <2>6, <2>7, <2>8 DEF ApplyTunes
<1> QED BY <1>1, TunedInvariant, PTL

\* After two such applies the next undisturbed run changes nothing: the check of
\* each resource sees what its apply wrote, the kernel's print of a mask too.
THEOREM UnchangedTheorem == Spec => []SettledRunUnchanged
<1>1. StateInv /\ TunedInv => SettledRunUnchanged
  <2>1. clean = 2 => clean >= 1 OBVIOUS
  <2> QED BY <2>1 DEF TunedInv, SteadyInv, Steady, SettledRunUnchanged
<1> QED BY <1>1, TunedInvariant, PTL

-----------------------------------------------------------------------------
(* The interrupts are spread.                                               *)

\* The position of i among the sorted numbers S
Rank(i, S) == Cardinality({j \in S : j < i})

LEMMA RankRises ==
    ASSUME NEW S, S \subseteq Nat, IsFiniteSet(S), NEW i \in S
    PROVE  /\ Rank(i, S) \in 0 .. (Cardinality(S) - 1)
           /\ \A j \in S : i < j => Rank(i, S) < Rank(j, S)
<1> DEFINE below(k) == {j \in S : j < k}
<1>1. \A k : below(k) \in SUBSET S OBVIOUS
<1>2. \A k : IsFiniteSet(below(k)) /\ Cardinality(below(k)) \in Nat
    BY <1>1, FS_Subset, FS_CardinalityType
<1>3. i \notin below(i) BY DEF below
<1> HIDE DEF below
<1>4. IsFiniteSet(below(i) \cup {i})
      /\ Cardinality(below(i) \cup {i}) = Cardinality(below(i)) + 1
    BY <1>2, <1>3, FS_AddElement
<1>5. Cardinality(S) \in Nat /\ Cardinality(below(i)) + 1 <= Cardinality(S)
  <2>1. below(i) \cup {i} \in SUBSET S BY <1>1
  <2>2. Cardinality(below(i) \cup {i}) <= Cardinality(S) BY <2>1, FS_Subset, Zenon
  <2>3. Cardinality(S) \in Nat BY FS_CardinalityType
  <2> QED BY <1>2, <1>4, <2>2, <2>3
<1>6. ASSUME NEW j \in S, i < j PROVE Cardinality(below(i)) < Cardinality(below(j))
  <2>1. below(i) \cup {i} \in SUBSET below(j)
    <3>1. \A x, y, z \in Nat : x < y /\ y < z => x < z OBVIOUS
    <3>2. \A x \in S : x < i => x < j BY <1>6, <3>1
    <3> QED BY <1>6, <3>2, Zenon DEF below
  <2>2. Cardinality(below(i) \cup {i}) <= Cardinality(below(j))
      BY <1>2, <2>1, FS_Subset
  <2> QED BY <1>2, <1>4, <2>2
<1>7. \A k : Rank(k, S) = Cardinality(below(k)) BY DEF Rank, below
<1> QED BY <1>2, <1>5, <1>6, <1>7

\* The ranks are the numbers below the cardinality, each of them once
LEMMA RankOnto ==
    ASSUME NEW S, S \subseteq Nat, IsFiniteSet(S)
    PROVE  /\ \A i, j \in S : Rank(i, S) = Rank(j, S) => i = j
           /\ \A x \in 0 .. (Cardinality(S) - 1) : \E i \in S : Rank(i, S) = x
<1> DEFINE m == Cardinality(S)
           T == 0 .. (m - 1)
           f == [i \in S |-> Rank(i, S)]
<1>1. m \in Nat BY FS_CardinalityType
<1>2. ASSUME NEW i \in S, NEW j \in S, Rank(i, S) = Rank(j, S) PROVE i = j
  <2>1. i \in Nat /\ j \in Nat OBVIOUS
  <2>2. Rank(i, S) \in T /\ Rank(j, S) \in T BY RankRises
  <2>3. (i < j => Rank(i, S) < Rank(j, S)) /\ (j < i => Rank(j, S) < Rank(i, S))
      BY RankRises, Zenon
  <2>4. ~(i < j) /\ ~(j < i) BY <1>1, <1>2, <2>2, <2>3
  <2> QED BY <2>1, <2>4
<1>3. IsFiniteSet(T) /\ Cardinality(T) = m
  <2>1. 0 \in Int /\ m - 1 \in Int BY <1>1
  <2> QED BY <1>1, <2>1, FS_Interval
<1>4. f \in [S -> T] BY RankRises
<1>5. f \in Injection(S, T) BY <1>2, <1>4 DEF Injection, IsInjective
<1>6. f \in Surjection(S, T) BY <1>3, <1>5, FS_Injection
<1>7. \A x \in T : \E i \in S : f[i] = x BY <1>6 DEF Surjection
<1> QED BY <1>2, <1>7

\* Of two numbers of a class modulo n, one turn back
LEMMA OneTurnBack ==
    ASSUME NEW n \in Nat, n >= 1, NEW x \in Nat, NEW c \in 0 .. (n - 1),
           NEW d \in 0 .. (n - 1), x % n = c, x # c
    PROVE  LET y == ((x - c) - n) + d IN y \in Nat /\ y < x /\ (y % n) = d
<1> DEFINE q == x \div n
           y == ((x - c) - n) + d
<1>1. q \in Nat /\ x = n * q + c OBVIOUS
<1> HIDE DEF q
<1>2. q # 0 BY <1>1
<1>3. q - 1 \in Nat /\ n * q = n * (q - 1) + n BY <1>1, <1>2
<1>4. y = n * (q - 1) + d BY <1>1, <1>3
<1>5. n * (q - 1) \in Nat BY <1>3
<1>6. y \in Nat /\ y < x BY <1>1, <1>3, <1>4, <1>5
<1>7. \A p \in Nat : (n * p + d) % n = d OBVIOUS
<1> QED BY <1>3, <1>4, <1>6, <1>7

\* The numbers that round robin gives to c
Class(S, n, c) == {i \in S : Rank(i, S) % n = c}

\* No class has two more members than another
LEMMA RoundRobin ==
    ASSUME NEW S, S \subseteq Nat, IsFiniteSet(S), NEW n \in Nat, n >= 1,
           NEW c \in 0 .. (n - 1), NEW d \in 0 .. (n - 1)
    PROVE  Cardinality(Class(S, n, c)) <= Cardinality(Class(S, n, d)) + 1
<1> DEFINE C == {i \in S : Rank(i, S) % n = c}
           D == {i \in S : Rank(i, S) % n = d}
           B == {i \in C : Rank(i, S) # c}
           m == Cardinality(S)
           target(i) == ((Rank(i, S) - c) - n) + d
           g == [i \in B |-> CHOOSE j \in S : Rank(j, S) = target(i)]
<1>1. m \in Nat /\ \A i \in S : Rank(i, S) \in 0 .. (m - 1)
    BY FS_CardinalityType, RankRises
<1>2. /\ \A i, j \in S : Rank(i, S) = Rank(j, S) => i = j
      /\ \A x \in 0 .. (m - 1) : \E i \in S : Rank(i, S) = x
    BY RankOnto
<1>3. ASSUME NEW i \in B
      PROVE  target(i) \in 0 .. (m - 1) /\ (target(i) % n) = d
  <2>1. Rank(i, S) \in 0 .. (m - 1) /\ Rank(i, S) % n = c /\ Rank(i, S) # c BY <1>1, <1>3
  <2>2. Rank(i, S) \in Nat BY <2>1
  <2>3. target(i) \in Nat /\ target(i) < Rank(i, S) /\ (target(i) % n) = d
      BY <2>1, <2>2, OneTurnBack
  <2> QED BY <1>1, <2>1, <2>3
<1>4. ASSUME NEW i \in B PROVE g[i] \in S /\ Rank(g[i], S) = target(i)
  <2>1. \E j \in S : Rank(j, S) = target(i) BY <1>2, <1>3
  <2> QED BY <1>4, <2>1
<1>5. \A i \in B : g[i] \in D BY <1>3, <1>4
<1>6. ASSUME NEW i \in B, NEW j \in B, g[i] = g[j] PROVE i = j
  <2>1. target(i) = target(j) BY <1>4, <1>6
  <2>2. Rank(i, S) \in Nat /\ Rank(j, S) \in Nat BY <1>1
  <2>3. Rank(i, S) = Rank(j, S) BY <2>1, <2>2
  <2> QED BY <1>2, <2>3
<1>7. g \in [B -> D] BY <1>5
<1>8. g \in Injection(B, D) BY <1>6, <1>7 DEF Injection, IsInjective
<1>9. D \in SUBSET S /\ C \in SUBSET S /\ B \in SUBSET S OBVIOUS
<1>10. IsFiniteSet(D) /\ IsFiniteSet(C) /\ IsFiniteSet(B) BY <1>9, FS_Subset
<1>11. Cardinality(B) <= Cardinality(D) BY <1>8, <1>10, FS_Injection
<1>12. Cardinality(B) \in Nat /\ Cardinality(C) \in Nat /\ Cardinality(D) \in Nat
    BY <1>10, FS_CardinalityType
<1>13. Cardinality(C) <= Cardinality(B) + 1
  <2>1. CASE B = C
    <3> HIDE DEF B, C
    <3> QED BY <1>12, <2>1
  <2>2. CASE B # C
    <3>1. PICK i \in C : Rank(i, S) = c BY <2>2
    <3>2. C = B \cup {i}
      <4>1. \A j \in C : Rank(j, S) = c => j = i BY <1>2, <3>1, Zenon
      <4> QED BY <3>1, <4>1, Zenon
    <3>3. Cardinality(B \cup {i}) \in {Cardinality(B), Cardinality(B) + 1}
        BY <1>10, FS_AddElement
    <3> QED BY <1>12, <3>2, <3>3
  <2> QED BY <2>1, <2>2
<1>14. Class(S, n, c) = C /\ Class(S, n, d) = D BY DEF Class
<1> HIDE DEF B, C, D
<1> QED BY <1>11, <1>12, <1>13, <1>14

\* For any number of interrupts and CPUs: after two undisturbed applies each
\* interrupt is on one CPU, and no CPU serves two more of them than another.
THEOREM SpreadTheorem == Spec => []IrqsSpread
<1>1. ASSUME StateInv, TunedInv PROVE IrqsSpread
  <2> SUFFICES ASSUME pc = "idle", clean = 2, FactsFit, profile.irq, sizing.vcpus > 1
               PROVE  LET load(c) == Cardinality({i \in Mine("irq") : knob[i] = {c}})
                          all == CpuRange(sizing.vcpus)
                      IN  /\ \A i \in Mine("irq") : \E c \in all : knob[i] = {c}
                          /\ \A c, d \in all : load(c) <= load(d) + 1
      BY DEF IrqsSpread
  <2> DEFINE S == EnaIRQs
             n == sizing.vcpus
  <2>1. n \in Nat /\ n >= 1 /\ n > 1 BY <1>1, CpuFacts
  <2>2. S \subseteq DOMAIN Files BY DEF EnaIRQs, OfInterface, OfKind
  <2>3. S \subseteq Nat /\ IsFiniteSet(S)
    <3>1. DOMAIN Files \subseteq Nat /\ IsFiniteSet(DOMAIN Files) BY TuningAssumption
    <3> QED BY <2>2, <3>1, FS_Subset
  <2>4. Mine("irq") = S
    <3>1. ASSUME NEW i \in Mine("irq") PROVE i \in S
      <4>1. i \in there /\ Here(i) /\ Kind(i) = "irq" /\ Files[i].dev \in {iface, "host"}
          BY <3>1 DEF Mine, Present
      <4>2. i \in DOMAIN Files BY <1>1, <4>1 DEF StateInv, HostInv
      <4>3. Files[i].dev # "host" BY <4>1, <4>2, KindOf DEF OfDevice
      <4> QED BY <4>1, <4>2, <4>3 DEF EnaIRQs, OfInterface, OfKind
    <3>2. ASSUME NEW i \in S PROVE i \in Mine("irq")
        BY <3>2, PresentIsHere DEF Mine, EnaIRQs, OfInterface, OfKind
    <3> QED BY <3>1, <3>2
  <2>5. \A i \in S : knob[i] = {Rank(i, S) % n}
    <3>1. clean >= 1 OBVIOUS
    <3>2. Steady BY <1>1, <3>1 DEF TunedInv, IdleInv, SteadyInv
    <3>3. On("irq") BY DEF On, Steering
    <3>4. InTune("irq") BY <3>2, <3>3 DEF Steady
    <3>5. Listing("irq") = S BY DEF Listing, Steering
    <3>6. ASSUME NEW i \in S PROVE knob[i] = {Rank(i, S) % n}
      <4>1. Right(i) BY <3>4, <3>5 DEF InTune
      <4>2. Kind(i) = "irq" /\ Here(i) BY DEF EnaIRQs, OfInterface, OfKind
      <4>3. knob[i] = Value(i) BY <4>1, <4>2, PresentIsHere DEF Right, Offered
      <4>4. Value(i) = DesiredAffinity(i, S) BY <4>2 DEF Value, Want, Steering
      <4>5. PositiveOr(n, 1) = n BY <2>1 DEF PositiveOr
      <4> QED BY <4>3, <4>4, <4>5 DEF DesiredAffinity, Rank
    <3> QED BY <3>6
  <2>6. \A i \in S : Rank(i, S) % n \in CpuRange(n)
    <3>1. \A i \in S : Rank(i, S) \in 0 .. (Cardinality(S) - 1) BY <2>3, RankRises
    <3>2. Cardinality(S) \in Nat BY <2>3, FS_CardinalityType
    <3>3. \A x \in Nat : x % n \in CpuRange(n) BY <2>1 DEF CpuRange
    <3> QED BY <3>1, <3>2, <3>3
  <2>7. ASSUME NEW c \in CpuRange(n), NEW d \in CpuRange(n)
        PROVE  Cardinality({i \in S : knob[i] = {c}})
                  <= Cardinality({i \in S : knob[i] = {d}}) + 1
    <3>1. {i \in S : knob[i] = {c}} = Class(S, n, c) BY <2>5 DEF Class
    <3>2. {i \in S : knob[i] = {d}} = Class(S, n, d) BY <2>5 DEF Class
    <3>3. c \in 0 .. (n - 1) /\ d \in 0 .. (n - 1) BY DEF CpuRange
    <3> HIDE DEF S, n
    <3>4. Cardinality(Class(S, n, c)) <= Cardinality(Class(S, n, d)) + 1
        BY <2>1, <2>3, <3>3, RoundRobin
    <3> QED BY <3>1, <3>2, <3>4
  <2> HIDE DEF S, n
  <2>8. \A i \in Mine("irq") : \E c \in CpuRange(n) : knob[i] = {c}
      BY <2>4, <2>5, <2>6
  <2>9. \A c, d \in CpuRange(n) : Cardinality({i \in Mine("irq") : knob[i] = {c}})
                                     <= Cardinality({i \in Mine("irq") : knob[i] = {d}}) + 1
      BY <2>4, <2>7
  <2> QED BY <2>8, <2>9, Zenon DEF n
<1> QED BY <1>1, TunedInvariant, PTL
=============================================================================
