---------------------------- MODULE EngineProofs ----------------------------
(***************************************************************************)
(* Engine's safety properties for every set of processes, profiles,         *)
(* configs, command lines and bounds.                                       *)
(***************************************************************************)
EXTENDS Engine, SequenceTheorems, TLAPS

\* The strengthening.  A process between its first Check and its report has
\* split what it selected into positions with a verdict and positions still
\* to do; as long as no verdict so far is a failure or a pending change,
\* everything that has one is settled or excused.
Clean(p) == \A i \in DOMAIN results[p] :
                results[p][i] \notin {StatusFailed, StatusWouldChange}

RunInv(p) ==
    /\ pc[p] = "load" => DOMAIN results[p] = {} /\ todo[p] = {}
    /\ pc[p] \in {"encode", "summary"} => DOMAIN results[p] = {}
    /\ pc[p] = "encode" => args[p].cmd \notin {"apply", "check"}
    /\ pc[p] = "summary" => todo[p] = Selected(p)
    /\ pc[p] \in {"summary", "check", "apply"} => args[p].cmd \in {"apply", "check"}
    /\ pc[p] \in {"check", "apply"} =>
          /\ todo[p] \cup DOMAIN results[p] = Selected(p)
          /\ todo[p] \cap DOMAIN results[p] = {}
    /\ pc[p] = "apply" => ModeOf(p) = ModeApply /\ todo[p] # {}
    /\ pc[p] \in {"check", "apply"} /\ ModeOf(p) = ModeApply =>
          \A i \in DOMAIN results[p] : results[p][i] # StatusWouldChange
    /\ pc[p] = "exited" /\ DOMAIN results[p] # {} =>
          DOMAIN results[p] = Selected(p)
    /\ pc[p] = "exited" /\ exit[p] = 0 /\ args[p].cmd \in {"apply", "check"} =>
          DOMAIN results[p] = Selected(p) /\ Clean(p)
    /\ pc[p] \in {"check", "apply", "exited"} /\ Clean(p) =>
          \A i \in DOMAIN results[p] :
              \/ Excused(p, ResourceAt(p, i))
              \/ Settled(ResourceAt(p, i), ProfOf(p))

IInv == TypeOK /\ \A p \in Procs : RunInv(p)

-----------------------------------------------------------------------------
(* Facts about the operators.                                               *)

LEMMA WhenType ==
    ASSUME NEW b \in BOOLEAN, NEW s \in Seq(Names)
    PROVE  When(b, s) \in Seq(Names)
BY DEF When

\* Build returns a list of known resource names
LEMMA BuildType ==
    ASSUME NEW f \in ProfileType
    PROVE  Build(f) \in Seq(Names)
<1> DEFINE a == << "sysctl", "kernel-modules", "swap", "cgroup-v2" >>
           c == When(f.noFile, << "limits-conf" >> \o SystemdLimitServices)
           d == When(f.irq, << "irq-affinity" >>)
           e == When(f.nic, << "nic-tuning" >>)
           g == When(f.governor, << "cpu-governor" >>)
           h == When(f.ioScheduler, << "io-scheduler" >>)
<1>1. a \in Seq(Names) BY DEF Names
<1>2. f.mounts \in Seq(Names)
  <2>1. f.mounts \in {<< >>, << "bpffs-mount" >>} BY DEF ProfileType
  <2>2. << >> \in Seq(Names) OBVIOUS
  <2>3. << "bpffs-mount" >> \in Seq(Names) BY DEF Names
  <2> QED BY <2>1, <2>2, <2>3
<1>3. c \in Seq(Names)
  <2>1. << "limits-conf" >> \in Seq(Names) /\ SystemdLimitServices \in Seq(Names)
    BY DEF Names, SystemdLimitServices
  <2>2. << "limits-conf" >> \o SystemdLimitServices \in Seq(Names)
    BY <2>1, ConcatProperties
  <2> QED BY <2>2, WhenType DEF ProfileType
<1>4. << "irq-affinity" >> \in Seq(Names) /\ << "nic-tuning" >> \in Seq(Names)
      /\ << "cpu-governor" >> \in Seq(Names) /\ << "io-scheduler" >> \in Seq(Names)
  BY DEF Names
<1>5. d \in Seq(Names) /\ e \in Seq(Names) /\ g \in Seq(Names) /\ h \in Seq(Names)
  BY <1>4, WhenType DEF ProfileType
<1> HIDE DEF a, c, d, e, g, h
<1>6. a \o f.mounts \in Seq(Names) BY <1>1, <1>2, ConcatProperties
<1>7. a \o f.mounts \o c \in Seq(Names) BY <1>6, <1>3, ConcatProperties
<1>8. a \o f.mounts \o c \o d \in Seq(Names) BY <1>7, <1>5, ConcatProperties
<1>9. a \o f.mounts \o c \o d \o e \in Seq(Names) BY <1>8, <1>5, ConcatProperties
<1>10. a \o f.mounts \o c \o d \o e \o g \in Seq(Names) BY <1>9, <1>5, ConcatProperties
<1>11. a \o f.mounts \o c \o d \o e \o g \o h \in Seq(Names) BY <1>10, <1>5, ConcatProperties
<1> QED BY <1>11 DEF Build, a, c, d, e, g, h

LEMMA BuildNames ==
    ASSUME NEW f \in Profiles, NEW i \in DOMAIN Build(f)
    PROVE  Build(f)[i] \in Names
<1>1. Build(f) \in Seq(Names) BY BuildType, InputsAssumption
<1> HIDE DEF Build
<1> QED BY <1>1, ElementOfSeq

LEMMA FilterType ==
    ASSUME NEW f, NEW d, NEW a
    PROVE  FilterResources(f, d, a) \subseteq DOMAIN Build(f)
BY DEF FilterResources

LEMMA CheckStatusType ==
    ASSUME NEW r, NEW f PROVE CheckStatus(r, f) \in Status
BY DEF CheckStatus, Status, StatusSkipped, StatusRebootRequired,
       StatusUnchanged, StatusWouldChange

\* An Apply of r leaves r at v and alters nothing else but its side effects
LEMMA AftermathShape ==
    ASSUME host \in [Names -> HostVals], NEW r \in Names, NEW v \in HostVals,
           NEW h \in Aftermath(r, v)
    PROVE  /\ h \in [Names -> HostVals] /\ h[r] = v
           /\ \A x \in Names : h[x] # host[x] => x = r \/ x \in SideEffects(r)
<1>1. CASE h = [host EXCEPT ![r] = v] BY <1>1
<1>2. ASSUME NEW x \in SideEffects(r), h = [host EXCEPT ![r] = v, ![x] = Upset(x)]
      PROVE  /\ h \in [Names -> HostVals] /\ h[r] = v
             /\ \A y \in Names : h[y] # host[y] => y = r \/ y \in SideEffects(r)
  <2>1. x \in Names /\ x # r BY <1>2 DEF SideEffects, Names
  <2>2. Upset(x) \in HostVals BY SettingsAssumption DEF Upset, HostVals
  <2> HIDE DEF Upset, SideEffects
  <2> QED BY <1>2, <2>1, <2>2
<1> QED BY <1>1, <1>2 DEF Aftermath

\* What an Apply, whole or not, may make of a resource
LEMMA AppliedType ==
    ASSUME IInv, NEW p \in Procs, NEW r \in Names
    PROVE  /\ Applied(r, ProfOf(p)) \in HostVals
           /\ Partly(r, ProfOf(p)) \subseteq HostVals
<1>1. ProfOf(p) \in ProfileType BY InputsAssumption DEF IInv, TypeOK, ProfOf
<1>2. ProfOf(p).want[r] \in HostVals BY <1>1 DEF ProfileType, HostVals
<1>3. host[r] \in HostVals BY DEF IInv, TypeOK
<1> QED BY <1>2, <1>3 DEF Applied, Partly, HostVals

\* The next resource of a run is one of Names
LEMMA NextName ==
    ASSUME IInv, NEW p \in Procs, NEW i \in todo[p]
    PROVE  ResourceAt(p, i) \in Names
<1>1. ProfOf(p) \in Profiles /\ i \in DOMAIN Build(ProfOf(p))
  BY DEF IInv, TypeOK, ProfOf
<1> QED BY <1>1, BuildNames DEF ResourceAt

LEMMA InitInv == Init => IInv
<1> SUFFICES ASSUME Init PROVE IInv OBVIOUS
<1>1. NotLoaded \in [cfg : Configs, prof : Profiles]
  BY InputsAssumption DEF NotLoaded
<1>2. UnitArgs \in Args BY DEF UnitArgs, Args, Commands
<1>3. TypeOK
  BY <1>1, <1>2, InputsAssumption DEF Init, TypeOK, PCs, UnitState, NoExit
<1>4. \A p \in Procs : RunInv(p)
  BY DEF Init, RunInv, NoExit
<1> QED BY <1>3, <1>4 DEF IInv

-----------------------------------------------------------------------------
(* A step that leaves process q alone and tells it, in disturbed, about     *)
(* every setting that changed, preserves q's part of the invariant.         *)

Alone(q) ==
    /\ pc'[q] = pc[q] /\ args'[q] = args[q] /\ loaded'[q] = loaded[q]
    /\ todo'[q] = todo[q] /\ results'[q] = results[q] /\ exit'[q] = exit[q]
    /\ unread'[q] = unread[q]

Told(q) ==
    \A r \in Names : /\ r \in disturbed[q] => r \in disturbed'[q]
                     /\ host'[r] = host[r] \/ r \in disturbed'[q]

LEMMA SettledFrame ==
    ASSUME NEW r, NEW f, host'[r] = host[r]
    PROVE  Settled(r, f)' = Settled(r, f)
BY DEF Settled, CheckStatus

LEMMA Frame ==
    ASSUME TypeOK, NEW q \in Procs, RunInv(q), Alone(q), Told(q)
    PROVE  RunInv(q)'
<1>1. /\ ProfOf(q)' = ProfOf(q) /\ Selected(q)' = Selected(q)
      /\ ModeOf(q)' = ModeOf(q) /\ Clean(q)' = Clean(q)
  BY DEF Alone, ProfOf, Selected, ModeOf, Clean
<1>2. ASSUME NEW i \in DOMAIN results[q],
             \/ Excused(q, ResourceAt(q, i))
             \/ Settled(ResourceAt(q, i), ProfOf(q))
      PROVE  \/ Excused(q, ResourceAt(q, i))'
             \/ Settled(ResourceAt(q, i), ProfOf(q))'
  <2>0. PICK f, r : f = loaded[q].prof /\ r = Build(f)[i] OBVIOUS
  <2>1. f \in Profiles /\ i \in DOMAIN Build(f) BY <2>0 DEF TypeOK, ProfOf
  <2>2. r \in Names BY <2>0, <2>1, BuildNames
  <2>3. /\ ResourceAt(q, i) = r /\ ResourceAt(q, i)' = r
        /\ ProfOf(q) = f /\ ProfOf(q)' = f
    BY <2>0, <1>1 DEF ResourceAt, ProfOf, Alone
  <2>4. Settled(ResourceAt(q, i), ProfOf(q))' <=> Settled(r, f)'
    BY <2>3 DEF Settled, CheckStatus
  <2>5. CASE Excused(q, r)'
    BY <2>5, <2>3 DEF Excused
  <2>6. CASE ~Excused(q, r)'
    <3>1. ~Excused(q, r) /\ host'[r] = host[r]
      BY <2>6, <2>2, <1>1 DEF Told, Excused, Alone, ResourceAt
    <3>2. Settled(r, f) BY <1>2, <2>3, <3>1
    <3>3. Settled(r, f)' = Settled(r, f) BY <3>1, SettledFrame
    <3> QED BY <3>2, <3>3, <2>4
  <2> QED BY <2>5, <2>6
<1> QED BY <1>1, <1>2 DEF RunInv, Alone

-----------------------------------------------------------------------------
(* One lemma per action.                                                    *)

\* A new process: nothing of the old run is left but its inputs
LEMMA StartInv ==
    ASSUME IInv, NEW p \in Procs, NEW a \in Args, Start(p, a),
           unit' \in UnitState
    PROVE  IInv'
<1>1. TypeOK'
  BY DEF IInv, TypeOK, Start, PCs, Running, ProfOf
<1>2. RunInv(p)'
  BY DEF IInv, TypeOK, RunInv, Start, NoExit
<1>3. ASSUME NEW q \in Procs, q # p PROVE RunInv(q)'
  <2>1. Alone(q) /\ Told(q) BY <1>3 DEF IInv, TypeOK, Start, Alone, Told
  <2> QED BY <2>1, Frame DEF IInv
<1> QED BY <1>1, <1>2, <1>3 DEF IInv

\* The process exits: enough that what RunInv says of an exited process holds
LEMMA ExitInv ==
    ASSUME IInv, NEW p \in Procs, NEW code \in {0, 1, 2}, Exit(p, code),
           pc[p] \in Running,
           pc[p] \notin {"load", "encode", "summary"} => todo[p] = {},
           code = 0 /\ args[p].cmd \in {"apply", "check"} =>
               pc[p] \in {"check", "apply"} /\ Clean(p),
           UNCHANGED << host, config, args, loaded, todo, results, disturbed, unread >>
    PROVE  IInv'
<1>1. TypeOK'
  BY DEF IInv, TypeOK, Exit, PCs, Running, UnitState, ProfOf
<1>2. RunInv(p)'
  <2>1. pc'[p] = "exited" /\ exit'[p] = code BY DEF IInv, TypeOK, Exit
  <2>2. /\ ProfOf(p)' = ProfOf(p) /\ Selected(p)' = Selected(p)
        /\ Clean(p)' = Clean(p)
    BY DEF ProfOf, Selected, Clean
  <2>3. DOMAIN results[p] # {} => DOMAIN results[p] = Selected(p)
    BY DEF IInv, RunInv, Running
  <2>4. code = 0 /\ args[p].cmd \in {"apply", "check"} =>
            DOMAIN results[p] = Selected(p) /\ Clean(p)
    BY DEF IInv, RunInv, Running
  <2>5. Clean(p) => \A i \in DOMAIN results[p] :
                        \/ Excused(p, ResourceAt(p, i))
                        \/ Settled(ResourceAt(p, i), ProfOf(p))
    BY DEF IInv, RunInv, Running
  <2>6. \A i \in DOMAIN results[p] :
            (Excused(p, ResourceAt(p, i))' <=> Excused(p, ResourceAt(p, i))) /\
            (Settled(ResourceAt(p, i), ProfOf(p))' <=>
             Settled(ResourceAt(p, i), ProfOf(p)))
    BY DEF ResourceAt, ProfOf, Settled, CheckStatus, Excused
  <2> QED BY <2>1, <2>2, <2>3, <2>4, <2>5, <2>6 DEF RunInv
<1>3. ASSUME NEW q \in Procs, q # p PROVE RunInv(q)'
  <2>1. Alone(q) /\ Told(q) BY <1>3 DEF IInv, TypeOK, Exit, Alone, Told
  <2> QED BY <2>1, Frame DEF IInv
<1> QED BY <1>1, <1>2, <1>3 DEF IInv

LEMMA LoadInv ==
    ASSUME IInv, NEW p \in Procs, Load(p)
    PROVE  IInv'
<1>1. PICK f \in Profiles :
         /\ loaded' = [loaded EXCEPT ![p] = [cfg |-> config, prof |-> f]]
         /\ IF args[p].cmd \in {"facts", "profile"}
            THEN Goto(p, "encode") /\ UNCHANGED todo
            ELSE /\ todo' = [todo EXCEPT ![p] =
                               FilterResources(f, config.disable, args[p])]
                 /\ Goto(p, IF config.json THEN "check" ELSE "summary")
  BY DEF Load
<1>2. UNCHANGED << host, config, args, results, disturbed, unread, exit, unit >>
  BY <1>1 DEF Load, Goto
<1>3. DOMAIN results[p] = {} /\ todo[p] = {} /\ pc[p] = "load"
  BY DEF Load, IInv, RunInv
<1>4. /\ ProfOf(p)' = f /\ todo'[p] \in {{}, FilterResources(f, config.disable, args[p])}
      /\ Selected(p)' = FilterResources(f, config.disable, args[p])
  BY <1>1, <1>2, <1>3 DEF IInv, TypeOK, ProfOf, Selected
<1>5. \A q \in Procs : q # p => Alone(q) /\ Told(q)
  BY <1>1, <1>2 DEF IInv, TypeOK, Alone, Told, Goto
<1>6. TypeOK'
  <2>1. loaded' \in [Procs -> [cfg : Configs, prof : Profiles]] /\ pc' \in [Procs -> PCs]
    BY <1>1 DEF IInv, TypeOK, Goto, PCs, Running
  <2>2. DOMAIN todo' = Procs BY <1>1 DEF IInv, TypeOK
  <2>3. ASSUME NEW q \in Procs
        PROVE  todo'[q] \subseteq DOMAIN Build(ProfOf(q)')
    <3>1. CASE q = p BY <3>1, <1>4, FilterType
    <3>2. CASE q # p BY <3>2, <1>5 DEF IInv, TypeOK, Alone, ProfOf
    <3> QED BY <3>1, <3>2
  <2>4. ASSUME NEW q \in Procs
        PROVE  DOMAIN results'[q] \subseteq DOMAIN Build(ProfOf(q)')
    <3>1. CASE q = p BY <3>1, <1>2, <1>3
    <3>2. CASE q # p BY <3>2, <1>2, <1>5 DEF IInv, TypeOK, Alone, ProfOf
    <3> QED BY <3>1, <3>2
  <2> QED BY <1>2, <2>1, <2>2, <2>3, <2>4 DEF IInv, TypeOK
<1>7. RunInv(p)'
  <2>1. args[p].cmd \in {"apply", "check", "facts", "profile"}
    BY DEF Load, IInv, TypeOK, Args, Commands
  <2>2. CASE args[p].cmd \in {"facts", "profile"}
    BY <1>1, <1>2, <1>3, <2>2 DEF IInv, TypeOK, RunInv, Goto
  <2>3. CASE args[p].cmd \in {"apply", "check"}
    <3>1. /\ pc'[p] \in {"check", "summary"} /\ DOMAIN results'[p] = {}
          /\ todo'[p] = Selected(p)' /\ args'[p].cmd \in {"apply", "check"}
      BY <1>1, <1>2, <1>3, <1>4, <2>3 DEF IInv, TypeOK, Goto
    <3> QED BY <3>1 DEF RunInv
  <2> QED BY <2>1, <2>2, <2>3
<1> QED BY <1>5, <1>6, <1>7, Frame DEF IInv

\* A verdict on position i of p's list: the step alters its resource and what
\* an Apply of it upsets, and if the verdict is neither a failure nor a pending
\* change, the resource is settled or a read error was passed over.
LEMMA RecordInv ==
    ASSUME IInv, NEW p \in Procs, NEW i, NEW s \in Status,
           pc[p] \in {"check", "apply"},
           i \in todo[p],
           host' \in [Names -> HostVals],
           \A x \in Names : host'[x] # host[x] =>
               /\ x = ResourceAt(p, i) \/ x \in SideEffects(ResourceAt(p, i))
               /\ s \in {StatusChanged, StatusFailed},
           unread' \in [Procs -> SUBSET Names],
           \A q \in Procs : q # p => unread'[q] = unread[q],
           \A x \in unread[p] : x # ResourceAt(p, i) => x \in unread'[p],
           Verdict(p, ResourceAt(p, i)),
           Record(p, i, s),
           ModeOf(p) = ModeApply => s # StatusWouldChange,
           s \notin {StatusFailed, StatusWouldChange} =>
               \/ Settled(ResourceAt(p, i), ProfOf(p))'
               \/ ResourceAt(p, i) \in unread'[p],
           UNCHANGED << config, args, loaded >>
    PROVE  IInv'
<1> DEFINE D == DOMAIN results[p] \cup {i}
<1>0. PICK f, r : f = loaded[p].prof /\ r = Build(f)[i] OBVIOUS
<1>1. f \in Profiles /\ i \in DOMAIN Build(f) /\ r \in Names
  <2>1. f \in Profiles /\ i \in DOMAIN Build(f)
    BY <1>0 DEF IInv, TypeOK, ProfOf
  <2> QED BY <2>1, <1>0, BuildNames
<1>2. ResourceAt(p, i) = r /\ ProfOf(p) = f /\ ResourceAt(p, i)' = r /\ ProfOf(p)' = f
  BY <1>0 DEF ResourceAt, ProfOf
<1>3. disturbed' = [q \in Procs |->
                      IF q = p THEN disturbed[q] \ {r}
                      ELSE disturbed[q] \cup {x \in Names : host'[x] # host[x]}]
  BY <1>2 DEF Verdict
<1>4. /\ results' = [results EXCEPT ![p] =
                        [j \in D |-> IF j = i THEN s ELSE results[p][j]]]
      /\ todo' = [todo EXCEPT ![p] = todo[p] \ {i}]
      /\ pc' = [pc EXCEPT ![p] = "check"]
      /\ UNCHANGED << exit, unit >>
  BY DEF Record, Append1, Goto
<1>5. /\ DOMAIN results'[p] = D /\ results'[p][i] = s
      /\ \A j \in DOMAIN results[p] : j # i => results'[p][j] = results[p][j]
      /\ todo'[p] = todo[p] \ {i} /\ pc'[p] = "check"
  BY <1>4 DEF IInv, TypeOK
<1>6. TypeOK'
  <2>1. disturbed' \in [Procs -> SUBSET Names]
    BY <1>1, <1>3 DEF IInv, TypeOK
  <2>2. /\ pc' \in [Procs -> PCs] /\ DOMAIN todo' = Procs /\ DOMAIN results' = Procs
        /\ exit' = exit /\ unit' = unit
    BY <1>4 DEF IInv, TypeOK, PCs, Running
  <2>3. ASSUME NEW q \in Procs
        PROVE  /\ todo'[q] \subseteq DOMAIN Build(ProfOf(q)')
               /\ DOMAIN results'[q] \subseteq DOMAIN Build(ProfOf(q)')
               /\ \A j \in DOMAIN results'[q] : results'[q][j] \in Status
    <3>1. ProfOf(q)' = ProfOf(q) BY DEF ProfOf
    <3>2. CASE q = p BY <3>1, <3>2, <1>1, <1>2, <1>5 DEF IInv, TypeOK
    <3>3. CASE q # p BY <3>1, <3>3, <1>4 DEF IInv, TypeOK
    <3> QED BY <3>2, <3>3
  <2> QED BY <2>1, <2>2, <2>3 DEF IInv, TypeOK
<1>7. ASSUME NEW q \in Procs, q # p PROVE RunInv(q)'
  <2>1. Alone(q) BY <1>7, <1>4 DEF IInv, TypeOK, Alone
  <2>2. Told(q) BY <1>1, <1>3, <1>7 DEF IInv, TypeOK, Told
  <2> QED BY <2>1, <2>2, Frame DEF IInv
<1>8. RunInv(p)'
  <2>1. Selected(p)' = Selected(p) /\ ModeOf(p)' = ModeOf(p)
    BY DEF Selected, ModeOf, ProfOf
  <2>2. /\ todo[p] \cup DOMAIN results[p] = Selected(p)
        /\ todo[p] \cap DOMAIN results[p] = {}
        /\ args[p].cmd \in {"apply", "check"}
    BY DEF IInv, RunInv
  <2>3. /\ todo'[p] \cup DOMAIN results'[p] = Selected(p)
        /\ todo'[p] \cap DOMAIN results'[p] = {}
    BY <1>5, <2>2
  <2>4. ModeOf(p) = ModeApply =>
            \A j \in DOMAIN results'[p] : results'[p][j] # StatusWouldChange
    BY <1>5 DEF IInv, RunInv
  <2>5. ASSUME Clean(p)', NEW j \in DOMAIN results'[p]
        PROVE  \/ Excused(p, ResourceAt(p, j))'
               \/ Settled(ResourceAt(p, j), ProfOf(p))'
    <3>1. s \notin {StatusFailed, StatusWouldChange} BY <2>5, <1>5 DEF Clean
    <3>2. Settled(r, f)' \/ r \in unread'[p] BY <3>1, <1>2 DEF Settled, CheckStatus
    <3>3. PICK t : t = Build(f)[j] OBVIOUS
    <3>4. /\ ResourceAt(p, j) = t /\ ResourceAt(p, j)' = t
          /\ (Settled(ResourceAt(p, j), ProfOf(p))' <=> Settled(t, f)')
          /\ (Settled(ResourceAt(p, j), ProfOf(p)) <=> Settled(t, f))
      BY <3>3, <1>0, <1>2 DEF ResourceAt, ProfOf, Settled, CheckStatus
    <3>5. CASE t = r BY <3>2, <3>4, <3>5 DEF Excused
    <3>6. CASE t # r
      <4>1. j # i /\ j \in DOMAIN results[p] BY <3>6, <3>3, <1>0, <1>5
      <4>2. Clean(p)
        <5>1. i \notin DOMAIN results[p] BY <2>2
        <5> QED BY <5>1, <2>5, <1>5 DEF Clean
      <4>3. Excused(p, t) \/ Settled(t, f)
        BY <4>1, <4>2, <3>4 DEF IInv, RunInv
      <4>4. Excused(p, t) => Excused(p, ResourceAt(p, j))'
        <5>1. ASSUME NEW k \in DOMAIN results[p], results[p][k] = StatusChanged,
                     t \in SideEffects(ResourceAt(p, k))
              PROVE  Excused(p, ResourceAt(p, j))'
          <6>1. k # i BY <5>1, <2>2
          <6>2. /\ k \in DOMAIN results'[p] /\ results'[p][k] = StatusChanged
                /\ ResourceAt(p, k)' = ResourceAt(p, k)
            BY <5>1, <6>1, <1>5 DEF ResourceAt, ProfOf
          <6> QED BY <5>1, <6>2, <3>4 DEF Excused
        <5>2. ASSUME t \in disturbed[p] \cup unread[p]
              PROVE  Excused(p, ResourceAt(p, j))'
          <6>1. t \in disturbed'[p] \cup unread'[p] BY <5>2, <3>6, <1>2, <1>3
          <6> QED BY <6>1, <3>4 DEF Excused
        <5> QED BY <5>1, <5>2 DEF Excused
      <4>5. t \in Names
        <5>1. j \in DOMAIN Build(f) BY <4>1, <1>2 DEF IInv, TypeOK
        <5> QED BY <5>1, <1>1, <3>3, BuildNames
      <4>6. CASE host'[t] = host[t]
        <5>1. Settled(t, f)' = Settled(t, f) BY <4>6, SettledFrame
        <5> QED BY <4>3, <4>4, <5>1, <3>4
      <4>7. CASE host'[t] # host[t]
        <5>1. t \in SideEffects(r) /\ s = StatusChanged
          BY <4>5, <4>7, <3>1, <3>6, <1>2
        <5>2. i \in DOMAIN results'[p] /\ results'[p][i] = StatusChanged
          BY <5>1, <1>5
        <5> QED BY <5>1, <5>2, <3>4, <1>2 DEF Excused
      <4> QED BY <4>6, <4>7
    <3> QED BY <3>5, <3>6
  <2> QED BY <1>5, <2>1, <2>2, <2>3, <2>4, <2>5 DEF RunInv
<1> QED BY <1>6, <1>7, <1>8 DEF IInv

LEMMA CheckInv ==
    ASSUME IInv, NEW p \in Procs, CheckNext(p)
    PROVE  IInv'
<1>0. pc[p] = "check" /\ UNCHANGED << host, config, args, loaded >>
  BY DEF CheckNext
<1>1. PICK i \in todo[p], s \in Status :
        /\ \/ s = CheckStatus(ResourceAt(p, i), ProfOf(p)) /\ UNCHANGED unread
           \/ PastError(p, ResourceAt(p, i))
        /\ IF ModeOf(p) = ModeApply /\ s = StatusWouldChange
           THEN Goto(p, "apply") /\ UNCHANGED << results, todo, disturbed >>
           ELSE Record(p, i, s) /\ Verdict(p, ResourceAt(p, i))
  BY DEF CheckNext
<1>2. PICK r \in Names : r = ResourceAt(p, i) BY NextName
<1>3. /\ unread' \in [Procs -> SUBSET Names]
      /\ \A q \in Procs : q # p => unread'[q] = unread[q]
      /\ unread[p] \subseteq unread'[p]
      /\ s = CheckStatus(r, ProfOf(p)) \/ r \in unread'[p]
  <2>1. CASE UNCHANGED unread /\ s = CheckStatus(r, ProfOf(p))
    BY <2>1 DEF IInv, TypeOK
  <2>2. CASE unread' = [unread EXCEPT ![p] = @ \cup {r}]
    BY <2>2 DEF IInv, TypeOK
  <2> QED BY <1>1, <1>2, <2>1, <2>2 DEF PastError
<1>5. CASE /\ ModeOf(p) = ModeApply
           /\ Goto(p, "apply") /\ UNCHANGED << results, todo, disturbed >>
  <2>1. TypeOK'
    BY <1>0, <1>3, <1>5 DEF IInv, TypeOK, Goto, PCs, Running, ProfOf
  <2>2. \A q \in Procs : q # p => Alone(q) /\ Told(q)
    BY <1>0, <1>3, <1>5 DEF IInv, TypeOK, Alone, Told, Goto
  <2>3. RunInv(p)'
    <3>1. pc'[p] = "apply" /\ todo[p] # {} BY <1>5 DEF IInv, TypeOK, Goto
    <3>2. /\ Selected(p)' = Selected(p) /\ Clean(p)' = Clean(p)
          /\ ModeOf(p)' = ModeOf(p) /\ ProfOf(p)' = ProfOf(p)
      BY <1>0, <1>5 DEF Selected, ProfOf, Clean, ModeOf
    <3>3. \A j \in DOMAIN results[p] :
            (Excused(p, ResourceAt(p, j)) => Excused(p, ResourceAt(p, j))') /\
            (Settled(ResourceAt(p, j), ProfOf(p))' <=>
             Settled(ResourceAt(p, j), ProfOf(p)))
      BY <1>0, <1>3, <1>5 DEF ResourceAt, ProfOf, Settled, CheckStatus, Excused
    <3> QED BY <1>0, <1>5, <3>1, <3>2, <3>3 DEF IInv, RunInv
  <2> QED BY <2>1, <2>2, <2>3, Frame DEF IInv
<1>6. CASE /\ ~(ModeOf(p) = ModeApply /\ s = StatusWouldChange)
           /\ Record(p, i, s) /\ Verdict(p, ResourceAt(p, i))
  <2>1. s # StatusWouldChange =>
           \/ Settled(ResourceAt(p, i), ProfOf(p))'
           \/ ResourceAt(p, i) \in unread'[p]
    BY <1>0, <1>2, <1>3 DEF Settled, CheckStatus, ProfOf, ResourceAt
  <2>2. host' \in [Names -> HostVals] /\ \A x \in Names : host'[x] = host[x]
    BY <1>0 DEF IInv, TypeOK
  <2> QED BY <1>0, <1>3, <1>6, <2>1, <2>2, RecordInv
<1> QED BY <1>1, <1>5, <1>6

LEMMA ApplyInv ==
    ASSUME IInv, NEW p \in Procs, ApplyNext(p)
    PROVE  IInv'
<1>0. pc[p] = "apply" /\ UNCHANGED << config, args, loaded >>
  BY DEF ApplyNext
<1>1. PICK i \in todo[p] :
        /\ \/ /\ host' \in Aftermath(ResourceAt(p, i), Applied(ResourceAt(p, i), ProfOf(p)))
              /\ Record(p, i, StatusChanged)
              /\ unread' = [unread EXCEPT ![p] = @ \ {ResourceAt(p, i)}]
           \/ /\ \E v \in Partly(ResourceAt(p, i), ProfOf(p)) :
                    host' \in Aftermath(ResourceAt(p, i), v)
              /\ \/ Record(p, i, StatusChanged) /\ PastError(p, ResourceAt(p, i))
                 \/ Record(p, i, StatusFailed) /\ UNCHANGED unread
        /\ Verdict(p, ResourceAt(p, i))
  BY DEF ApplyNext
<1>2. PICK r \in Names : r = ResourceAt(p, i) BY NextName
<1>3. PICK f : f = ProfOf(p) OBVIOUS
<1>4. /\ host \in [Names -> HostVals] /\ unread \in [Procs -> SUBSET Names]
      /\ Applied(r, f) \in HostVals /\ Partly(r, f) \subseteq HostVals
  BY <1>3, AppliedType DEF IInv, TypeOK
<1>5. StatusChanged \in Status /\ StatusFailed \in Status
      /\ StatusChanged # StatusWouldChange /\ StatusFailed # StatusWouldChange
  BY DEF Status, StatusFailed, StatusChanged, StatusWouldChange
<1>6. ASSUME NEW v \in HostVals, host' \in Aftermath(r, v)
      PROVE  /\ host' \in [Names -> HostVals] /\ host'[r] = v
             /\ \A x \in Names : host'[x] # host[x] => x = r \/ x \in SideEffects(r)
  BY <1>4, <1>6, AftermathShape
<1>7. CASE /\ host' \in Aftermath(r, Applied(r, f))
           /\ Record(p, i, StatusChanged)
           /\ unread' = [unread EXCEPT ![p] = @ \ {r}]
  <2>1. /\ host' \in [Names -> HostVals] /\ host'[r] = Applied(r, f)
        /\ \A x \in Names : host'[x] # host[x] => x = r \/ x \in SideEffects(r)
    BY <1>4, <1>6, <1>7
  <2>2. Settled(r, f)'
    BY <2>1 DEF Applied, Settled, CheckStatus, StatusSkipped, StatusRebootRequired,
                StatusUnchanged, StatusWouldChange
  <2>3. Settled(ResourceAt(p, i), ProfOf(p))'
    BY <2>2, <1>0, <1>2, <1>3 DEF Settled, CheckStatus, ResourceAt, ProfOf
  <2>4. /\ unread' \in [Procs -> SUBSET Names]
        /\ \A q \in Procs : q # p => unread'[q] = unread[q]
        /\ \A x \in unread[p] : x # r => x \in unread'[p]
    BY <1>4, <1>7
  <2> QED BY <1>0, <1>1, <1>2, <1>5, <1>7, <2>1, <2>3, <2>4, RecordInv
<1>8. ASSUME NEW v \in Partly(r, f), host' \in Aftermath(r, v), NEW s,
             \/ s = StatusChanged /\ unread' = [unread EXCEPT ![p] = @ \cup {r}]
             \/ s = StatusFailed /\ UNCHANGED unread,
             Record(p, i, s)
      PROVE  IInv'
  <2>1. /\ host' \in [Names -> HostVals]
        /\ \A x \in Names : host'[x] # host[x] => x = r \/ x \in SideEffects(r)
    BY <1>4, <1>6, <1>8
  <2>2. /\ unread' \in [Procs -> SUBSET Names]
        /\ \A q \in Procs : q # p => unread'[q] = unread[q]
        /\ \A x \in unread[p] : x # r => x \in unread'[p]
        /\ s = StatusChanged => r \in unread'[p]
    BY <1>4, <1>8 DEF StatusChanged, StatusFailed
  <2>3. s \in Status /\ s # StatusWouldChange /\ s \in {StatusChanged, StatusFailed}
    BY <1>5, <1>8
  <2> QED BY <1>0, <1>1, <1>2, <1>8, <2>1, <2>2, <2>3, RecordInv
<1> QED BY <1>1, <1>2, <1>3, <1>7, <1>8 DEF PastError

LEMMA ReportInv ==
    ASSUME IInv, NEW p \in Procs, WriteReport(p)
    PROVE  IInv'
<1>1. /\ pc[p] = "check" /\ todo[p] = {}
      /\ Exit(p, ExitCode(results[p], ModeOf(p))) \/ Exit(p, 1)
      /\ UNCHANGED << host, config, args, loaded, todo, results, disturbed, unread >>
  BY DEF WriteReport, Unfinished
<1>2. pc[p] \in Running BY <1>1 DEF Running
<1>3. CASE Exit(p, 1) BY <1>1, <1>2, <1>3, ExitInv
<1>4. ASSUME NEW code, code = ExitCode(results[p], ModeOf(p)), Exit(p, code)
      PROVE  IInv'
  <2>1. code \in {0, 1, 2} BY <1>4 DEF ExitCode
  <2>2. ASSUME code = 0 PROVE Clean(p)
    <3>1. \A i \in DOMAIN results[p] : results[p][i] # StatusFailed
      BY <1>4, <2>2 DEF ExitCode
    <3>2. CASE ModeOf(p) = ModeCheck
      BY <1>4, <2>2, <3>1, <3>2 DEF ExitCode, Changed, Clean
    <3>3. CASE ModeOf(p) = ModeApply
      BY <1>1, <3>1, <3>3 DEF IInv, RunInv, Clean
    <3> QED BY <3>2, <3>3 DEF ModeOf
  <2> QED BY <1>1, <1>2, <1>4, <2>1, <2>2, ExitInv
<1> QED BY <1>1, <1>3, <1>4

\* The steps that only decide to exit or to go on
LEMMA EarlyInv ==
    ASSUME IInv, NEW p \in Procs,
           NoInputs(p) \/ LoadFails(p) \/ EncodeJSON(p) \/ WriteFactsSummary(p)
    PROVE  IInv'
<1>1. /\ pc[p] \in {"load", "encode", "summary"}
      /\ UNCHANGED << host, config, args, loaded, todo, results, disturbed, unread >>
  BY DEF NoInputs, LoadFails, EncodeJSON, WriteFactsSummary
<1>2. ASSUME NEW code \in {0, 1, 2}, Exit(p, code),
             code = 0 => args[p].cmd \notin {"apply", "check"}
      PROVE  IInv'
  BY <1>1, <1>2, ExitInv DEF Running
<1>3. CASE NoInputs(p)
  BY <1>2, <1>3 DEF NoInputs
<1>4. CASE LoadFails(p)
  BY <1>2, <1>4 DEF LoadFails
<1>5. CASE EncodeJSON(p)
  BY <1>2, <1>5 DEF EncodeJSON, IInv, RunInv
<1>6. CASE WriteFactsSummary(p)
  <2>1. CASE Exit(p, 1) BY <1>2, <2>1
  <2>2. CASE Goto(p, "check")
    <3>1. TypeOK'
      BY <1>1, <2>2 DEF IInv, TypeOK, Goto, PCs, Running, ProfOf
    <3>2. \A q \in Procs : q # p => Alone(q) /\ Told(q)
      BY <1>1, <2>2 DEF IInv, TypeOK, Alone, Told, Goto
    <3>3. RunInv(p)'
      <4>1. pc'[p] = "check" /\ pc[p] = "summary"
        BY <1>6, <2>2 DEF IInv, TypeOK, Goto, WriteFactsSummary
      <4>2. Selected(p)' = Selected(p) BY <1>1 DEF Selected, ProfOf
      <4> QED BY <1>1, <4>1, <4>2 DEF IInv, RunInv
    <3> QED BY <3>1, <3>2, <3>3, Frame DEF IInv
  <2> QED BY <1>6, <2>1, <2>2 DEF WriteFactsSummary
<1> QED BY <1>3, <1>4, <1>5, <1>6

-----------------------------------------------------------------------------
(* The environment's steps.                                                 *)

LEMMA KillInv ==
    ASSUME IInv, NEW p \in Procs, Kill(p)
    PROVE  IInv'
<1>1. /\ pc' = [pc EXCEPT ![p] = "idle"]
      /\ UNCHANGED << config, args, loaded, todo, results, exit, unread >>
  BY DEF Kill
<1>2. /\ host' \in [Names -> HostVals] /\ disturbed' \in [Procs -> SUBSET Names]
      /\ \A q \in Procs : q # p => Told(q)
  <2>1. CASE pc[p] # "apply" BY <2>1 DEF Kill, IInv, TypeOK, Told
  <2>2. CASE pc[p] = "apply"
    <3>1. PICK i \in todo[p] :
             /\ \E v \in Partly(ResourceAt(p, i), ProfOf(p)) :
                   host' \in Aftermath(ResourceAt(p, i), v)
             /\ Verdict(p, ResourceAt(p, i))
      BY <2>2 DEF Kill
    <3>2. PICK r \in Names : r = ResourceAt(p, i) BY NextName
    <3>3. PICK v \in HostVals : host' \in Aftermath(r, v)
      BY <3>1, <3>2, AppliedType
    <3>4. host' \in [Names -> HostVals]
      BY <3>3, AftermathShape DEF IInv, TypeOK
    <3> QED BY <3>1, <3>2, <3>4 DEF IInv, TypeOK, Verdict, Told
  <2> QED BY <2>1, <2>2
<1>3. TypeOK'
  BY <1>1, <1>2 DEF Kill, IInv, TypeOK, PCs, UnitState, ProfOf
<1>4. RunInv(p)' BY <1>1 DEF IInv, TypeOK, RunInv
<1>5. \A q \in Procs : q # p => Alone(q) BY <1>1 DEF IInv, TypeOK, Alone
<1> QED BY <1>2, <1>3, <1>4, <1>5, Frame DEF IInv

LEMMA DisturbInv ==
    ASSUME IInv, NEW r \in Disturbable, Disturb(r)
    PROVE  IInv'
<1>1. r \in Names BY InputsAssumption
<1>2. PICK v \in HostVals : host' = [host EXCEPT ![r] = v]
  BY DEF Disturb, HostVals
<1>3. /\ disturbed' = [q \in Procs |-> disturbed[q] \cup {r}]
      /\ UNCHANGED << config, pc, args, loaded, todo, results, exit, unit, unread >>
  BY DEF Disturb
<1>4. TypeOK' BY <1>1, <1>2, <1>3 DEF IInv, TypeOK, ProfOf
<1>5. \A q \in Procs : Alone(q) /\ Told(q)
  BY <1>1, <1>2, <1>3 DEF IInv, TypeOK, Alone, Told
<1> QED BY <1>4, <1>5, Frame DEF IInv

LEMMA RebootInv == IInv /\ Reboot => IInv'
<1> SUFFICES ASSUME IInv, Reboot PROVE IInv' OBVIOUS
<1>1. TypeOK'
  BY SettingsAssumption DEF IInv, TypeOK, Reboot, PCs, UnitState, HostVals, ProfOf
<1>2. \A q \in Procs : RunInv(q)' BY DEF IInv, Reboot, RunInv
<1> QED BY <1>1, <1>2 DEF IInv

\* A step that changes at most the config file and the counters
LEMMA QuietInv ==
    ASSUME IInv, config' \in Configs,
           UNCHANGED << host, pc, args, loaded, todo, results, exit, unit, disturbed,
                        unread >>
    PROVE  IInv'
<1>1. TypeOK' BY DEF IInv, TypeOK, ProfOf
<1>2. \A q \in Procs : Alone(q) /\ Told(q) BY DEF Alone, Told
<1> QED BY <1>1, <1>2, Frame DEF IInv

-----------------------------------------------------------------------------
(* The invariant is inductive, and what follows from it.                    *)

LEMMA NextInv == IInv /\ [Next]_vars => IInv'
<1> SUFFICES ASSUME IInv, [Next]_vars PROVE IInv' OBVIOUS
<1>1. CASE StartUnit
  <2>1. UnitArgs \in Args BY DEF UnitArgs, Args, Commands
  <2> QED BY <1>1, <2>1, ProcsAssumption, StartInv DEF StartUnit, UnitState
<1>2. ASSUME NEW p \in Procs, StartCli(p) PROVE IInv'
  <2>1. PICK a \in CliArgs : Start(p, a) BY <1>2 DEF StartCli
  <2>2. a \in Args /\ unit' \in UnitState
    BY <1>2, InputsAssumption DEF StartCli, IInv, TypeOK
  <2> QED BY <2>1, <2>2, StartInv
<1>3. ASSUME NEW p \in Procs, Step(p) PROVE IInv'
  BY <1>3, EarlyInv, LoadInv, CheckInv, ApplyInv, ReportInv DEF Step
<1>4. ASSUME NEW p \in Procs, Kill(p) PROVE IInv' BY <1>4, KillInv
<1>5. ASSUME NEW r \in Disturbable, Disturb(r) PROVE IInv' BY <1>5, DisturbInv
<1>6. CASE FixConfig BY <1>6, QuietInv DEF FixConfig
<1>7. CASE Reboot BY <1>7, RebootInv
<1>8. CASE UNCHANGED vars
  <2>1. config' \in Configs BY <1>8 DEF vars, IInv, TypeOK
  <2> QED BY <1>8, <2>1, QuietInv DEF vars
<1> QED BY <1>1, <1>2, <1>3, <1>4, <1>5, <1>6, <1>7, <1>8 DEF Next

LEMMA Inductive == Spec => []IInv
BY InitInv, NextInv, PTL DEF Spec

\* Every variable keeps its type: in particular no run ever records a verdict
\* outside the list Build returned for its own profile, although lists of
\* different lengths follow each other in the same process slot.
THEOREM TypeCorrect == Spec => []TypeOK
<1>1. IInv => TypeOK BY DEF IInv
<1> QED BY <1>1, Inductive, PTL

\* What exit code 0 promises holds for every number of overlapping processes,
\* every profile, config and command line, and every fault and disturbance;
\* the exceptions are the three that Excused names
THEOREM ExitZeroTheorem == Spec => []ExitZeroMeansSettled
<1>1. IInv => ExitZeroMeansSettled BY DEF IInv, RunInv, ExitZeroMeansSettled
<1> QED BY <1>1, Inductive, PTL

\* No failure cuts a run short
THEOREM ReportedTheorem == Spec => []EveryResourceReported
<1>1. IInv => EveryResourceReported BY DEF IInv, RunInv, EveryResourceReported
<1> QED BY <1>1, Inductive, PTL

LEMMA InApply ==
    ASSUME IInv, NEW p \in Procs, pc[p] = "apply", NEW i \in todo[p]
    PROVE  MayTouch(p, ResourceAt(p, i))
<1>1. i \in Selected(p) BY DEF IInv, RunInv
<1>2. args[p].cmd = "apply" /\ ~loaded[p].cfg.dryRun
  BY DEF IInv, RunInv, ModeOf, ModeApply, ModeCheck
<1> QED BY <1>1, <1>2 DEF MayTouch, Selected, FilterResources, ResourceAt

Permitted == \A x \in Names :
    host'[x] # host[x] /\ disturbs' = disturbs /\ reboots' = reboots
    => \E p \in Procs : \E r \in Names :
          /\ pc[p] = "apply" /\ pc'[p] # "apply"
          /\ MayTouch(p, r)
          /\ x = r \/ x \in SideEffects(r)

\* The two counters that tell someone else's changes from ours
CountOK == disturbs \in Nat /\ reboots \in Nat

LEMMA Counting == Spec => []CountOK
<1>1. Init => CountOK BY DEF Init, CountOK
<1>2. CountOK /\ [Next]_vars => CountOK'
  <2> SUFFICES ASSUME CountOK, [Next]_vars PROVE CountOK' OBVIOUS
  <2>1. CASE UNCHANGED << disturbs, reboots >> BY <2>1 DEF CountOK
  <2>2. ASSUME NEW r \in Disturbable, Disturb(r) PROVE CountOK'
    <3>1. disturbs' = disturbs + 1 /\ reboots' = reboots BY <2>2 DEF Disturb
    <3> QED BY <3>1 DEF CountOK
  <2>3. CASE Reboot
    <3>1. disturbs' = disturbs /\ reboots' = reboots + 1 BY <2>3 DEF Reboot
    <3> QED BY <3>1 DEF CountOK
  <2>4. ASSUME NEW p \in Procs, Step(p) \/ StartCli(p) \/ Kill(p)
        PROVE  UNCHANGED << disturbs, reboots >>
    <3>1. CASE Step(p)
      BY <3>1 DEF Step, NoInputs, LoadFails, Load, EncodeJSON, CheckNext, bounds,
                  WriteFactsSummary, ApplyNext, WriteReport
    <3>2. CASE StartCli(p) BY <3>2 DEF StartCli, Start
    <3>3. CASE Kill(p) BY <3>3 DEF Kill
    <3> QED BY <2>4, <3>1, <3>2, <3>3
  <2>5. CASE StartUnit BY <2>1, <2>5 DEF StartUnit, Start
  <2>6. CASE FixConfig BY <2>1, <2>6 DEF FixConfig, bounds
  <2>7. CASE UNCHANGED vars BY <2>1, <2>7 DEF vars
  <2> QED BY <2>1, <2>2, <2>3, <2>4, <2>5, <2>6, <2>7 DEF Next
<1> QED BY <1>1, <1>2, PTL DEF Spec

LEMMA PermittedStep == IInv /\ CountOK /\ [Next]_vars => Permitted
<1> SUFFICES ASSUME IInv, CountOK, [Next]_vars PROVE Permitted OBVIOUS
<1>1. ASSUME NEW p \in Procs, pc[p] = "apply", pc'[p] # "apply",
             NEW i \in todo[p], NEW v \in HostVals,
             host' \in Aftermath(ResourceAt(p, i), v)
      PROVE  Permitted
  <2>1. PICK r \in Names : r = ResourceAt(p, i) BY NextName
  <2>2. \A x \in Names : host'[x] # host[x] => x = r \/ x \in SideEffects(r)
    BY <1>1, <2>1, AftermathShape DEF IInv, TypeOK
  <2>3. MayTouch(p, r) BY <1>1, <2>1, InApply
  <2> QED BY <1>1, <2>2, <2>3 DEF Permitted
<1>2. CASE host' = host BY <1>2 DEF Permitted
<1>3. ASSUME NEW p \in Procs, ApplyNext(p) PROVE Permitted
  <2>1. pc[p] = "apply" /\ pc'[p] # "apply"
    BY <1>3 DEF ApplyNext, Record, Goto, IInv, TypeOK
  <2>2. \E i \in todo[p] : \E v \in {Applied(ResourceAt(p, i), ProfOf(p))} \cup
                                     Partly(ResourceAt(p, i), ProfOf(p)) :
            host' \in Aftermath(ResourceAt(p, i), v)
    BY <1>3 DEF ApplyNext
  <2>3. \E i \in todo[p] : \E v \in HostVals : host' \in Aftermath(ResourceAt(p, i), v)
    BY <2>2, NextName, AppliedType
  <2> QED BY <2>1, <2>3, <1>1
<1>4. ASSUME NEW p \in Procs, Kill(p) PROVE Permitted
  <2>1. CASE pc[p] # "apply" BY <2>1, <1>4, <1>2 DEF Kill
  <2>2. CASE pc[p] = "apply"
    <3>1. pc'[p] # "apply" BY <1>4 DEF Kill, IInv, TypeOK
    <3>2. \E i \in todo[p] : \E v \in Partly(ResourceAt(p, i), ProfOf(p)) :
              host' \in Aftermath(ResourceAt(p, i), v)
      BY <1>4, <2>2 DEF Kill
    <3>3. \E i \in todo[p] : \E v \in HostVals : host' \in Aftermath(ResourceAt(p, i), v)
      BY <3>2, NextName, AppliedType
    <3> QED BY <2>2, <3>1, <3>3, <1>1
  <2> QED BY <2>1, <2>2
<1>5. ASSUME NEW p \in Procs, Step(p), ~ApplyNext(p) PROVE host' = host
  BY <1>5 DEF Step, NoInputs, LoadFails, Load, EncodeJSON, WriteFactsSummary,
              CheckNext, WriteReport
<1>6. ASSUME NEW r \in Disturbable, Disturb(r) PROVE Permitted
  <2>1. disturbs' # disturbs
    <3>1. disturbs < MaxDisturbs /\ disturbs' = disturbs + 1 BY <1>6 DEF Disturb
    <3> QED BY <3>1 DEF CountOK
  <2> QED BY <2>1 DEF Permitted
<1>7. ASSUME Reboot PROVE Permitted
  <2>1. reboots' # reboots
    <3>1. reboots' = reboots + 1 BY <1>7 DEF Reboot
    <3> QED BY <3>1 DEF CountOK
  <2> QED BY <2>1 DEF Permitted
<1>8. CASE StartUnit BY <1>2, <1>8 DEF StartUnit, Start
<1>9. ASSUME NEW p \in Procs, StartCli(p) PROVE host' = host
  BY <1>9 DEF StartCli, Start
<1>10. CASE FixConfig BY <1>2, <1>10 DEF FixConfig
<1>11. CASE UNCHANGED vars BY <1>2, <1>11 DEF vars
<1> QED BY <1>2, <1>3, <1>4, <1>5, <1>6, <1>7, <1>8, <1>9, <1>10, <1>11 DEF Next

\* Check mode changes nothing, and an excluded resource changes only as a side
\* effect of one that is not, however runs overlap
THEOREM PermittedTheorem == Spec => OnlyPermittedChanges
<1>1. IInv /\ CountOK /\ [Next]_vars => [Permitted]_vars BY PermittedStep
<1>2. [][Permitted]_vars <=> OnlyPermittedChanges
  BY DEF OnlyPermittedChanges, Permitted
<1> QED BY <1>1, <1>2, Inductive, Counting, PTL DEF Spec
=============================================================================
