---------------------------- MODULE FactsProofs ----------------------------
(***************************************************************************)
(* The properties of Facts for every set of processes, instances, types,    *)
(* TTLs and bounds.                                                         *)
(***************************************************************************)
EXTENDS Facts, TLAPS

\* Whatever parses was exact when it was saved.  If it is this instance's and
\* yet not of its type, it is older than the resize and no -refresh-facts run
\* has saved since.
CacheInv ==
    \A e \in cache :
        /\ e.facts.source = "ec2-api" /\ e.facts.sizing = e.facts.type
        /\ e.at <= now
        /\ e.facts.id = instance.id /\ e.facts.sizing # instance.type =>
              ~settled /\ e.at <= since

\* What a process in the middle of Gather holds is about this instance
Exact(f) == /\ f.id = instance.id /\ f.type = instance.type
            /\ f.sizing = instance.type /\ f.source = "ec2-api"

ProcInv(p) ==
    /\ pc[p] \in {"cache", "api"} => identity[p] = instance
    /\ pc[p] = "cache" => ~refresh[p]
    /\ pc[p] \in {"open", "write"} => Exact(facts[p]) /\ savedAt[p] <= now
    /\ before[p] => settled
    /\ pc[p] = "done" =>
          /\ facts[p].id \in {NoId, instance.id}
          /\ ~failed[p] => facts[p].source = "ec2-api" /\ facts[p].sizing = facts[p].type
          /\ facts[p].sizing # instance.type =>
                /\ ~refresh[p] /\ ~before[p]
                /\ ttl > 0 => readAt[p] - since <= ttl

IInv == TypeOK /\ since <= now /\ CacheInv /\ \A p \in Procs : ProcInv(p)

LEMMA LocalType == TypeOK => LocalFallback \in FactsType
BY DEF TypeOK, LocalFallback, FactsType, Instance

LEMMA EnrichedType ==
    ASSUME TypeOK, NEW p \in Procs
    PROVE  Enriched(p) \in FactsType /\ Degraded(p) \in FactsType
BY DEF TypeOK, LocalFallback, Enriched, Degraded, FactsType, Instance

LEMMA InitInv == Init => IInv
<1> SUFFICES ASSUME Init PROVE IInv OBVIOUS
<1>1. TypeOK
  BY FactsBounds DEF Init, TypeOK, LocalFallback, FactsType, Instance, PCs
<1>2. since <= now /\ CacheInv BY DEF Init, CacheInv
<1>3. \A p \in Procs : ProcInv(p) BY DEF Init, ProcInv
<1> QED BY <1>1, <1>2, <1>3 DEF IInv

-----------------------------------------------------------------------------
(* Type correctness, one action at a time.                                  *)

LEMMA TypeStep == TypeOK /\ [Next]_vars => TypeOK'
<1> SUFFICES ASSUME TypeOK, [Next]_vars PROVE TypeOK' OBVIOUS
<1> USE DEF TypeOK, PCs, World, file, run
<1>1. ASSUME NEW p \in Procs, Begin(p) PROVE TypeOK'
  BY <1>1 DEF Begin, Goto
<1>2. ASSUME NEW p \in Procs, GatherIdentity(p) PROVE TypeOK'
  <2>1. facts' \in [Procs -> FactsType] /\ identity' \in [Procs -> Instance]
    BY <1>2, LocalType DEF GatherIdentity, Have
  <2>2. pc' \in [Procs -> PCs] BY <1>2 DEF GatherIdentity, Goto
  <2>3. failed' \in [Procs -> BOOLEAN] BY <1>2 DEF GatherIdentity, Works, Fails
  <2>4. faults' \in Nat BY <1>2 DEF GatherIdentity, Works, Fails, Fault
  <2>5. UNCHANGED << World, file, refresh, savedAt, readAt, before, settled >>
    BY <1>2 DEF GatherIdentity
  <2> QED BY <2>1, <2>2, <2>3, <2>4, <2>5
<1>3. ASSUME NEW p \in Procs, ReadCache(p) PROVE TypeOK'
  BY <1>3, FactsBounds DEF ReadCache, LoadCache, Goto, Works, Fault, Have
<1>4. ASSUME NEW p \in Procs, GatherInstanceTypeInfo(p) PROVE TypeOK'
  <2>1. facts' \in [Procs -> FactsType] /\ savedAt' \in [Procs -> Nat]
    BY <1>4, EnrichedType DEF GatherInstanceTypeInfo, Have
  <2>2. pc' \in [Procs -> PCs] BY <1>4 DEF GatherInstanceTypeInfo, Goto
  <2>3. failed' \in [Procs -> BOOLEAN] BY <1>4 DEF GatherInstanceTypeInfo, Works, Fails
  <2>4. faults' \in Nat BY <1>4 DEF GatherInstanceTypeInfo, Works, Fails, Fault
  <2>5. UNCHANGED << World, file, refresh, identity, readAt, before, settled >>
    BY <1>4 DEF GatherInstanceTypeInfo
  <2> QED BY <2>1, <2>2, <2>3, <2>4, <2>5
<1>5. ASSUME NEW p \in Procs, SaveOpen(p) PROVE TypeOK'
  <2>1. pc' \in [Procs -> PCs] /\ faults' \in Nat BY <1>5 DEF SaveOpen, Goto, Fault
  <2>2. (cache' = {} /\ bytes' = FALSE) \/ UNCHANGED file BY <1>5 DEF SaveOpen
  <2>3. UNCHANGED << World, refresh, identity, facts, savedAt, failed, readAt,
                     before, settled >>
    BY <1>5 DEF SaveOpen
  <2> QED BY <2>1, <2>2, <2>3
<1>6. ASSUME NEW p \in Procs, SaveWrite(p) PROVE TypeOK'
  BY <1>6, FactsBounds DEF SaveWrite, Goto, Fault
<1>7. ASSUME NEW p \in Procs, Kill(p) PROVE TypeOK'
  BY <1>7, FactsBounds DEF Kill, Goto, Fault
<1>8. CASE Tick BY <1>8 DEF Tick
<1>9. CASE NewLife
  <2>1. facts' \in [Procs -> FactsType] BY <1>9, LocalType DEF NewLife
  <2>2. instance' \in Instance BY <1>9 DEF NewLife
  <2>3. since' \in Nat /\ lives' \in Nat /\ settled' = FALSE BY <1>9 DEF NewLife
  <2>4. /\ pc' \in [Procs -> PCs] /\ savedAt' \in [Procs -> Nat] /\ readAt' \in [Procs -> Nat]
        /\ before' \in [Procs -> BOOLEAN] /\ failed' \in [Procs -> BOOLEAN]
    BY <1>9 DEF NewLife
  <2>5. UNCHANGED << cache, bytes, now, ttl, refresh, identity, faults >>
    BY <1>9 DEF NewLife
  <2> QED BY <2>1, <2>2, <2>3, <2>4, <2>5
<1>10. CASE UNCHANGED vars BY <1>10 DEF vars
<1> QED BY <1>1, <1>2, <1>3, <1>4, <1>5, <1>6, <1>7, <1>8, <1>9, <1>10
        DEF Next, Gather

-----------------------------------------------------------------------------
(* The rest of the invariant.                                               *)

\* A process that does not move, while the instance and the clock's past stay
LEMMA Frame ==
    ASSUME NEW q \in Procs, ProcInv(q), instance' = instance, since' = since,
           ttl' = ttl, settled => settled', now <= now', TypeOK, TypeOK',
           savedAt'[q] = savedAt[q],
           pc'[q] = pc[q], refresh'[q] = refresh[q], identity'[q] = identity[q],
           facts'[q] = facts[q], failed'[q] = failed[q], readAt'[q] = readAt[q],
           before'[q] = before[q]
    PROVE  ProcInv(q)'
<1>1. savedAt[q] <= now => savedAt'[q] <= now' BY DEF TypeOK
<1> QED BY <1>1 DEF ProcInv, Exact

LEMMA GatherStep ==
    ASSUME IInv, NEW p \in Procs, Begin(p) \/ Gather(p) \/ Kill(p)
    PROVE  CacheInv' /\ ProcInv(p)'
<1> USE DEF IInv, World, file
<1>0. ProcInv(p) OBVIOUS
<1>1. CASE Begin(p)
  <2>1. CacheInv' BY <1>1 DEF Begin, CacheInv
  <2>2. ProcInv(p)' BY <1>1 DEF Begin, Goto, ProcInv, TypeOK
  <2> QED BY <2>1, <2>2
<1>2. CASE GatherIdentity(p)
  <2>1. CacheInv' BY <1>2 DEF GatherIdentity, CacheInv
  <2>2. ProcInv(p)'
    BY <1>0, <1>2, IdsAssumption DEF GatherIdentity, Goto, Works, Fails, Have,
       LocalFallback, ProcInv, TypeOK
  <2> QED BY <2>1, <2>2
<1>3. CASE ReadCache(p)
  <2>1. CacheInv' BY <1>3 DEF ReadCache, CacheInv
  <2>2. CASE pc'[p] = "api"
    <3>1. /\ pc[p] = "cache" /\ before'[p] = before[p] /\ identity'[p] = identity[p]
          /\ instance' = instance /\ settled' = settled
      BY <1>3 DEF ReadCache
    <3> QED BY <1>0, <2>1, <2>2, <3>1 DEF ProcInv
  <2>3. CASE pc'[p] # "api"
    <3>1. PICK e \in LoadCache(p) : Have(p, e.facts) /\ Goto(p, "done") /\ Works
      BY <1>3, <2>3 DEF ReadCache, Goto, TypeOK
    <3>2. /\ e \in cache /\ e.facts.id = identity[p].id
          /\ ttl > 0 => now - e.at <= ttl
      BY <3>1 DEF LoadCache
    <3>3. /\ facts'[p] = e.facts /\ pc'[p] = "done" /\ readAt'[p] = now
          /\ failed'[p] = failed[p] /\ refresh'[p] = refresh[p] /\ before'[p] = before[p]
          /\ instance' = instance /\ since' = since /\ ttl' = ttl /\ settled' = settled
      BY <1>3, <3>1 DEF ReadCache, Have, Goto, Works, TypeOK
    <3>4. pc[p] = "cache" /\ identity[p] = instance /\ ~refresh[p]
      BY <1>0, <1>3 DEF ReadCache, ProcInv
    <3>5. /\ e.facts.source = "ec2-api" /\ e.facts.sizing = e.facts.type
          /\ e.facts.sizing # instance.type => ~settled /\ e.at <= since
      BY <3>2, <3>4 DEF CacheInv
    <3>6. ASSUME e.facts.sizing # instance.type, ttl > 0 PROVE now - since <= ttl
      <4>1. e.at \in Int /\ since \in Int /\ now \in Int /\ ttl \in Int
        BY <3>2, FactsBounds DEF TypeOK
      <4>2. now - e.at <= ttl /\ e.at <= since BY <3>2, <3>5, <3>6
      <4> QED BY <4>1, <4>2
    <3>7. ~before[p] \/ settled BY <1>0 DEF ProcInv
    <3> QED BY <2>1, <3>2, <3>3, <3>4, <3>5, <3>6, <3>7 DEF ProcInv
  <2> QED BY <2>1, <2>2, <2>3
<1>4. CASE GatherInstanceTypeInfo(p)
  <2>1. CacheInv' BY <1>4 DEF GatherInstanceTypeInfo, CacheInv
  <2>2. identity[p] = instance
    BY <1>0, <1>4 DEF GatherInstanceTypeInfo, ProcInv
  <2>3. ProcInv(p)'
    BY <1>0, <1>4, <2>2 DEF GatherInstanceTypeInfo, Goto, Works, Fails, Have,
       Enriched, Degraded, LocalFallback, Exact, ProcInv, TypeOK
  <2> QED BY <2>1, <2>3
<1>5. CASE SaveOpen(p)
  <2>1. CacheInv' BY <1>5 DEF SaveOpen, CacheInv
  <2>2. ProcInv(p)' BY <1>0, <1>5 DEF SaveOpen, Goto, Exact, ProcInv, TypeOK
  <2> QED BY <2>1, <2>2
<1>6. CASE SaveWrite(p)
  <2>1. Exact(facts[p]) /\ savedAt[p] <= now BY <1>0, <1>6 DEF SaveWrite, ProcInv
  <2>2. cache' = {} \/ cache' = {[facts |-> facts[p], at |-> savedAt[p]]}
    BY <1>6 DEF SaveWrite
  <2>3. CacheInv' BY <1>6, <2>1, <2>2 DEF SaveWrite, CacheInv, Exact
  <2>4. ProcInv(p)'
    BY <1>0, <1>6, <2>1 DEF SaveWrite, Goto, Exact, ProcInv, TypeOK
  <2> QED BY <2>3, <2>4
<1>7. CASE Kill(p)
  <2>1. CacheInv' BY <1>7 DEF Kill, CacheInv
  <2>2. ProcInv(p)' BY <1>0, <1>7 DEF Kill, Goto, ProcInv, TypeOK
  <2> QED BY <2>1, <2>2
<1> QED BY <1>1, <1>2, <1>3, <1>4, <1>5, <1>6, <1>7 DEF Gather

\* ... and leaves every other process as it was
LEMMA OthersStep ==
    ASSUME IInv, NEW p \in Procs, Begin(p) \/ Gather(p) \/ Kill(p),
           NEW q \in Procs, q # p, TypeOK'
    PROVE  ProcInv(q)'
<1> DEFINE Still == /\ instance' = instance /\ since' = since /\ ttl' = ttl /\ now' = now
                    /\ settled => settled'
                    /\ pc'[q] = pc[q] /\ refresh'[q] = refresh[q]
                    /\ before'[q] = before[q] /\ failed'[q] = failed[q]
                    /\ readAt'[q] = readAt[q] /\ savedAt'[q] = savedAt[q]
                    /\ identity'[q] = identity[q] /\ facts'[q] = facts[q]
<1> USE DEF IInv, TypeOK, World
<1>1. ASSUME Begin(p) PROVE Still
  BY <1>1 DEF Begin, Goto
<1>2. ASSUME GatherIdentity(p) PROVE Still
  BY <1>2 DEF GatherIdentity, Goto, Works, Fails, Have
<1>3. ASSUME ReadCache(p) PROVE Still
  BY <1>3 DEF ReadCache, Goto, Works, Have
<1>4. ASSUME GatherInstanceTypeInfo(p) PROVE Still
  BY <1>4 DEF GatherInstanceTypeInfo, Goto, Works, Fails, Have
<1>5. ASSUME SaveOpen(p) PROVE Still
  BY <1>5 DEF SaveOpen, Goto
<1>6. ASSUME SaveWrite(p) PROVE Still
  BY <1>6 DEF SaveWrite, Goto
<1>7. ASSUME Kill(p) PROVE Still
  BY <1>7 DEF Kill, Goto
<1>8. Still BY <1>1, <1>2, <1>3, <1>4, <1>5, <1>6, <1>7 DEF Gather
<1>9. ProcInv(q) /\ now <= now' BY <1>8
<1> QED BY <1>8, <1>9, Frame

LEMMA NextInv == IInv /\ [Next]_vars => IInv'
<1> SUFFICES ASSUME IInv, [Next]_vars PROVE IInv' OBVIOUS
<1>1. TypeOK' BY TypeStep DEF IInv
<1>2. ASSUME NEW p \in Procs, Begin(p) \/ Gather(p) \/ Kill(p) PROVE IInv'
  <2>1. since' <= now'
    BY <1>2 DEF Begin, Gather, Kill, GatherIdentity, ReadCache,
       GatherInstanceTypeInfo, SaveOpen, SaveWrite, World, IInv
  <2>2. CacheInv' /\ ProcInv(p)' BY <1>2, GatherStep
  <2>3. \A q \in Procs : ProcInv(q)' BY <1>1, <1>2, <2>2, OthersStep
  <2> QED BY <1>1, <2>1, <2>2, <2>3 DEF IInv
<1>3. CASE Tick
  <2>1. since' <= now' BY <1>3 DEF Tick, IInv, TypeOK
  <2>2. CacheInv' BY <1>3 DEF Tick, IInv, CacheInv, file, TypeOK
  <2>3. \A q \in Procs : ProcInv(q)' 
    <3>1. now <= now' BY <1>3 DEF Tick, IInv, TypeOK
    <3> QED BY <1>1, <1>3, <3>1, Frame DEF Tick, IInv, run
  <2> QED BY <1>1, <2>1, <2>2, <2>3 DEF IInv
<1>4. CASE NewLife
  <2>1. since' <= now' BY <1>4 DEF NewLife, IInv, TypeOK
  <2>2. CacheInv'
    <3> SUFFICES ASSUME NEW e \in cache'
                 PROVE  /\ e.facts.source = "ec2-api" /\ e.facts.sizing = e.facts.type
                        /\ ~settled' /\ e.at <= since' /\ e.at <= now'
      BY DEF CacheInv
    <3> QED BY <1>4 DEF NewLife, IInv, CacheInv, file, TypeOK
  <2>3. \A q \in Procs : ProcInv(q)' BY <1>4 DEF NewLife, ProcInv
  <2> QED BY <1>1, <2>1, <2>2, <2>3 DEF IInv
<1>5. CASE UNCHANGED vars
  <2>1. since' <= now' /\ CacheInv' BY <1>5 DEF vars, file, IInv, CacheInv
  <2>2. \A q \in Procs : ProcInv(q)' 
    <3>1. now <= now' BY <1>5 DEF vars, IInv, TypeOK
    <3> QED BY <1>1, <1>5, <3>1, Frame DEF vars, run, IInv
  <2> QED BY <1>1, <2>1, <2>2 DEF IInv
<1> QED BY <1>2, <1>3, <1>4, <1>5 DEF Next

LEMMA Invariant == Spec => []IInv
BY InitInv, NextInv, PTL DEF Spec

-----------------------------------------------------------------------------
\* Every reachable state of Facts is well typed.
THEOREM TypeCorrect == Spec => []TypeOK
<1>1. IInv => TypeOK BY DEF IInv
<1> QED BY <1>1, Invariant, PTL

\* Gather never answers with another instance's facts, for any number of runs
\* and of instances that share the disk image.
THEOREM NoForeignTheorem == Spec => []NoForeignFacts
<1>1. IInv => NoForeignFacts BY DEF IInv, ProcInv, NoForeignFacts
<1> QED BY <1>1, Invariant, PTL

\* Degraded facts are answered only to a run whose own request failed: no
\* failure of another run is remembered.
THEOREM DegradedTheorem == Spec => []DegradedOnlyByOwnFailure
<1>1. IInv => DegradedOnlyByOwnFailure
  BY DEF IInv, ProcInv, DegradedOnlyByOwnFailure
<1> QED BY <1>1, Invariant, PTL

\* Facts from before a resize are answered only without -refresh-facts, before
\* such a run has saved, and within the TTL.
THEOREM StaleTheorem == Spec => []StaleIsExcused
<1>1. IInv => StaleIsExcused BY DEF IInv, ProcInv, StaleIsExcused
<1> QED BY <1>1, Invariant, PTL
=============================================================================
