-------------------------------- MODULE Facts --------------------------------
(***************************************************************************)
(* Facts about the instance (internal/facts): Gather asks IMDS for the      *)
(* identity, looks into the cache file, asks the EC2 API and falls back to  *)
(* what the kernel reports.  Several runs gather at the same time, over     *)
(* restarts, resizes of the instance (same id, another type) and instances  *)
(* launched from an image of this disk (another id, the same cache file).   *)
(*                                                                          *)
(* An instance is its id and its type.  Sizing is abstracted to the type it *)
(* describes; source tells exact facts from degraded ones.  saveCache uses  *)
(* os.WriteFile, which truncates and then writes in place, so the file may  *)
(* be empty, torn or mixed when it is read; JSON cut short or followed by   *)
(* the rest of a longer document does not parse.                            *)
(***************************************************************************)
EXTENDS Integers

CONSTANTS
    Procs, Ids, Types,
    NoId,        \* the empty string: facts without an identity
    TTLs,        \* facts.cacheTTL: 0 is "never expires"
    MaxNow,      \* bound: clock ticks
    MaxFaults,   \* bound: requests and system calls that fail, kills
    MaxLives     \* bound: resizes and launches from an image

ASSUME IdsAssumption == NoId \notin Ids /\ NoId \notin Types /\ Ids # {} /\ Types # {}
ASSUME FactsBounds == TTLs \subseteq Nat /\ {MaxNow, MaxFaults, MaxLives} \subseteq Nat

VARIABLES
    instance,   \* the instance this disk is attached to now
    since,      \* when it got its type
    cache,      \* /var/lib/node-configurator/facts.json: the envelope it parses
                \* to, as a set; empty if there is none or it does not parse
    bytes,      \* the file has some bytes in it
    now, ttl,
    pc, refresh,
    identity,   \* identity[p]: what IMDS answered
    facts,      \* facts[p]: what Gather has so far, or returns
    savedAt,    \* savedAt[p]: CachedAt of the envelope p writes
    failed,     \* history: one of p's own requests failed
    readAt,     \* history: when p looked into the cache
    settled,    \* history: a -refresh-facts run saved its facts since `since`
    before,     \* history: settled, when p began
    faults, lives

run    == << pc, refresh, identity, facts, savedAt, failed, readAt, before >>
file   == << cache, bytes >>
vars   == << instance, since, file, now, ttl, run, settled, faults, lives >>

Instance == [id : Ids, type : Types]
FactsType == [id : Ids \cup {NoId}, type : Types \cup {NoId}, sizing : Types,
              source : {"ec2-api", "local-fallback"}]

-----------------------------------------------------------------------------
(* Where facts come from.                                                   *)

\* LocalFallback: what the running kernel sees
LocalFallback == [id |-> NoId, type |-> NoId, sizing |-> instance.type,
                  source |-> "local-fallback"]

\* The API does not answer: identity from IMDS, sizing from the kernel
Degraded(p) == [id |-> identity[p].id, type |-> identity[p].type,
                sizing |-> LocalFallback.sizing, source |-> "local-fallback"]

\* DescribeInstanceTypes of the type IMDS named
Enriched(p) == [id |-> identity[p].id, type |-> identity[p].type,
                sizing |-> identity[p].type, source |-> "ec2-api"]

\* Mutants: any cached facts will do; they never expire
CachedAnyId(p) == {e \in cache : ttl > 0 => now - e.at <= ttl}
CachedForEver(p) == {e \in cache : e.facts.id = identity[p].id}

\* loadCache: a file that parses, of this instance, not expired
LoadCache(p) == {e \in cache : /\ identity[p].id # NoId
                               /\ e.facts.id = identity[p].id
                               /\ ttl > 0 => now - e.at <= ttl}

-----------------------------------------------------------------------------
Init ==
    /\ instance \in Instance /\ since = 0
    /\ cache = {} /\ bytes = FALSE /\ now = 0 /\ ttl \in TTLs
    /\ pc = [p \in Procs |-> "idle"] /\ refresh = [p \in Procs |-> FALSE]
    /\ identity = [p \in Procs |-> instance]
    /\ facts = [p \in Procs |-> LocalFallback]
    /\ savedAt = [p \in Procs |-> 0] /\ failed = [p \in Procs |-> FALSE]
    /\ readAt = [p \in Procs |-> 0] /\ before = [p \in Procs |-> FALSE]
    /\ settled = FALSE /\ faults = 0 /\ lives = 0

Goto(p, l) == pc' = [pc EXCEPT ![p] = l]
Fault      == faults < MaxFaults /\ faults' = faults + 1
Fails(p)   == Fault /\ failed' = [failed EXCEPT ![p] = TRUE]
Works      == UNCHANGED << faults, failed >>
Have(p, f) == facts' = [facts EXCEPT ![p] = f]
World      == << instance, since, now, ttl, lives >>

\* A run begins, with or without -refresh-facts
Begin(p) ==
    /\ pc[p] \in {"idle", "done"} /\ Goto(p, "identity")
    /\ \E r \in BOOLEAN : refresh' = [refresh EXCEPT ![p] = r]
    /\ failed' = [failed EXCEPT ![p] = FALSE]
    /\ before' = [before EXCEPT ![p] = settled]
    /\ UNCHANGED << World, file, identity, facts, savedAt, readAt, settled, faults >>

\* gatherIdentity; without IMDS the cache is not looked at
GatherIdentity(p) ==
    /\ pc[p] = "identity"
    /\ \/ /\ identity' = [identity EXCEPT ![p] = instance]
          /\ Goto(p, IF refresh[p] THEN "api" ELSE "cache")
          /\ Works /\ UNCHANGED facts
       \/ /\ Fails(p) /\ Have(p, LocalFallback) /\ Goto(p, "done")
          /\ UNCHANGED identity
    /\ UNCHANGED << World, file, refresh, savedAt, readAt, before, settled >>

\* The cache answers, or the API is asked; a file that cannot be read is a miss
ReadCache(p) ==
    /\ pc[p] = "cache"
    /\ \/ \E e \in LoadCache(p) : Have(p, e.facts) /\ Goto(p, "done") /\ Works
       \/ LoadCache(p) = {} /\ Goto(p, "api") /\ Works /\ UNCHANGED facts
       \/ Fault /\ Goto(p, "api") /\ UNCHANGED << facts, failed >>
    /\ readAt' = [readAt EXCEPT ![p] = now]
    /\ UNCHANGED << World, file, refresh, identity, savedAt, before, settled >>

\* Mutant: degraded facts are cached too
CacheDegraded(p) ==
    /\ pc[p] = "api"
    /\ \/ Have(p, Enriched(p)) /\ Works
       \/ Have(p, Degraded(p)) /\ Fails(p)
    /\ Goto(p, "open") /\ savedAt' = [savedAt EXCEPT ![p] = now]
    /\ UNCHANGED << World, file, refresh, identity, readAt, before, settled >>

\* gatherInstanceTypeInfo; degraded facts are returned and not cached
GatherInstanceTypeInfo(p) ==
    /\ pc[p] = "api"
    /\ \/ /\ Have(p, Enriched(p)) /\ Goto(p, "open") /\ Works
          /\ savedAt' = [savedAt EXCEPT ![p] = now]
       \/ /\ Have(p, Degraded(p)) /\ Goto(p, "done") /\ Fails(p)
          /\ UNCHANGED savedAt
    /\ UNCHANGED << World, file, refresh, identity, readAt, before, settled >>

\* saveCache: os.WriteFile opens and truncates; an error is only a warning
SaveOpen(p) ==
    /\ pc[p] = "open"
    /\ \/ cache' = {} /\ bytes' = FALSE /\ Goto(p, "write") /\ UNCHANGED faults
       \/ Goto(p, "done") /\ Fault /\ UNCHANGED file
    /\ UNCHANGED << World, refresh, identity, facts, savedAt, failed, readAt,
                    before, settled >>

\* Mutant: the file is appended to
SaveAppends(p) ==
    /\ pc[p] = "write" /\ Goto(p, "done") /\ bytes' = TRUE
    /\ cache' = cache \cup {[facts |-> facts[p], at |-> savedAt[p]]}
    /\ UNCHANGED << World, refresh, identity, facts, savedAt, failed, readAt, before,
                    settled, faults >>

\* ... and writes from the start of the file: over what another run has put
\* there since, whose longer tail may remain
SaveWrite(p) ==
    /\ pc[p] = "write" /\ Goto(p, "done") /\ bytes' = TRUE
    /\ \/ /\ cache' = {[facts |-> facts[p], at |-> savedAt[p]]}
          /\ settled' = (settled \/ refresh[p]) /\ UNCHANGED faults
       \/ bytes /\ cache' = {} /\ UNCHANGED << faults, settled >>
       \/ cache' = {} /\ Fault /\ UNCHANGED settled
    /\ UNCHANGED << World, refresh, identity, facts, savedAt, failed, readAt, before >>

Gather(p) == \/ GatherIdentity(p) \/ ReadCache(p) \/ GatherInstanceTypeInfo(p)
             \/ SaveOpen(p) \/ SaveWrite(p)

-----------------------------------------------------------------------------
(* The environment.                                                         *)

Kill(p) ==
    /\ pc[p] \notin {"idle", "done"} /\ Fault /\ Goto(p, "idle")
    /\ UNCHANGED << World, file, refresh, identity, facts, savedAt, failed,
                    readAt, before, settled >>

Tick ==
    /\ now < MaxNow /\ now' = now + 1
    /\ UNCHANGED << instance, since, file, ttl, run, settled, faults, lives >>

\* Stop, change, start: the same instance with another type, or another
\* instance launched from an image of the disk
NewLife ==
    /\ lives < MaxLives /\ lives' = lives + 1
    /\ instance' \in Instance \ {instance}
    /\ since' = now /\ settled' = FALSE
    /\ pc' = [p \in Procs |-> "idle"] /\ facts' = [p \in Procs |-> LocalFallback]
    /\ savedAt' = [p \in Procs |-> 0] /\ readAt' = [p \in Procs |-> 0]
    /\ before' = [p \in Procs |-> FALSE] /\ failed' = [p \in Procs |-> FALSE]
    /\ UNCHANGED << file, now, ttl, refresh, identity, faults >>

Next == \/ \E p \in Procs : Begin(p) \/ Gather(p) \/ Kill(p)
        \/ Tick \/ NewLife

Spec == Init /\ [][Next]_vars

-----------------------------------------------------------------------------
PCs == {"idle", "identity", "cache", "api", "open", "write", "done"}

TypeOK ==
    /\ instance \in Instance /\ since \in Nat /\ now \in Nat /\ ttl \in TTLs
    /\ \A e \in cache : e.facts \in FactsType /\ e.at \in Nat
    /\ \A e, g \in cache : e = g
    /\ bytes \in BOOLEAN
    /\ pc \in [Procs -> PCs] /\ refresh \in [Procs -> BOOLEAN]
    /\ identity \in [Procs -> Instance] /\ facts \in [Procs -> FactsType]
    /\ savedAt \in [Procs -> Nat] /\ readAt \in [Procs -> Nat]
    /\ failed \in [Procs -> BOOLEAN] /\ before \in [Procs -> BOOLEAN]
    /\ settled \in BOOLEAN /\ faults \in Nat /\ lives \in Nat

\* Gather never answers with another instance's facts, although the cache file
\* may come with the image of another instance's disk.
NoForeignFacts ==
    \A p \in Procs : pc[p] = "done" => facts[p].id \in {NoId, instance.id}

\* A run whose own requests were answered has exact facts, whatever failed in
\* earlier runs or fails in overlapping ones: "degraded result: don't cache
\* it" (facts.go), and sizing always belongs to the type it is reported with.
DegradedOnlyByOwnFailure ==
    \A p \in Procs : pc[p] = "done" /\ ~failed[p] =>
        facts[p].source = "ec2-api" /\ facts[p].sizing = facts[p].type

\* Facts of the type the instance had before a resize are only ever answered
\* by a run without -refresh-facts that began before any such run had saved
\* its facts, and with a cacheTTL only until that has passed since the resize.
StaleIsExcused ==
    \A p \in Procs :
        pc[p] = "done" /\ facts[p].sizing # instance.type =>
            /\ ~refresh[p] /\ ~before[p]
            /\ ttl > 0 => readAt[p] - since <= ttl
=============================================================================
