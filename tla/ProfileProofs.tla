---------------------------- MODULE ProfileProofs ----------------------------
(***************************************************************************)
(* What Profile's operators compute, for any facts and any config.          *)
(***************************************************************************)
EXTENDS Profile, TLAPS

-----------------------------------------------------------------------------
(* The layers of Build.                                                     *)

\* The sysctls before the operator's, and with them
Computed(f, c) ==
    LET scaled == Over(ScalingSysctls(f), BaseSysctls)
    IN  IF c.legacyIPTables THEN Over([k \in BridgeKeys |-> << 1 >>], scaled)
        ELSE scaled
Configured(f, c) == Over(c.sysctls, Computed(f, c))
WithHuge(c) == c.hugeEnabled /\ c.hugeCount > 0

LEMMA BuildSysctls ==
    ASSUME NEW f, NEW c, IsConfig(c)
    PROVE  Build(f, ToProfileOverrides(c)).sysctls =
               IF WithHuge(c)
               THEN Over([k \in {"vm.nr_hugepages"} |-> << c.hugeCount >>],
                         Configured(f, c))
               ELSE Configured(f, c)
BY SMT DEF Build, ToProfileOverrides, ApplyOverrides, ApplyCiliumPrereqs, ApplyScaling,
       NewBaseProfile, Computed, Configured, WithHuge, IsConfig

LEMMA BuildFields ==
    ASSUME NEW f, NEW c, IsConfig(c)
    PROVE  LET p == Build(f, ToProfileOverrides(c))
           IN  /\ c.noFile > 0 => p.noFile = c.noFile
               /\ p.irq = Given(c.irqAffinity, f.vcpus > 1)
               /\ p.rps = Given(c.rps, TRUE)
               /\ p.xps = Given(c.xps, TRUE)
               /\ p.ringBufferMax = Given(c.ringBufferMax, TRUE)
               /\ p.governor = Given(c.governor, "performance")
               /\ p.ioEnabled = IF c.ioScheduler = {} THEN TRUE ELSE c.ioScheduler # {""}
               /\ c.legacyIPTables => "br_netfilter" \in p.modules
BY SMT DEF Build, ToProfileOverrides, ApplyOverrides, ApplyCiliumPrereqs, ApplyScaling,
       NewBaseProfile, IsConfig

LEMMA BuildNoFile ==
    ASSUME NEW f, NEW c, IsConfig(c)
    PROVE  /\ Build(f, ToProfileOverrides(c)).noFile \in Nat
           /\ Build(f, ToProfileOverrides(c)).noFile > 0
BY SMT DEF Build, ToProfileOverrides, ApplyOverrides, ApplyCiliumPrereqs, ApplyScaling,
       NewBaseProfile, IsConfig

\* A key the operator and the tunnels leave alone has the scaled value
LEMMA ScaledValue ==
    ASSUME NEW f, NEW c, IsConfig(c), NEW k \in ScalingKeys \ DOMAIN c.sysctls
    PROVE  Build(f, ToProfileOverrides(c)).sysctls[k] = ScalingSysctls(f)[k]
<1>1. DOMAIN ScalingSysctls(f) = ScalingKeys BY SMT DEF ScalingSysctls
<1>2. k \notin BridgeKeys /\ k # "vm.nr_hugepages"
    BY SMT DEF ScalingKeys, BridgeKeys
<1>3. k \in DOMAIN Over(ScalingSysctls(f), BaseSysctls)
      /\ Over(ScalingSysctls(f), BaseSysctls)[k] = ScalingSysctls(f)[k]
    BY <1>1, SMT DEF Over
<1>4. k \in DOMAIN Computed(f, c) /\ Computed(f, c)[k] = ScalingSysctls(f)[k]
    BY <1>2, <1>3, SMT DEF Computed, Over
<1>5. k \in DOMAIN Configured(f, c) /\ Configured(f, c)[k] = ScalingSysctls(f)[k]
    BY <1>4, SMT DEF Configured, Over
<1>6. Build(f, ToProfileOverrides(c)).sysctls =
        IF WithHuge(c)
        THEN Over([j \in {"vm.nr_hugepages"} |-> << c.hugeCount >>], Configured(f, c))
        ELSE Configured(f, c)
    BY BuildSysctls, Zenon
<1> QED BY <1>2, <1>5, <1>6, SMT DEF Over

-----------------------------------------------------------------------------
(* The scaling formulas.                                                    *)

LEMMA ProductMonotone ==
    ASSUME NEW a \in Nat, NEW b \in Nat, NEW c \in Nat, NEW d \in Nat, a <= b, c <= d
    PROVE  a * c \in Nat /\ a * c <= b * d
<1>1. a * c <= b * c
  <2>1. PICK n \in Nat : b = a + n BY SMT
  <2>2. b * c = a * c + n * c BY <2>1, SMT
  <2>3. n * c \in Nat /\ a * c \in Nat BY SMT
  <2> QED BY <2>2, <2>3, SMT
<1>2. b * c <= b * d
  <2>1. PICK n \in Nat : d = c + n BY SMT
  <2>2. b * d = b * c + b * n BY <2>1, SMT
  <2>3. b * n \in Nat /\ b * c \in Nat BY SMT
  <2> QED BY <2>2, <2>3, SMT
<1>3. a * c \in Nat /\ b * c \in Nat /\ b * d \in Nat BY SMT
<1> QED BY <1>1, <1>2, <1>3, SMT

\* The fields of facts
LEMMA SizingFields ==
    ASSUME NEW f \in Sizing
    PROVE  /\ f.vcpus \in Nat /\ f.memMiB \in Nat /\ f.mbps \in Nat
           /\ f.enis \in Nat /\ f.ips \in Nat
           /\ DOMAIN f = {"vcpus", "memMiB", "mbps", "enis", "ips"}
BY SMT DEF Sizing

\* applyScaling's neighbour limit has a floor, whatever the product
LEMMA Thresh3Floor ==
    ASSUME NEW f \in Sizing
    PROVE  Thresh3(f) \in Int /\ Thresh3(f) >= 1024
<1>1. PositiveOr(f.enis, 1) \in Nat /\ PositiveOr(f.ips, 1) \in Nat
    BY SizingFields, SMT DEF PositiveOr
<1>2. MaxNeighborEntries(f) \in Nat
    BY <1>1, SMT DEF MaxNeighborEntries
<1>3. MaxNeighborEntries(f) * 16 \in Int BY <1>2, SMT
<1>4. ASSUME NEW n \in Int
      PROVE  ClampInt(n, 1024, 131072) \in Int /\ ClampInt(n, 1024, 131072) >= 1024
    BY SMT DEF ClampInt
<1> QED BY <1>3, <1>4, SMT DEF Thresh3

\* ... and the thresholds derived from it, each with its own floor, are below it
LEMMA ThreshOrder ==
    ASSUME NEW t \in Int, t >= 1024
    PROVE  /\ AtLeast(t \div 8, 128) < AtLeast(t \div 2, 512)
           /\ AtLeast(t \div 2, 512) < t
<1>1. AtLeast(t \div 8, 128) < AtLeast(t \div 2, 512) BY SMT DEF AtLeast
<1>2. t \div 2 < t /\ t > 512 BY SMT
<1>3. AtLeast(t \div 2, 512) < t BY <1>2, SMT DEF AtLeast
<1> QED BY <1>1, <1>3, SMT

FileMax(f)    == ClampInt(PositiveOr(f.memMiB, 1024) * 128, 1048576, 12582912)
SoMaxConn(f)  == ClampInt(PositiveOr(f.vcpus, 1) * 2048, 4096, 65535)
ThreadsMax(f) == ClampInt(PositiveOr(f.vcpus, 1) * 4096, 131072, 4194304)
Backlog(f)    == ClampInt(f.mbps * 2, 4096, 250000)
JitLimit(f)   == ClampInt(PositiveOr(f.vcpus, 1) * 8388608, 268435456, 1073741824)

\* applyScaling, key by key
LEMMA ScaledKeys ==
    ASSUME NEW f, NEW s, s = ScalingSysctls(f)
    PROVE  /\ s["fs.file-max"] = << FileMax(f) >>
           /\ s["net.core.somaxconn"] = << SoMaxConn(f) >>
           /\ s["kernel.threads-max"] = << ThreadsMax(f) >>
           /\ s["kernel.pid_max"] = << ThreadsMax(f) >>
           /\ s["net.core.netdev_max_backlog"] = << Backlog(f) >>
           /\ s["net.core.rmem_max"] = << RmemMax(f) >>
           /\ s["net.core.wmem_max"] = << RmemMax(f) >>
           /\ s["net.ipv4.tcp_rmem"] = << 4096, 131072, RmemMax(f) >>
           /\ s["net.ipv4.tcp_wmem"] = << 4096, 65536, RmemMax(f) >>
           /\ s["net.core.bpf_jit_limit"] = << JitLimit(f) >>
           /\ s["net.ipv4.neigh.default.gc_thresh1"] = << AtLeast(Thresh3(f) \div 8, 128) >>
           /\ s["net.ipv4.neigh.default.gc_thresh2"] = << AtLeast(Thresh3(f) \div 2, 512) >>
           /\ s["net.ipv4.neigh.default.gc_thresh3"] = << Thresh3(f) >>
BY SMT DEF ScalingSysctls, ScalingKeys, FileMax, SoMaxConn, ThreadsMax, Backlog, JitLimit

\* No field of f is above g's
Within(f, g) == \A field \in DOMAIN f : f[field] <= g[field]

\* Two numbers in order
Rises(x, y) == x \in Int /\ y \in Int /\ x <= y

LEMMA FieldsRise ==
    ASSUME NEW f \in Sizing, NEW g \in Sizing, Within(f, g)
    PROVE  /\ f.vcpus <= g.vcpus /\ f.memMiB <= g.memMiB /\ f.mbps <= g.mbps
           /\ f.enis <= g.enis /\ f.ips <= g.ips
BY SizingFields, SMT DEF Within

\* Each scaled number rises with the instance.  Unknown memory counts as 1 GiB,
\* which may be more than what is known later, but is below the floor.
LEMMA NumbersRise ==
    ASSUME NEW f \in Sizing, NEW g \in Sizing, Within(f, g)
    PROVE  /\ Rises(FileMax(f), FileMax(g))
           /\ Rises(SoMaxConn(f), SoMaxConn(g))
           /\ Rises(ThreadsMax(f), ThreadsMax(g))
           /\ Rises(Backlog(f), Backlog(g))
           /\ Rises(RmemMax(f), RmemMax(g))
           /\ Rises(JitLimit(f), JitLimit(g))
           /\ Rises(Thresh3(f), Thresh3(g))
<1> USE DEF Rises
<1>1. /\ f.vcpus \in Nat /\ f.memMiB \in Nat /\ f.mbps \in Nat
      /\ g.vcpus \in Nat /\ g.memMiB \in Nat /\ g.mbps \in Nat
      /\ f.vcpus <= g.vcpus /\ f.memMiB <= g.memMiB /\ f.mbps <= g.mbps
    BY SizingFields, FieldsRise, SMT
<1>2. ASSUME NEW v \in Nat, NEW w \in Nat, v <= w
      PROVE  Rises(PositiveOr(v, 1), PositiveOr(w, 1)) /\ PositiveOr(v, 1) \in Nat
                /\ PositiveOr(w, 1) \in Nat
    BY <1>2, SMT DEF PositiveOr
<1>3. Rises(FileMax(f), FileMax(g))
  <2>1. ASSUME NEW v \in Nat, NEW w \in Nat, v <= w
        PROVE  Rises(ClampInt(PositiveOr(v, 1024) * 128, 1048576, 12582912),
                     ClampInt(PositiveOr(w, 1024) * 128, 1048576, 12582912))
      BY <2>1, SMT DEF PositiveOr, ClampInt
  <2> QED BY <1>1, <2>1, SMT DEF FileMax
<1>4. Rises(SoMaxConn(f), SoMaxConn(g))
  <2>1. ASSUME NEW v \in Nat, NEW w \in Nat, v <= w
        PROVE  Rises(ClampInt(PositiveOr(v, 1) * 2048, 4096, 65535),
                     ClampInt(PositiveOr(w, 1) * 2048, 4096, 65535))
      BY <2>1, SMT DEF PositiveOr, ClampInt
  <2> QED BY <1>1, <2>1, SMT DEF SoMaxConn
<1>5. Rises(ThreadsMax(f), ThreadsMax(g))
  <2>1. ASSUME NEW v \in Nat, NEW w \in Nat, v <= w
        PROVE  Rises(ClampInt(PositiveOr(v, 1) * 4096, 131072, 4194304),
                     ClampInt(PositiveOr(w, 1) * 4096, 131072, 4194304))
      BY <2>1, SMT DEF PositiveOr, ClampInt
  <2> QED BY <1>1, <2>1, SMT DEF ThreadsMax
<1>6. Rises(Backlog(f), Backlog(g))
  <2>1. ASSUME NEW v \in Nat, NEW w \in Nat, v <= w
        PROVE  Rises(ClampInt(v * 2, 4096, 250000), ClampInt(w * 2, 4096, 250000))
      BY <2>1, SMT DEF ClampInt
  <2> QED BY <1>1, <2>1, SMT DEF Backlog
<1>7. Rises(RmemMax(f), RmemMax(g))
  <2>1. ASSUME NEW v \in Nat, NEW w \in Nat, v <= w
        PROVE  Rises(ClampInt((v \div 1000) * 2 * 1048576, 4194304, 134217728),
                     ClampInt((w \div 1000) * 2 * 1048576, 4194304, 134217728))
    <3>1. v \div 1000 \in Int /\ w \div 1000 \in Int /\ v \div 1000 <= w \div 1000
        BY <2>1, SMT
    <3> QED BY <3>1, SMT DEF ClampInt
  <2> QED BY <1>1, <2>1, SMT DEF RmemMax
<1>8. Rises(JitLimit(f), JitLimit(g))
  <2>1. ASSUME NEW v \in Nat, NEW w \in Nat, v <= w
        PROVE  Rises(ClampInt(PositiveOr(v, 1) * 8388608, 268435456, 1073741824),
                     ClampInt(PositiveOr(w, 1) * 8388608, 268435456, 1073741824))
      BY <2>1, SMT DEF PositiveOr, ClampInt
  <2> QED BY <1>1, <2>1, SMT DEF JitLimit
<1>9. Rises(Thresh3(f), Thresh3(g))
  <2>1. /\ PositiveOr(f.enis, 1) \in Nat /\ PositiveOr(f.ips, 1) \in Nat
        /\ PositiveOr(g.enis, 1) \in Nat /\ PositiveOr(g.ips, 1) \in Nat
        /\ PositiveOr(f.enis, 1) <= PositiveOr(g.enis, 1)
        /\ PositiveOr(f.ips, 1) <= PositiveOr(g.ips, 1)
      BY SizingFields, FieldsRise, <1>2, SMT
  <2>2. /\ MaxNeighborEntries(f) \in Nat /\ MaxNeighborEntries(g) \in Nat
        /\ MaxNeighborEntries(f) <= MaxNeighborEntries(g)
      BY <2>1, ProductMonotone, SMT DEF MaxNeighborEntries
  <2>3. ASSUME NEW v \in Nat, NEW w \in Nat, v <= w
        PROVE  Rises(ClampInt(v * 16, 1024, 131072), ClampInt(w * 16, 1024, 131072))
      BY <2>3, SMT DEF ClampInt
  <2> QED BY <2>2, <2>3, SMT DEF Thresh3
<1> HIDE DEF Rises
<1> QED BY <1>3, <1>4, <1>5, <1>6, <1>7, <1>8, <1>9, SMT

LEMMA ScaledRise ==
    ASSUME NEW f \in Sizing, NEW g \in Sizing, Within(f, g), NEW k \in ScalingKeys,
           NEW j \in DOMAIN ScalingSysctls(f)[k]
    PROVE  ScalingSysctls(f)[k][j] <= ScalingSysctls(g)[k][j]
<1>1. /\ Rises(Thresh3(f), Thresh3(g))
      /\ Rises(RmemMax(f), RmemMax(g))
      /\ Rises(FileMax(f), FileMax(g)) /\ Rises(SoMaxConn(f), SoMaxConn(g))
      /\ Rises(ThreadsMax(f), ThreadsMax(g)) /\ Rises(Backlog(f), Backlog(g))
      /\ Rises(JitLimit(f), JitLimit(g))
    BY NumbersRise
<1>2. /\ Rises(AtLeast(Thresh3(f) \div 8, 128), AtLeast(Thresh3(g) \div 8, 128))
      /\ Rises(AtLeast(Thresh3(f) \div 2, 512), AtLeast(Thresh3(g) \div 2, 512))
  <2>1. ASSUME NEW v, NEW w, Rises(v, w)
        PROVE  Rises(AtLeast(v \div 8, 128), AtLeast(w \div 8, 128))
      BY <2>1, SMT DEF AtLeast, Rises
  <2>2. ASSUME NEW v, NEW w, Rises(v, w)
        PROVE  Rises(AtLeast(v \div 2, 512), AtLeast(w \div 2, 512))
      BY <2>2, SMT DEF AtLeast, Rises
  <2> QED BY <1>1, <2>1, <2>2
<1>3. ASSUME NEW x, NEW y, Rises(x, y), ScalingSysctls(f)[k] = << x >>,
             ScalingSysctls(g)[k] = << y >>
      PROVE  ScalingSysctls(f)[k][j] <= ScalingSysctls(g)[k][j]
    BY <1>3, SMT DEF Rises
<1>4. ASSUME NEW a \in Int, NEW b \in Int, ScalingSysctls(f)[k] = << a, b, RmemMax(f) >>,
             ScalingSysctls(g)[k] = << a, b, RmemMax(g) >>
      PROVE  ScalingSysctls(f)[k][j] <= ScalingSysctls(g)[k][j]
    BY <1>1, <1>4, SMT DEF Rises
<1>5. CASE k = "fs.file-max" BY <1>1, <1>3, <1>5, ScaledKeys, SMT
<1>6. CASE k = "net.core.somaxconn" BY <1>1, <1>3, <1>6, ScaledKeys, SMT
<1>7. CASE k \in {"kernel.threads-max", "kernel.pid_max"}
    BY <1>1, <1>3, <1>7, ScaledKeys, SMT
<1>8. CASE k = "net.core.netdev_max_backlog" BY <1>1, <1>3, <1>8, ScaledKeys, SMT
<1>9. CASE k \in {"net.core.rmem_max", "net.core.wmem_max"}
    BY <1>1, <1>3, <1>9, ScaledKeys, SMT
<1>10. CASE k = "net.ipv4.tcp_rmem" BY <1>4, <1>10, ScaledKeys, SMT
<1>11. CASE k = "net.ipv4.tcp_wmem" BY <1>4, <1>11, ScaledKeys, SMT
<1>12. CASE k = "net.core.bpf_jit_limit" BY <1>1, <1>3, <1>12, ScaledKeys, SMT
<1>13. CASE k = "net.ipv4.neigh.default.gc_thresh1" BY <1>2, <1>3, <1>13, ScaledKeys, SMT
<1>14. CASE k = "net.ipv4.neigh.default.gc_thresh2" BY <1>2, <1>3, <1>14, ScaledKeys, SMT
<1>15. CASE k = "net.ipv4.neigh.default.gc_thresh3" BY <1>1, <1>3, <1>15, ScaledKeys, SMT
<1> QED BY <1>5, <1>6, <1>7, <1>8, <1>9, <1>10, <1>11, <1>12, <1>13, <1>14, <1>15
        DEF ScalingKeys
=============================================================================
