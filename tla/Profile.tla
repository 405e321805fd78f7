------------------------------ MODULE Profile ------------------------------
(***************************************************************************)
(* The desired state (internal/profile): Build layers the baseline, values  *)
(* scaled to the instance, Cilium's prerequisites and the operator's        *)
(* overrides (internal/config).  Pure operators, used by Tuning.            *)
(*                                                                          *)
(* A sysctl value is the sequence of the numbers in it ("4096 65536 N").    *)
(* Bandwidth is in Mbit/s, so the code's floats are exact integers here.    *)
(* An optional (pointer) field is a set with at most one element.           *)
(***************************************************************************)
EXTENDS Integers

\* What Build uses of facts.Facts; 0 where the source of facts left it out
Sizing == [vcpus : Nat, memMiB : Nat, mbps : Nat, enis : Nat, ips : Nat]

\* What Build uses of config.Config
Optional(S) == {{}} \cup {{v} : v \in S}
IsConfig(c) ==
    /\ c.noFile \in Nat /\ c.hugeCount \in Int
    /\ {c.hugeEnabled, c.legacyIPTables} \subseteq BOOLEAN
    /\ \A f \in {"irqAffinity", "ringBufferMax", "rps", "xps"} :
          c[f] \in Optional(BOOLEAN)
    /\ \A f \in {"governor", "ioScheduler"} : c[f] \in Optional(c[f])

\* maps.Copy(f, g)
Over(g, f) == [k \in DOMAIN f \cup DOMAIN g |->
                  IF k \in DOMAIN g THEN g[k] ELSE f[k]]

Given(option, default) == IF option = {} THEN default ELSE CHOOSE v \in option : TRUE
AtLeast(v, floor) == IF v < floor THEN floor ELSE v
PositiveOr(v, default) == IF v <= 0 THEN default ELSE v

\* Mutant: a 16-bit product
ClampNarrow(v, min, max) == AtLeast(v % 65536, min)

ClampInt(v, min, max) == IF v < min THEN min ELSE IF v > max THEN max ELSE v

-----------------------------------------------------------------------------
(* The layers.                                                              *)

\* baseSysctls: the same for every instance
BaseSysctls ==
    [k \in {"vm.max_map_count", "vm.swappiness", "fs.inotify.max_user_watches",
            "fs.inotify.max_user_instances", "fs.nr_open", "net.ipv4.ip_forward",
            "net.core.bpf_jit_enable", "net.core.bpf_jit_harden",
            "kernel.unprivileged_bpf_disabled", "kernel.panic",
            "kernel.panic_on_oops"} |->
        << CASE k = "vm.max_map_count" -> 262144
             [] k = "fs.inotify.max_user_instances" -> 8192
             [] k \in {"fs.inotify.max_user_watches", "fs.nr_open"} -> 1048576
             [] k \in {"vm.swappiness", "net.core.bpf_jit_harden"} -> 0
             [] k = "kernel.panic" -> 10
             [] OTHER -> 1 >>]

NewBaseProfile(f) ==
    [sysctls |-> BaseSysctls, modules |-> {}, mounts |-> {}, noFile |-> 1048576,
     hugePages |-> 0, irq |-> f.vcpus > 1, ringBufferMax |-> TRUE, rps |-> TRUE,
     xps |-> TRUE, governor |-> "performance", ioScheduler |-> "none",
     ioEnabled |-> TRUE]

MaxNeighborEntries(f) == PositiveOr(f.enis, 1) * PositiveOr(f.ips, 1)

\* Mutant: no floor under it
Thresh3Unbounded(f) == MaxNeighborEntries(f) * 16

\* The limit on neighbour entries, from which the two lower ones derive
Thresh3(f) == ClampInt(MaxNeighborEntries(f) * 16, 1024, 131072)
RmemMax(f) == ClampInt((f.mbps \div 1000) * 2 * 1048576, 4194304, 134217728)

ScalingKeys ==
    {"fs.file-max", "net.core.somaxconn", "kernel.threads-max", "kernel.pid_max",
     "net.core.netdev_max_backlog", "net.core.rmem_max", "net.core.wmem_max",
     "net.ipv4.tcp_rmem", "net.ipv4.tcp_wmem", "net.core.bpf_jit_limit",
     "net.ipv4.neigh.default.gc_thresh1", "net.ipv4.neigh.default.gc_thresh2",
     "net.ipv4.neigh.default.gc_thresh3"}

\* applyScaling
ScalingSysctls(f) ==
    LET vcpus == PositiveOr(f.vcpus, 1)
        memMiB == PositiveOr(f.memMiB, 1024)
    IN  [k \in ScalingKeys |->
            CASE k = "fs.file-max" -> << ClampInt(memMiB * 128, 1048576, 12582912) >>
              [] k = "net.core.somaxconn" -> << ClampInt(vcpus * 2048, 4096, 65535) >>
              [] k \in {"kernel.threads-max", "kernel.pid_max"} ->
                    << ClampInt(vcpus * 4096, 131072, 4194304) >>
              [] k = "net.core.netdev_max_backlog" ->
                    << ClampInt(f.mbps * 2, 4096, 250000) >>
              [] k \in {"net.core.rmem_max", "net.core.wmem_max"} -> << RmemMax(f) >>
              [] k = "net.ipv4.tcp_rmem" -> << 4096, 131072, RmemMax(f) >>
              [] k = "net.ipv4.tcp_wmem" -> << 4096, 65536, RmemMax(f) >>
              [] k = "net.core.bpf_jit_limit" ->
                    << ClampInt(vcpus * 8388608, 268435456, 1073741824) >>
              [] k = "net.ipv4.neigh.default.gc_thresh1" ->
                    << AtLeast(Thresh3(f) \div 8, 128) >>
              [] k = "net.ipv4.neigh.default.gc_thresh2" ->
                    << AtLeast(Thresh3(f) \div 2, 512) >>
              [] k = "net.ipv4.neigh.default.gc_thresh3" -> << Thresh3(f) >>]

ApplyScaling(p, f) == [p EXCEPT !.sysctls = Over(ScalingSysctls(f), @)]

BridgeKeys == {"net.bridge.bridge-nf-call-iptables",
               "net.bridge.bridge-nf-call-ip6tables"}

\* applyCiliumPrereqs
ApplyCiliumPrereqs(p, o) ==
    [p EXCEPT
        !.mounts = @ \cup {"bpffs-mount"},
        !.modules = @ \cup ({"vxlan", "geneve"} \cap {o.tunnelMode})
                      \cup (IF o.legacyIPTables
                            THEN {"br_netfilter", "nf_conntrack", "iptable_nat",
                                  "iptable_filter"} ELSE {}),
        !.sysctls = IF o.legacyIPTables THEN Over([k \in BridgeKeys |-> << 1 >>], @)
                    ELSE @]

\* applyOverrides
ApplyOverrides(p, o) ==
    LET huge == o.hugePages2M > 0
        with == Over(o.sysctls, p.sysctls)
    IN  [p EXCEPT
            !.sysctls = IF huge
                        THEN Over([k \in {"vm.nr_hugepages"} |-> << o.hugePages2M >>], with)
                        ELSE with,
            !.noFile = IF o.noFile > 0 THEN o.noFile ELSE @,
            !.hugePages = IF huge THEN o.hugePages2M ELSE @,
            !.governor = Given(o.governor, @),
            !.irq = Given(o.irqAffinity, @),
            !.ringBufferMax = Given(o.ringBufferMax, @),
            !.rps = Given(o.rps, @),
            !.xps = Given(o.xps, @),
            !.ioScheduler = Given(o.ioScheduler, @),
            !.ioEnabled = IF o.ioScheduler = {} THEN @ ELSE o.ioScheduler # {""}]

Build(f, o) ==
    ApplyOverrides(ApplyCiliumPrereqs(ApplyScaling(NewBaseProfile(f), f), o), o)

\* Config.ToProfileOverrides: the parsed file is c; limits.nproc goes nowhere
ToProfileOverrides(c) ==
    [sysctls |-> c.sysctls, noFile |-> c.noFile, governor |-> c.governor,
     hugePages2M |-> IF c.hugeEnabled THEN c.hugeCount ELSE 0,
     tunnelMode |-> c.tunnelMode, legacyIPTables |-> c.legacyIPTables,
     irqAffinity |-> c.irqAffinity, ringBufferMax |-> c.ringBufferMax,
     rps |-> c.rps, xps |-> c.xps, ioScheduler |-> c.ioScheduler]
=============================================================================
