------------------------------ MODULE MCTuning ------------------------------
(* A NIC with three interrupts and a queue each way, a bridge whose transmit *)
(* queue lacks xps_cpus, a governor, two disks.                              *)
EXTENDS Tuning

Knob(kind, dev) == [kind |-> kind, dev |-> dev, offers |-> {}, default |-> ""]
Choice(kind, offers, default) ==
    [kind |-> kind, dev |-> "host", offers |-> offers, default |-> default]

MCFiles == << Knob("limits", "host"),
              Knob("irq", "ens5"), Knob("irq", "ens5"), Knob("irq", "ens5"),
              Knob("rps", "ens5"), Knob("xps", "ens5"),
              Knob("rps", "docker0"), Knob("xps", "docker0"),
              Choice("governor", {"performance", "powersave"}, "powersave"),
              Choice("scheduler", {"none", "kyber"}, "kyber"),
              Choice("scheduler", {"kyber"}, "kyber") >>
MCLacking == {1, 8}
MCLinks == { << "docker0", "ens5", "lo" >>, << "docker0", "lo" >> }

Size(v, m, b, e, i) == [vcpus |-> v, memMiB |-> m, mbps |-> b, enis |-> e, ips |-> i]
MCSizings == { Size(2, 4096, 10000, 3, 10), Size(36, 73728, 100000, 15, 50),
               Size(0, 512, 0, 0, 0) }

NoSysctls == [k \in {} |-> << >>]
Plain == [sysctls |-> NoSysctls, noFile |-> 0, governor |-> {}, hugeEnabled |-> FALSE,
          hugeCount |-> 0, tunnelMode |-> "", legacyIPTables |-> FALSE,
          irqAffinity |-> {}, ringBufferMax |-> {}, rps |-> {}, xps |-> {},
          ioScheduler |-> {}]
Off == [Plain EXCEPT !.governor = {""}, !.irqAffinity = {FALSE},
                     !.ringBufferMax = {FALSE}, !.rps = {FALSE}, !.xps = {FALSE},
                     !.ioScheduler = {""}]
Tuned == [Plain EXCEPT
    !.sysctls = [k \in {"net.core.somaxconn", "vm.nr_hugepages"} |-> << 1024 >>],
    !.noFile = 65536, !.governor = {"schedutil"}, !.hugeEnabled = TRUE,
    !.hugeCount = 512, !.tunnelMode = "vxlan", !.legacyIPTables = TRUE,
    !.irqAffinity = {TRUE}, !.rps = {FALSE}]
MCConfigs == { Plain, Off, Tuned }
=============================================================================
