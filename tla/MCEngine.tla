------------------------------ MODULE MCEngine ------------------------------
(* Small instances of Engine for TLC: the boot unit and one operator.       *)
EXTENDS Engine

Want(s) == [r \in Names |-> IF r = "sysctl" THEN s ELSE "ok"]

\* Facts from the EC2 API, and the local fallback that tunes differently
MCProfiles ==
    { [mounts |-> << >>, modules |-> TRUE, noFile |-> FALSE, irq |-> TRUE,
       nic |-> TRUE, governor |-> FALSE, ioScheduler |-> FALSE,
       want |-> Want("ok")],
      [mounts |-> << >>, modules |-> FALSE, noFile |-> FALSE, irq |-> FALSE,
       nic |-> FALSE, governor |-> FALSE, ioScheduler |-> FALSE,
       want |-> Want("fallback")] }

\* The full list, everything enabled
MCFullProfile ==
    { [mounts |-> <<"bpffs-mount">>, modules |-> TRUE, noFile |-> TRUE,
       irq |-> TRUE, nic |-> TRUE, governor |-> TRUE, ioScheduler |-> TRUE,
       want |-> Want("ok")] }

Cfg(d, j, s) == [parses |-> TRUE, dryRun |-> d, json |-> j, disable |-> s]
Broken    == [parses |-> FALSE, dryRun |-> FALSE, json |-> FALSE, disable |-> {}]
MCPlain   == { Cfg(FALSE, FALSE, {}), Broken }
MCConfigs == { Cfg(FALSE, FALSE, {"swap"}), Cfg(TRUE, TRUE, {"kernel-modules"}),
               Broken }

Cmd(c, o, s) == [cmd |-> c, only |-> o, skip |-> s]
MCCliArgs ==
    { Cmd("check", {}, {}), Cmd("apply", {"sysctl", "swap", "irq-affinity"}, {"irq-affinity"}),
      Cmd("apply", {}, {"sysctl", "swap", "cgroup-v2"}), Cmd("facts", {}, {}),
      Cmd("version", {}, {}), Cmd("usage", {}, {}) }
MCApplyArgs == { Cmd("apply", {"irq-affinity"}, {}) }
MCCheckArgs == { Cmd("check", {}, {}) }

Host(s, m, i, g, w) == [r \in Names |-> CASE r = "sysctl"         -> s
                                          [] r = "kernel-modules" -> m
                                          [] r = "irq-affinity"   -> i
                                          [] r = "nic-tuning"     -> i
                                          [] r = "cgroup-v2"      -> g
                                          [] r = "swap"           -> w
                                          [] OTHER                -> "ok"]
MCInitHosts == { Host("factory", "factory", "factory", "needs_reboot", "factory"),
                 Host("factory", "ok", "absent", "ok", "ok") }
MCFactory   == { [r \in Names |-> IF r = "cgroup-v2" THEN "needs_reboot"
                                  ELSE "factory"] }

\* A first boot on which the modules and the NIC drift
MCBootHosts == { [r \in Names |->
                    IF r = "cgroup-v2" THEN "needs_reboot"
                    ELSE IF r \in {"sysctl", "kernel-modules"} \cup Hardware
                    THEN "factory" ELSE "ok"] }
=============================================================================
