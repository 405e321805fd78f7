--------------------------- MODULE MCKernelState ---------------------------
(* Two sysctl keys, one of them brought by a module; three modules.         *)
EXTENDS KernelState

MCKeyOrder    == << "net.core.somaxconn", "net.netfilter.nf_conntrack_max" >>
MCModuleOrder == << "br_netfilter", "nf_conntrack", "vxlan" >>
MCProvider    == [k \in Keys |-> IF k = MCKeyOrder[1] THEN "none" ELSE "nf_conntrack"]
MCDefault     == [k \in Keys |-> "default"]

Both(m) == [sysctls |-> [k \in Keys |-> "tuned"], modules |-> m]
One     == [sysctls |-> [k \in {MCKeyOrder[1]} |-> "tuned"], modules |-> {}]
MCProfiles == { Both(Modules), Both({"br_netfilter", "vxlan"}), One }
=============================================================================
