---------------------------- MODULE FileRegister ----------------------------
(***************************************************************************)
(* What WriteFileIfChanged promises its callers (the comment on it in       *)
(* internal/sysutil/atomic.go): a file behaves as one register.  A call     *)
(* takes effect at one instant, in which it either replaces the whole       *)
(* content or finds the file already equal; a call that returns an error    *)
(* or whose process dies has had no effect or all of it.  The page cache    *)
(* makes the register volatile: a power loss may bring back the content     *)
(* that last reached the disk, or damage one that did not reach it yet.     *)
(***************************************************************************)
EXTENDS Naturals

CONSTANTS Callers,   \* processes that call WriteFileIfChanged on this path
          Contents,  \* complete contents a caller or an editor writes
          NoFile,    \* the file does not exist
          Torn       \* a content that is not whole

VARIABLES file,      \* what a reader of the path sees
          durable,   \* what a power loss would leave of it
          op,        \* op[p]: "idle" or "busy"
          want,      \* want[p]: the content p passed
          ret        \* ret[p]: how p's current or last call ended

vars == << file, durable, op, want, ret >>

Outcome == {"none", "changed", "unchanged", "error", "killed"}

Init ==
    /\ file \in Contents \cup {NoFile}
    /\ durable = file
    /\ op = [p \in Callers |-> "idle"]
    /\ want \in [Callers -> Contents]
    /\ ret = [p \in Callers |-> "none"]

Call(p) ==
    /\ op[p] = "idle"
    /\ op' = [op EXCEPT ![p] = "busy"]
    /\ ret' = [ret EXCEPT ![p] = "none"]
    /\ \E c \in Contents : want' = [want EXCEPT ![p] = c]
    /\ UNCHANGED << file, durable >>

\* The instant at which the call takes effect, or decides not to
Decide(p) ==
    /\ op[p] = "busy" /\ ret[p] = "none"
    /\ \/ file' = want[p] /\ ret' = [ret EXCEPT ![p] = "changed"]
       \/ /\ file = want[p] /\ file' = file
          /\ ret' = [ret EXCEPT ![p] = "unchanged"]
       \/ file' = file /\ ret' = [ret EXCEPT ![p] = "error"]
    /\ UNCHANGED << durable, op, want >>

Return(p) ==
    /\ op[p] = "busy" /\ ret[p] # "none"
    /\ op' = [op EXCEPT ![p] = "idle"]
    /\ UNCHANGED << file, durable, want, ret >>

Kill(p) ==
    /\ op[p] = "busy"
    /\ op' = [op EXCEPT ![p] = "idle"]
    /\ ret' = [ret EXCEPT ![p] = "killed"]
    /\ UNCHANGED << file, durable, want >>

\* Someone else replaces the file, and syncs it
Edit ==
    /\ file' \in Contents /\ durable' = file'
    /\ UNCHANGED << op, want, ret >>

Flush ==
    /\ durable' = file
    /\ UNCHANGED << file, op, want, ret >>

PowerLoss ==
    /\ \/ file' \in {file, durable}
       \/ file # durable /\ file' = Torn
    /\ durable' = file'
    /\ op' = [p \in Callers |-> "idle"]
    /\ ret' = [p \in Callers |-> IF op[p] = "busy" THEN "killed" ELSE ret[p]]
    /\ UNCHANGED want

Next == \/ \E p \in Callers : Call(p) \/ Decide(p) \/ Return(p) \/ Kill(p)
        \/ Edit \/ Flush \/ PowerLoss

Spec == Init /\ [][Next]_vars
=============================================================================
