----------------------------- MODULE AtomicFile -----------------------------
(***************************************************************************)
(* WriteFileIfChanged (internal/sysutil/atomic.go), one step per system     *)
(* call, for several processes that write the same path at the same time:   *)
(* nothing serialises two runs of the command.  A system call may fail, a   *)
(* process may be killed between any two, the machine may lose power, and   *)
(* an editor may replace the file.                                          *)
(*                                                                          *)
(* The file is a content or NoFile; a write that stopped early is Torn.     *)
(* The code does not fsync, so a power loss may undo a rename that was not  *)
(* written back, or keep the name and lose the data (XFS, the root          *)
(* filesystem of Amazon Linux, orders neither before the other).            *)
(***************************************************************************)
EXTENDS Naturals

CONSTANTS Callers, Contents, NoFile,
          Torn,         \* a content cut short
          NoTemp,       \* the process has no temporary file
          MaxFaults,    \* bound: failing system calls, kills, power losses
          MaxEdits      \* bound: edits by someone else

ASSUME ContentsAssumption ==
    /\ NoFile \notin Contents /\ Torn \notin Contents /\ NoTemp \notin Contents
    /\ Torn # NoFile /\ Torn # NoTemp
    /\ Contents # {}
ASSUME AtomicBounds == MaxFaults \in Nat /\ MaxEdits \in Nat

VARIABLES file, durable,
          pc,    \* pc[p]: the next system call of p
          want, ret,
          tmp,   \* tmp[p]: what the temporary file of p's call holds
          leaked, \* history: callers whose deferred Remove failed
          lost,   \* history: a power loss hit what the path holds
          faults, edits

vars == << file, durable, pc, want, ret, tmp, leaked, lost, faults, edits >>
history == << leaked, lost >>

Calls == {"read", "mkdir", "create", "write", "chmod", "close", "rename"}
PCs   == Calls \cup {"idle", "remove", "return"}

Init ==
    /\ file \in Contents \cup {NoFile}
    /\ durable = file
    /\ pc = [p \in Callers |-> "idle"]
    /\ want \in [Callers -> Contents]
    /\ ret = [p \in Callers |-> "none"]
    /\ tmp = [p \in Callers |-> NoTemp]
    /\ leaked = {} /\ lost = FALSE
    /\ faults = 0 /\ edits = 0

Goto(p, l) == pc' = [pc EXCEPT ![p] = l]
End(p, r)  == ret' = [ret EXCEPT ![p] = r]
SetTmp(p, c) == tmp' = [tmp EXCEPT ![p] = c]

Call(p) ==
    /\ pc[p] = "idle"
    /\ Goto(p, "read") /\ End(p, "none") /\ SetTmp(p, NoTemp)
    /\ \E c \in Contents : want' = [want EXCEPT ![p] = c]
    /\ leaked' = leaked \ {p}
    /\ UNCHANGED << file, durable, lost, faults, edits >>

\* os.ReadFile: an equal file ends the call, an absent one does not
Read(p) ==
    /\ pc[p] = "read"
    /\ IF file = want[p] THEN Goto(p, "return") /\ End(p, "unchanged")
                         ELSE Goto(p, "mkdir") /\ UNCHANGED ret
    /\ UNCHANGED << file, durable, want, tmp, history, faults, edits >>

\* os.MkdirAll and os.CreateTemp; the deferred Remove is armed by the latter
Mkdir(p) ==
    /\ pc[p] = "mkdir" /\ Goto(p, "create")
    /\ UNCHANGED << file, durable, want, ret, tmp, history, faults, edits >>

Create(p) ==
    /\ pc[p] = "create" /\ Goto(p, "write") /\ SetTmp(p, Torn)
    /\ UNCHANGED << file, durable, want, ret, history, faults, edits >>

\* Mutant: the content goes to the path itself
WriteInPlace(p) ==
    /\ pc[p] = "write" /\ Goto(p, "chmod") /\ SetTmp(p, want[p])
    /\ file' = Torn
    /\ UNCHANGED << durable, want, ret, history, faults, edits >>

\* Mutant: the error of a short write is dropped
WriteErrorDropped(p) ==
    /\ pc[p] = "write" /\ Goto(p, "chmod")
    /\ SetTmp(p, want[p]) \/ SetTmp(p, Torn)
    /\ UNCHANGED << file, durable, want, ret, history, faults, edits >>

Write(p) ==
    /\ pc[p] = "write" /\ Goto(p, "chmod") /\ SetTmp(p, want[p])
    /\ UNCHANGED << file, durable, want, ret, history, faults, edits >>

ChmodClose(p) ==
    /\ \/ pc[p] = "chmod" /\ Goto(p, "close")
       \/ pc[p] = "close" /\ Goto(p, "rename")
    /\ UNCHANGED << file, durable, want, ret, tmp, history, faults, edits >>

\* os.Rename, the instant the new content becomes visible
Rename(p) ==
    /\ pc[p] = "rename" /\ Goto(p, "remove") /\ End(p, "changed")
    /\ file' = tmp[p] /\ SetTmp(p, NoTemp)
    /\ lost' = FALSE
    /\ UNCHANGED << durable, want, leaked, faults, edits >>

\* Mutant: an error returns at once, without the deferred Remove
FailWithoutRemove(p) ==
    /\ pc[p] \in Calls
    /\ faults < MaxFaults /\ faults' = faults + 1
    /\ End(p, "error")
    /\ Goto(p, "return")
    /\ UNCHANGED << file, durable, want, tmp, history, edits >>

\* Any of the calls fails: the error is returned, through the deferred Remove
\* once the temporary file exists (what a failing write left of it included)
Fail(p) ==
    /\ pc[p] \in Calls
    /\ faults < MaxFaults /\ faults' = faults + 1
    /\ End(p, "error")
    /\ Goto(p, IF pc[p] \in {"read", "mkdir", "create"} THEN "return" ELSE "remove")
    /\ UNCHANGED << file, durable, want, tmp, history, edits >>

\* The deferred os.Remove: a no-op once renamed.  Its error is discarded, so a
\* Remove that fails (a filesystem gone read-only) leaves the temporary file
\* and changes nothing of what the call returns.
Remove(p) ==
    /\ pc[p] = "remove" /\ Goto(p, "return")
    /\ \/ SetTmp(p, NoTemp) /\ UNCHANGED << leaked, faults >>
       \/ /\ faults < MaxFaults /\ faults' = faults + 1
          /\ leaked' = leaked \cup {p}
          /\ UNCHANGED tmp
    /\ UNCHANGED << file, durable, want, ret, lost, edits >>

Return(p) ==
    /\ pc[p] = "return" /\ Goto(p, "idle")
    /\ UNCHANGED << file, durable, want, ret, tmp, history, faults, edits >>

-----------------------------------------------------------------------------
\* SIGKILL or a systemd timeout: deferred calls do not run
Kill(p) ==
    /\ pc[p] # "idle"
    /\ faults < MaxFaults /\ faults' = faults + 1
    /\ Goto(p, "idle") /\ End(p, "killed")
    /\ UNCHANGED << file, durable, want, tmp, history, edits >>

\* An editor that replaces the file and syncs it
Edit ==
    /\ edits < MaxEdits /\ edits' = edits + 1
    /\ file' \in Contents \ {file} /\ durable' = file'
    /\ lost' = FALSE
    /\ UNCHANGED << pc, want, ret, tmp, leaked, faults >>

\* The kernel writes back data and name
Flush ==
    /\ durable # file /\ durable' = file
    /\ UNCHANGED << file, pc, want, ret, tmp, history, faults, edits >>

\* What the disk may hold of a file whose last rename was not written back
OnDisk == {file, durable} \cup (IF file = durable THEN {} ELSE {Torn})

PowerLoss ==
    /\ faults < MaxFaults /\ faults' = faults + 1
    /\ file' \in OnDisk /\ durable' = file'
    /\ pc' = [p \in Callers |-> "idle"]
    /\ ret' = [p \in Callers |-> IF pc[p] = "idle" THEN ret[p] ELSE "killed"]
    /\ lost' = (lost \/ file # durable)
    /\ UNCHANGED << want, tmp, leaked, edits >>

Step(p) == \/ Read(p) \/ Mkdir(p) \/ Create(p) \/ Write(p) \/ ChmodClose(p)
           \/ Rename(p) \/ Fail(p) \/ Remove(p) \/ Return(p)

Next == \/ \E p \in Callers : Call(p) \/ Step(p) \/ Kill(p)
        \/ Edit \/ Flush \/ PowerLoss

Spec == Init /\ [][Next]_vars

-----------------------------------------------------------------------------
TypeOK ==
    /\ file \in Contents \cup {NoFile, Torn}
    /\ durable \in Contents \cup {NoFile, Torn}
    /\ pc \in [Callers -> PCs]
    /\ want \in [Callers -> Contents]
    /\ ret \in [Callers -> {"none", "changed", "unchanged", "error", "killed"}]
    /\ tmp \in [Callers -> Contents \cup {NoTemp, Torn}]
    /\ \A p \in Callers : pc[p] \in {"chmod", "close", "rename"} => tmp[p] \in Contents
    /\ leaked \subseteq Callers /\ lost \in BOOLEAN

\* "The write is atomic": whoever reads the path, at any moment, in spite of
\* failing writes, kills and other writers, sees a complete content or no
\* file.  The one exception is a power loss before a rename was written back,
\* since nothing is synced, and it lasts until the next write of the path.
OnlyPowerLossTears == file = Torn => lost

\* A temporary file outlives its call only if the call was cut short by a kill
\* or a power loss, or if it returned an error and the Remove failed as well;
\* a call that says it changed the file, or left it alone, never leaves one.
NoTempLeft ==
    \A p \in Callers :
        pc[p] = "idle" /\ tmp[p] # NoTemp
        => ret[p] = "killed" \/ (ret[p] = "error" /\ p \in leaked)

Register == INSTANCE FileRegister
    WITH op <- [p \in Callers |-> IF pc[p] = "idle" THEN "idle" ELSE "busy"]

\* WriteFileIfChanged implements the register: every call, overlapping with
\* others or not, takes effect at one instant or not at all, and only a power
\* loss before it reached the disk undoes or damages that effect.
ImplementsRegister == Register!Spec
=============================================================================
