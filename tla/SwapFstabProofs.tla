-------------------------- MODULE SwapFstabProofs --------------------------
(***************************************************************************)
(* SwapFstab's safety properties for every set of processes, lines and      *)
(* units and all bounds, by four invariants, each resting on the ones       *)
(* before it.                                                               *)
(***************************************************************************)
EXTENDS SwapFstab, TLAPS

InSwapPC  == {"swap-check", "swap-off", "swap-read", "swap-write", "swap-units",
              "swap-mask"}
InBackup  == {"backup-read", "backup-stat", "backup-open", "backup-write"}
InMountPC == {"mount-check", "mount-mount", "mount-read", "mount-write"}
PCs       == {"idle", "report"} \cup InSwapPC \cup InBackup \cup InMountPC

\* Where a process is says how many results it has: BackupFile, which both
\* resources call, finds its way back by that number.
PlaceInv(p) ==
    /\ pc[p] \in InSwapPC => Len(results[p]) = 0
    /\ pc[p] \in InBackup => Len(results[p]) <= 1
    /\ pc[p] \in InMountPC => Len(results[p]) = 1
    /\ pc[p] = "report" => Len(results[p]) = 2

TypeInv ==
    /\ TypeOK
    /\ pc \in [Procs -> PCs] /\ results \in [Procs -> Seq(Status)]
    /\ {faults, edits, reboots, runs} \subseteq Nat
    /\ \A p \in Procs : PlaceInv(p)

\* From the read of fstab to the write of what was read
Holds(p) == pc[p] \in InBackup \cup {"swap-write", "mount-write"}

\* What a process in the middle of its rewrite knows of fstab and the backup
FileInv(p) ==
    /\ buf[p].swap = "active" => buf[p].exists
    /\ buf[p].exists => fstab.exists
    /\ Holds(p) /\ InSwap(p) => buf[p].swap = "active"
    /\ Holds(p) /\ ~InSwap(p) => buf[p].bpf = 0
    /\ buf[p].bpf <= 1
    /\ Holds(p) /\ ~raced => buf[p].lines = fstab.lines
    /\ buf[p].touched => backup.there
    /\ pc[p] = "backup-stat" /\ data[p].touched => backup.there
    /\ pc[p] \in {"backup-open", "backup-write"} /\ data[p].touched => blind
    /\ pc[p] \in {"backup-write", "swap-write"} => backup.there
    /\ pc[p] = "mount-write" /\ buf[p].exists => backup.there

FilesInv ==
    /\ fstab.swap = "active" => fstab.exists
    /\ fstab.bpf <= 1
    /\ fstab.touched => backup.there
    /\ BackupIsUntouched
    /\ backup.there => \/ backup.whole \/ cut
                       \/ \E p \in Procs : pc[p] = "backup-write"
    /\ \A p \in Procs : FileInv(p)

\* What the verdicts of a run in progress say of the host
Passed(p, i) == i \in DOMAIN results[p] /\ results[p][i] # StatusFailed
HostInv(p) ==
    pc[p] # "idle" =>
        /\ pc[p] \in {"swap-read", "swap-write", "swap-units", "swap-mask"}
              => swapDevs = {}
        /\ pc[p] \in InBackup /\ InSwap(p) => swapDevs = {}
        /\ pc[p] \in {"mount-read", "mount-write"} => mounted
        /\ pc[p] \in InBackup /\ ~InSwap(p) => mounted
        /\ Passed(p, 1) => swapDevs = {}
        /\ Passed(p, 2) => mounted

DoneInv == AppliedMeansDone /\ \A p \in Procs : HostInv(p)

\* A run on its own, on an fstab it can read: until an operator edits it, what
\* the process holds is what fstab is, and a passed resource stays persisted
BootInv(p) ==
    pc[p] # "idle" =>
        /\ ~calm[p] => ~clean /\ ~booted
        /\ calm[p] /\ Holds(p) => buf[p] = fstab
        /\ calm[p] /\ pc[p] \in {"swap-units", "swap-mask"} => fstab.swap # "active"
        /\ calm[p] /\ Passed(p, 1) => fstab.swap # "active"
        /\ calm[p] /\ Passed(p, 2) => fstab.bpf > 0

Alone == \A p, q \in Procs : pc[p] # "idle" /\ pc[q] # "idle" => p = q

PersistInv ==
    ~blurred =>
        /\ booted => FstabUnit \notin swapDevs /\ mounted
        /\ clean \/ booted => fstab.swap # "active" /\ fstab.bpf > 0
        /\ Alone
        /\ \A p \in Procs : BootInv(p)
-----------------------------------------------------------------------------
(* Types.                                                                   *)

LEMMA NoFstabType == NoFstab \in Content /\ ~NoFstab.touched
BY DEF NoFstab, Content

LEMMA RewriteType ==
    ASSUME NEW c \in Content
    PROVE  Commented(c) \in Content /\ WithBpf(c) \in Content
<1>1. Commented(c) \in Content BY DEF Commented, Content
<1>2. WithBpf(c) \in Content
  <2>1. c.bpf + 1 \in Nat /\ c.exists \in BOOLEAN BY DEF Content
  <2>2. ASSUME NEW n \in Nat, NEW b \in BOOLEAN
        PROVE  [c EXCEPT !.exists = TRUE, !.bpf = n, !.touched = b] \in Content
    BY DEF Content
  <2> QED BY <2>1, <2>2 DEF WithBpf
<1> QED BY <1>1, <1>2

LEMMA StatusType ==
    /\ StatusFailed \in Status /\ StatusChanged \in Status
    /\ StatusUnchanged \in Status
    /\ StatusFailed # StatusChanged /\ StatusFailed # StatusUnchanged
BY DEF Status, StatusFailed, StatusChanged, StatusUnchanged

LEMMA InitType == Init => TypeInv
<1> SUFFICES ASSUME Init PROVE TypeInv OBVIOUS
<1>1. fstab \in Content
  <2>1. CASE fstab = NoFstab BY <2>1, NoFstabType
  <2>2. CASE fstab \in [exists : {TRUE}, swap : {"none", "active"}, bpf : 0 .. 1,
                        lines : SUBSET Lines, touched : {FALSE}]
    <3>1. fstab.exists \in BOOLEAN /\ fstab.touched \in BOOLEAN BY <2>2, Zenon
    <3>3. /\ fstab.swap \in {"none", "active"} /\ fstab.bpf \in Nat
          /\ fstab.lines \in SUBSET Lines
      BY <2>2
    <3>2. fstab = [exists |-> fstab.exists, swap |-> fstab.swap, bpf |-> fstab.bpf,
                   lines |-> fstab.lines, touched |-> fstab.touched]
      BY <2>2
    <3> QED BY <3>1, <3>2, <3>3 DEF Content
  <2> QED BY <2>1, <2>2 DEF Init
<1>2. backup \in [there : BOOLEAN, whole : BOOLEAN, of : Content]
  BY NoFstabType DEF Init, NoBackup
<1>3. swapDevs \subseteq Units /\ listed \subseteq Units /\ masked \subseteq Units
  BY DEF Init
<1>4. \A p \in Procs : results[p] = << >> /\ pc[p] = "idle" BY DEF Init
<1>5. /\ buf \in [Procs -> Content] /\ data \in [Procs -> Content]
      /\ units \in [Procs -> SUBSET Units]
  BY NoFstabType DEF Init
<1>6. TypeOK
  <2>1. \A p \in Procs : results[p] \in Seq(Status) /\ Len(results[p]) <= 2
    <3>1. << >> \in Seq(Status) OBVIOUS
    <3>2. Len(<< >>) = 0 OBVIOUS
    <3>3. ASSUME NEW p \in Procs PROVE results[p] \in Seq(Status) /\ Len(results[p]) <= 2
      <4>1. results[p] = << >> BY <1>4
      <4> QED BY <4>1, <3>1, <3>2
    <3> QED BY <3>3
  <2>2. /\ calm \in [Procs -> BOOLEAN] /\ raced \in BOOLEAN /\ mounted \in BOOLEAN
        /\ clean \in BOOLEAN /\ booted \in BOOLEAN
        /\ blind \in BOOLEAN /\ cut \in BOOLEAN /\ blurred \in BOOLEAN
    <3>1. calm = [p \in Procs |-> FALSE] /\ mounted \in BOOLEAN BY DEF Init
    <3>2. raced = FALSE /\ clean = FALSE /\ booted = FALSE /\ blind = FALSE /\ cut = FALSE
          /\ blurred = FALSE
      BY DEF Init
    <3> QED BY <3>1, <3>2
  <2> QED BY <1>1, <1>2, <1>3, <1>5, <2>1, <2>2 DEF TypeOK
<1> QED BY <1>4, <1>6 DEF Init, TypeInv, PlaceInv, PCs, InSwapPC, InBackup, InMountPC

\* The two ways a step of p moves it: on, without a verdict, or with one
Moves(p, l) == Goto(p, l) /\ UNCHANGED results
Verdict(p, s) == Report(p, s) /\ Goto(p, NextResource(p))

LEMMA EmptyType ==
    ASSUME NEW r \in Seq(Status)
    PROVE  (r = << >> <=> Len(r) = 0) /\ (Len(r) = 1 => r # << >>)
<1>1. r = << >> <=> Len(r) = 0 OBVIOUS
<1>2. 1 # 0 OBVIOUS
<1> QED BY <1>1, <1>2, Zenon

LEMMA AppendType ==
    ASSUME NEW r \in Seq(Status), NEW s \in Status
    PROVE  /\ Append(r, s) \in Seq(Status) /\ Len(Append(r, s)) = Len(r) + 1
           /\ \A i \in DOMAIN r : Append(r, s)[i] = r[i]
           /\ Append(r, s)[Len(r) + 1] = s
OBVIOUS

\* What the step says of the process and of the others
Places(p) ==
    /\ pc' \in [Procs -> PCs] /\ results' \in [Procs -> Seq(Status)]
    /\ \A q \in Procs : PlaceInv(q)' /\ Len(results'[q]) <= 2
    /\ \A q \in Procs \ {p} : pc'[q] = pc[q] /\ results'[q] = results[q]

LEMMA PlaceFrame ==
    ASSUME TypeInv, NEW p \in Procs,
           pc' \in [Procs -> PCs], results' \in [Procs -> Seq(Status)],
           \A q \in Procs \ {p} : pc'[q] = pc[q] /\ results'[q] = results[q],
           PlaceInv(p)', Len(results'[p]) <= 2
    PROVE  Places(p)
<1> SUFFICES ASSUME NEW q \in Procs, q # p PROVE PlaceInv(q)' /\ Len(results'[q]) <= 2
  BY DEF Places
<1>1. pc'[q] = pc[q] /\ results'[q] = results[q] /\ PlaceInv(q) BY DEF TypeInv
<1> QED BY <1>1 DEF PlaceInv, TypeInv, TypeOK

LEMMA MovesStep ==
    ASSUME TypeInv, NEW p \in Procs, NEW l \in PCs, Moves(p, l),
           l \in InSwapPC => Len(results[p]) = 0, l \in InBackup => Len(results[p]) <= 1,
           l \in InMountPC => Len(results[p]) = 1, l = "report" => Len(results[p]) = 2
    PROVE  Places(p) /\ pc'[p] = l
<1>1. /\ pc' \in [Procs -> PCs] /\ pc'[p] = l /\ results' \in [Procs -> Seq(Status)]
      /\ \A q \in Procs \ {p} : pc'[q] = pc[q] /\ results'[q] = results[q]
      /\ results'[p] = results[p]
  <2>1. results' = results /\ results \in [Procs -> Seq(Status)] /\ pc \in [Procs -> PCs]
    BY DEF TypeInv, Moves
  <2>2. pc' = [pc EXCEPT ![p] = l] BY DEF Moves, Goto
  <2> QED BY <2>1, <2>2
<1>2. PlaceInv(p)' BY <1>1 DEF PlaceInv
<1>3. Len(results'[p]) <= 2 BY <1>1 DEF TypeInv, TypeOK
<1> QED BY <1>1, <1>2, <1>3, PlaceFrame

LEMMA VerdictStep ==
    ASSUME TypeInv, NEW p \in Procs, NEW s \in Status, Verdict(p, s),
           pc[p] \in InSwapPC \cup InBackup \cup InMountPC
    PROVE  /\ Places(p)
           /\ pc'[p] = IF InSwap(p) THEN "mount-check" ELSE "report"
           /\ results'[p] = Append(results[p], s)
           /\ Len(results[p]) = IF InSwap(p) THEN 0 ELSE 1
<1>0. results[p] \in Seq(Status) /\ PlaceInv(p) BY DEF TypeInv
<1>1. results[p] \in Seq(Status) /\ Len(results[p]) <= 1 BY <1>0 DEF PlaceInv
<1>2. Len(results[p]) = IF InSwap(p) THEN 0 ELSE 1
  BY <1>1, EmptyType DEF InSwap
<1>3. /\ Append(results[p], s) \in Seq(Status)
      /\ Len(Append(results[p], s)) = Len(results[p]) + 1
  BY <1>1, AppendType
<1>4. NextResource(p) \in PCs BY DEF NextResource, PCs, InMountPC
<1>5. /\ pc' \in [Procs -> PCs] /\ results' \in [Procs -> Seq(Status)]
      /\ \A q \in Procs \ {p} : pc'[q] = pc[q] /\ results'[q] = results[q]
      /\ results'[p] = Append(results[p], s)
      /\ pc'[p] = IF InSwap(p) THEN "mount-check" ELSE "report"
  BY <1>3, <1>4 DEF Verdict, Report, Goto, TypeInv, NextResource
<1>6. PlaceInv(p)' /\ Len(results'[p]) <= 2
  BY <1>2, <1>3, <1>5 DEF PlaceInv, InSwapPC, InBackup, InMountPC
<1> QED BY <1>2, <1>5, <1>6, PlaceFrame
\* One step per action: where it leaves the process
LEMMA SwapPlaces ==
    ASSUME TypeInv, NEW p \in Procs,
           \/ Begin(p) \/ SwapCheck(p) \/ SwapOff(p) \/ SwapReadFstab(p)
           \/ SwapWriteFstab(p) \/ SwapListUnits(p) \/ SwapMask(p)
    PROVE  Places(p)
<1>0. results[p] \in Seq(Status) /\ PlaceInv(p) BY DEF TypeInv
<1>1. InSwap(p) <=> Len(results[p]) = 0 BY <1>0, EmptyType DEF InSwap
<1> USE DEF PCs, InSwapPC, InBackup, InMountPC
<1>2. CASE Begin(p)
  <2>1. << >> \in Seq(Status) OBVIOUS
  <2>2. Len(<< >>) = 0 OBVIOUS
  <2>3. /\ pc' \in [Procs -> PCs] /\ results' \in [Procs -> Seq(Status)]
        /\ \A q \in Procs \ {p} : pc'[q] = pc[q] /\ results'[q] = results[q]
        /\ pc'[p] = "swap-check" /\ results'[p] = << >>
    BY <1>2, <2>1 DEF Begin, Goto, TypeInv
  <2>4. PlaceInv(p)' /\ Len(results'[p]) <= 2 BY <2>2, <2>3 DEF PlaceInv
  <2> QED BY <2>3, <2>4, PlaceFrame
<1>3. CASE SwapCheck(p)
  <2>1. pc[p] = "swap-check" /\ Len(results[p]) = 0 BY <1>0, <1>3 DEF SwapCheck, PlaceInv
  <2>2. Moves(p, "swap-off") \/ \E s \in Status : Verdict(p, s)
    BY <1>3, StatusType DEF SwapCheck, Act, Failed, Moves, Verdict
  <2> QED BY <2>1, <2>2, MovesStep, VerdictStep
<1>4. CASE SwapOff(p)
  <2>1. pc[p] = "swap-off" /\ Len(results[p]) = 0 BY <1>0, <1>4 DEF SwapOff, PlaceInv
  <2>2. Moves(p, "swap-read") \/ \E s \in Status : Verdict(p, s)
    BY <1>4, StatusType DEF SwapOff, Failed, Moves, Verdict
  <2> QED BY <2>1, <2>2, MovesStep, VerdictStep
<1>5. CASE SwapReadFstab(p)
  <2>1. pc[p] = "swap-read" /\ Len(results[p]) = 0 BY <1>0, <1>5 DEF SwapReadFstab, PlaceInv
  <2>2. \/ \E l \in {"backup-read", "swap-units"} : Moves(p, l)
        \/ \E s \in Status : Verdict(p, s)
    BY <1>5, StatusType DEF SwapReadFstab, Failed, Moves, Verdict
  <2> QED BY <2>1, <2>2, MovesStep, VerdictStep
<1>6. CASE SwapWriteFstab(p)
  <2>1. pc[p] = "swap-write" /\ Len(results[p]) = 0 BY <1>0, <1>6 DEF SwapWriteFstab, PlaceInv
  <2>2. Moves(p, "swap-units") \/ \E s \in Status : Verdict(p, s)
    BY <1>6, StatusType DEF SwapWriteFstab, Failed, Moves, Verdict
  <2> QED BY <2>1, <2>2, MovesStep, VerdictStep
<1>7. CASE SwapListUnits(p)
  <2>1. pc[p] = "swap-units" /\ Len(results[p]) = 0 BY <1>0, <1>7 DEF SwapListUnits, PlaceInv
  <2>2. Moves(p, "swap-mask")
    BY <1>7 DEF SwapListUnits, Moves
  <2> QED BY <2>1, <2>2, MovesStep
<1>8. CASE SwapMask(p)
  <2>1. pc[p] = "swap-mask" /\ Len(results[p]) = 0 BY <1>0, <1>8 DEF SwapMask, PlaceInv
  <2>2. CASE UNCHANGED << pc, results >> BY <2>2, <1>0, PlaceFrame DEF TypeInv, TypeOK, PlaceInv
  <2>3. CASE \E s \in Status : Verdict(p, s) BY <2>1, <2>3, VerdictStep
  <2> QED BY <1>8, <1>1, <2>1, <2>2, <2>3, StatusType
          DEF SwapMask, Failed, Verdict, NextResource
<1> QED BY <1>2, <1>3, <1>4, <1>5, <1>6, <1>7, <1>8
LEMMA MountPlaces ==
    ASSUME TypeInv, NEW p \in Procs,
           \/ BackupRead(p) \/ BackupStat(p) \/ BackupOpen(p) \/ BackupWrite(p)
           \/ MountCheck(p) \/ MountMount(p) \/ MountReadFstab(p)
           \/ MountWriteFstab(p) \/ Finish(p) \/ Kill(p)
    PROVE  Places(p)
<1>0. results[p] \in Seq(Status) /\ Len(results[p]) \in Nat /\ PlaceInv(p)
  BY DEF TypeInv
<1>1. InSwap(p) <=> Len(results[p]) = 0 BY <1>0, EmptyType DEF InSwap
<1>b. pc[p] \in InBackup => /\ InSwap(p) => Len(results[p]) = 0
                            /\ ~InSwap(p) => Len(results[p]) = 1
                            /\ Len(results[p]) <= 1
  <2> SUFFICES ASSUME pc[p] \in InBackup
               PROVE  /\ Len(results[p]) <= 1
                      /\ Len(results[p]) # 0 => Len(results[p]) = 1
    BY <1>1
  <2>1. Len(results[p]) <= 1 BY <1>0 DEF PlaceInv
  <2>2. ASSUME NEW n \in Nat, n <= 1, n # 0 PROVE n = 1 BY <2>2
  <2> QED BY <1>0, <2>1, <2>2
<1> USE DEF PCs, InSwapPC, InBackup, InMountPC
<1> DEFINE Write == IF InSwap(p) THEN "swap-write" ELSE "mount-write"
<1>2. CASE BackupRead(p)
  <2>1. pc[p] = "backup-read" BY <1>2 DEF BackupRead
  <2>2. \/ \E l \in {"backup-stat", Write} : Moves(p, l)
        \/ \E s \in Status : Verdict(p, s)
    BY <1>2, StatusType DEF BackupRead, Failed, Moves, Verdict
  <2> QED BY <1>b, <2>1, <2>2, MovesStep, VerdictStep
<1>3. CASE BackupStat(p)
  <2>1. pc[p] = "backup-stat" BY <1>3 DEF BackupStat
  <2>2. \E l \in {"backup-open", Write} : Moves(p, l)
    BY <1>3 DEF BackupStat, Moves
  <2> QED BY <1>b, <2>1, <2>2, MovesStep
<1>4. CASE BackupOpen(p)
  <2>1. pc[p] = "backup-open" BY <1>4 DEF BackupOpen
  <2>2. Moves(p, "backup-write") \/ \E s \in Status : Verdict(p, s)
    BY <1>4, StatusType DEF BackupOpen, Failed, Moves, Verdict
  <2> QED BY <1>b, <2>1, <2>2, MovesStep, VerdictStep
<1>5. CASE BackupWrite(p)
  <2>1. pc[p] = "backup-write" BY <1>5 DEF BackupWrite
  <2>2. Moves(p, Write) \/ \E s \in Status : Verdict(p, s)
    BY <1>5, StatusType DEF BackupWrite, Failed, Moves, Verdict
  <2> QED BY <1>b, <2>1, <2>2, MovesStep, VerdictStep
<1>6. CASE MountCheck(p)
  <2>1. pc[p] = "mount-check" /\ Len(results[p]) = 1
    BY <1>0, <1>6 DEF MountCheck, PlaceInv
  <2>2. Moves(p, "mount-mount") \/ \E s \in Status : Verdict(p, s)
    BY <1>6, StatusType DEF MountCheck, Act, Failed, Moves, Verdict
  <2> QED BY <2>1, <2>2, MovesStep, VerdictStep
<1>7. CASE MountMount(p)
  <2>1. pc[p] = "mount-mount" /\ Len(results[p]) = 1
    BY <1>0, <1>7 DEF MountMount, PlaceInv
  <2>2. Moves(p, "mount-read") \/ \E s \in Status : Verdict(p, s)
    BY <1>7, StatusType DEF MountMount, Failed, Moves, Verdict
  <2> QED BY <2>1, <2>2, MovesStep, VerdictStep
<1>8. CASE MountReadFstab(p)
  <2>1. pc[p] = "mount-read" /\ Len(results[p]) = 1
    BY <1>0, <1>8 DEF MountReadFstab, PlaceInv
  <2>2. Moves(p, "backup-read") \/ \E s \in Status : Verdict(p, s)
    BY <1>1, <1>8, <2>1, StatusType
       DEF MountReadFstab, Failed, Moves, Verdict, NextResource
  <2>3. Len(results[p]) <= 1 BY <2>1
  <2> QED BY <2>1, <2>2, <2>3, MovesStep, VerdictStep
<1>9. CASE MountWriteFstab(p)
  <2>1. pc[p] = "mount-write" /\ Len(results[p]) = 1
    BY <1>0, <1>9 DEF MountWriteFstab, PlaceInv
  <2>2. \E s \in Status : Verdict(p, s)
    BY <1>1, <1>9, <2>1, StatusType DEF MountWriteFstab, Failed, Verdict, NextResource
  <2> QED BY <2>1, <2>2, VerdictStep
<1>10. CASE Finish(p) \/ Kill(p)
  <2>1. Moves(p, "idle") BY <1>10 DEF Finish, Kill, Moves
  <2> QED BY <2>1, MovesStep
<1> QED BY <1>2, <1>3, <1>4, <1>5, <1>6, <1>7, <1>8, <1>9, <1>10

\* What each step may do to the state it shares and to what it has read
LEMMA StepFiles ==
    ASSUME NEW p \in Procs, Step(p) \/ Kill(p)
    PROVE  /\ \/ fstab' = fstab
              \/ pc[p] = "swap-write" /\ fstab' = Commented(buf[p])
                 /\ Moves(p, "swap-units") /\ faults' = faults
              \/ pc[p] = "mount-write" /\ fstab' = WithBpf(buf[p])
                 /\ faults' = faults /\ Report(p, StatusChanged) /\ Goto(p, "report")
           /\ \/ backup' = backup
              \/ /\ pc[p] = "backup-open" /\ Goto(p, "backup-write")
                 /\ backup' = [there |-> TRUE, whole |-> FALSE, of |-> data[p]]
              \/ /\ pc[p] = "backup-write"
                 /\ backup' = [there |-> TRUE, whole |-> TRUE, of |-> data[p]]
           /\ \/ buf' = buf
              \/ pc[p] \in {"swap-read", "mount-read"} /\ buf' = [buf EXCEPT ![p] = fstab]
           /\ \/ data' = data
              \/ pc[p] = "backup-read" /\ data' = [data EXCEPT ![p] = fstab]
<1> USE DEF Moves
<1>1. CASE Begin(p) BY <1>1 DEF Begin
<1>2. CASE SwapCheck(p) BY <1>2 DEF SwapCheck
<1>3. CASE SwapOff(p) BY <1>3 DEF SwapOff
<1>4. CASE SwapReadFstab(p) BY <1>4 DEF SwapReadFstab
<1>5. CASE SwapWriteFstab(p) BY <1>5 DEF SwapWriteFstab
<1>6. CASE SwapListUnits(p) BY <1>6 DEF SwapListUnits
<1>7. CASE SwapMask(p) BY <1>7 DEF SwapMask
<1>8. CASE BackupRead(p) BY <1>8 DEF BackupRead
<1>9. CASE BackupStat(p) BY <1>9 DEF BackupStat
<1>10. CASE BackupOpen(p) BY <1>10 DEF BackupOpen
<1>11. CASE BackupWrite(p) BY <1>11 DEF BackupWrite
<1>12. CASE MountCheck(p) BY <1>12 DEF MountCheck
<1>13. CASE MountMount(p) BY <1>13 DEF MountMount
<1>14. CASE MountReadFstab(p) BY <1>14 DEF MountReadFstab
<1>15. CASE MountWriteFstab(p) BY <1>15 DEF MountWriteFstab
<1>16. CASE Finish(p) BY <1>16 DEF Finish
<1>17. CASE Kill(p) BY <1>17 DEF Kill
<1> QED BY <1>1, <1>2, <1>3, <1>4, <1>5, <1>6, <1>7, <1>8, <1>9, <1>10, <1>11, <1>12, <1>13, <1>14, <1>15, <1>16, <1>17 DEF Step

LEMMA StepHost ==
    ASSUME NEW p \in Procs, Step(p) \/ Kill(p)
    PROVE  /\ swapDevs' \subseteq swapDevs /\ listed' = listed
           /\ mounted' \in {mounted, TRUE}
           /\ masked' = masked \/ \E u \in units[p] : masked' = masked \cup {u}
           /\ \E U \in (SUBSET listed) \cup (SUBSET units[p]) :
                 units' = units \/ units' = [units EXCEPT ![p] = U]
           /\ faults' \in {faults, faults + 1} /\ runs' \in {runs, runs + 1}
           /\ edits' = edits /\ reboots' = reboots /\ raced' = raced
<1> USE DEF host, past, counts, Failed, Fault
<1>1. CASE Begin(p) BY <1>1 DEF Begin
<1>2. CASE SwapCheck(p) BY <1>2 DEF SwapCheck, Act
<1>3. CASE SwapOff(p) BY <1>3 DEF SwapOff
<1>4. CASE SwapReadFstab(p) BY <1>4 DEF SwapReadFstab
<1>5. CASE SwapWriteFstab(p) BY <1>5 DEF SwapWriteFstab
<1>6. CASE SwapListUnits(p) BY <1>6 DEF SwapListUnits
<1>7. CASE SwapMask(p)
  <2>1. \/ UNCHANGED << masked, units >>
        \/ \E u \in units[p] : masked' = masked \cup {u} /\ UNCHANGED units
        \/ \E u \in units[p] : /\ masked' = masked \cup {u}
                               /\ units' = [units EXCEPT ![p] = units[p] \ {u}]
    BY <1>7 DEF SwapMask
  <2>2. /\ masked' = masked \/ \E u \in units[p] : masked' = masked \cup {u}
        /\ \E U \in (SUBSET listed) \cup (SUBSET units[p]) :
                 units' = units \/ units' = [units EXCEPT ![p] = U]
    <3>1. \A u : units[p] \ {u} \in (SUBSET listed) \cup (SUBSET units[p]) OBVIOUS
    <3>2. {} \in (SUBSET listed) \cup (SUBSET units[p]) OBVIOUS
    <3> QED BY <2>1, <3>1, <3>2
  <2> QED BY <1>7, <2>2 DEF SwapMask
<1>8. CASE BackupRead(p) BY <1>8 DEF BackupRead
<1>9. CASE BackupStat(p) BY <1>9 DEF BackupStat
<1>10. CASE BackupOpen(p) BY <1>10 DEF BackupOpen
<1>11. CASE BackupWrite(p) BY <1>11 DEF BackupWrite
<1>12. CASE MountCheck(p) BY <1>12 DEF MountCheck, Act
<1>13. CASE MountMount(p) BY <1>13 DEF MountMount
<1>14. CASE MountReadFstab(p) BY <1>14 DEF MountReadFstab
<1>15. CASE MountWriteFstab(p) BY <1>15 DEF MountWriteFstab
<1>16. CASE Finish(p) BY <1>16 DEF Finish
<1>17. CASE Kill(p) BY <1>17 DEF Kill
<1> QED BY <1>1, <1>2, <1>3, <1>4, <1>5, <1>6, <1>7, <1>8, <1>9, <1>10, <1>11, <1>12, <1>13, <1>14, <1>15, <1>16, <1>17 DEF Step

\* ... and to its history: the run's verdict, counted when it ends
LEMMA StepPast ==
    ASSUME NEW p \in Procs, Step(p) \/ Kill(p)
    PROVE  \/ /\ Begin(p) /\ calm' = [calm EXCEPT ![p] = TRUE]
              /\ UNCHANGED << clean, booted >>
           \/ /\ Finish(p) /\ calm' = calm /\ booted' = FALSE
              /\ clean' = (ExitCode(results[p], ModeApply) = 0 /\ calm[p])
           \/ Kill(p) /\ calm' = calm /\ clean' = FALSE /\ booted' = FALSE
           \/ calm' = calm /\ UNCHANGED << clean, booted >> /\ pc[p] # "idle"
<1> USE DEF past
<1>1. CASE Begin(p) BY <1>1 DEF Begin
<1>2. CASE SwapCheck(p) BY <1>2 DEF SwapCheck
<1>3. CASE SwapOff(p) BY <1>3 DEF SwapOff
<1>4. CASE SwapReadFstab(p) BY <1>4 DEF SwapReadFstab
<1>5. CASE SwapWriteFstab(p) BY <1>5 DEF SwapWriteFstab
<1>6. CASE SwapListUnits(p) BY <1>6 DEF SwapListUnits
<1>7. CASE SwapMask(p) BY <1>7 DEF SwapMask
<1>8. CASE BackupRead(p) BY <1>8 DEF BackupRead
<1>9. CASE BackupStat(p) BY <1>9 DEF BackupStat
<1>10. CASE BackupOpen(p) BY <1>10 DEF BackupOpen
<1>11. CASE BackupWrite(p) BY <1>11 DEF BackupWrite
<1>12. CASE MountCheck(p) BY <1>12 DEF MountCheck
<1>13. CASE MountMount(p) BY <1>13 DEF MountMount
<1>14. CASE MountReadFstab(p) BY <1>14 DEF MountReadFstab
<1>15. CASE MountWriteFstab(p) BY <1>15 DEF MountWriteFstab
<1>16. CASE Finish(p) BY <1>16 DEF Finish
<1>17. CASE Kill(p) BY <1>17 DEF Kill
<1> QED BY <1>1, <1>2, <1>3, <1>4, <1>5, <1>6, <1>7, <1>8, <1>9, <1>10, <1>11, <1>12, <1>13, <1>14, <1>15, <1>16, <1>17 DEF Step

\* What once went wrong stays on record
LEMMA StepFlaws ==
    ASSUME NEW p \in Procs, Step(p) \/ Kill(p)
    PROVE  /\ blind' = blind \/ blind' = TRUE
           /\ cut' = cut \/ cut' = TRUE \/ cut' = (cut \/ pc[p] = "backup-write")
           /\ \/ blurred' = blurred \/ blurred' = TRUE
              \/ blurred' = (blurred \/ \E q \in Procs : pc[q] # "idle")
<1> USE DEF past
<1>1. CASE Begin(p) BY <1>1 DEF Begin
<1>2. CASE SwapCheck(p) BY <1>2 DEF SwapCheck
<1>3. CASE SwapOff(p) BY <1>3 DEF SwapOff
<1>4. CASE SwapReadFstab(p) BY <1>4 DEF SwapReadFstab
<1>5. CASE SwapWriteFstab(p) BY <1>5 DEF SwapWriteFstab
<1>6. CASE SwapListUnits(p) BY <1>6 DEF SwapListUnits
<1>7. CASE SwapMask(p) BY <1>7 DEF SwapMask
<1>8. CASE BackupRead(p) BY <1>8 DEF BackupRead
<1>9. CASE BackupStat(p) BY <1>9 DEF BackupStat
<1>10. CASE BackupOpen(p) BY <1>10 DEF BackupOpen
<1>11. CASE BackupWrite(p) BY <1>11 DEF BackupWrite
<1>12. CASE MountCheck(p) BY <1>12 DEF MountCheck
<1>13. CASE MountMount(p) BY <1>13 DEF MountMount
<1>14. CASE MountReadFstab(p) BY <1>14 DEF MountReadFstab
<1>15. CASE MountWriteFstab(p) BY <1>15 DEF MountWriteFstab
<1>16. CASE Finish(p) BY <1>16 DEF Finish
<1>17. CASE Kill(p) BY <1>17 DEF Kill
<1> QED BY <1>1, <1>2, <1>3, <1>4, <1>5, <1>6, <1>7, <1>8, <1>9, <1>10, <1>11, <1>12, <1>13, <1>14, <1>15, <1>16, <1>17 DEF Step

LEMMA TypeStep == TypeInv /\ [Next]_vars => TypeInv'
<1> SUFFICES ASSUME TypeInv, [Next]_vars PROVE TypeInv' OBVIOUS
<1>f. fstab \in Content /\ buf \in [Procs -> Content] /\ data \in [Procs -> Content]
  BY DEF TypeInv, TypeOK
<1>b. backup \in [there : BOOLEAN, whole : BOOLEAN, of : Content] BY DEF TypeInv, TypeOK
<1>h. /\ swapDevs \subseteq Units /\ listed \subseteq Units /\ masked \subseteq Units
      /\ units \in [Procs -> SUBSET Units]
  BY DEF TypeInv, TypeOK
<1>1. ASSUME NEW p \in Procs, Step(p) \/ Kill(p) PROVE TypeInv'
  <2>1. Places(p) BY <1>1, SwapPlaces, MountPlaces DEF Step
  <2>2. buf[p] \in Content /\ data[p] \in Content BY <1>f
  <2>3. fstab' \in Content BY <1>1, <1>f, <2>2, StepFiles, RewriteType
  <2>4. buf' \in [Procs -> Content] /\ data' \in [Procs -> Content]
    BY <1>1, <1>f, <2>2, StepFiles
  <2>5. backup' \in [there : BOOLEAN, whole : BOOLEAN, of : Content]
    <3>1. ASSUME NEW w \in BOOLEAN
          PROVE  [there |-> TRUE, whole |-> w, of |-> data[p]]
                     \in [there : BOOLEAN, whole : BOOLEAN, of : Content]
      BY <2>2
    <3>2. \/ backup' = backup
          \/ \E w \in BOOLEAN : backup' = [there |-> TRUE, whole |-> w, of |-> data[p]]
      BY <1>1, StepFiles
    <3> QED BY <1>b, <3>1, <3>2
  <2>6. swapDevs' \subseteq Units /\ listed' \subseteq Units BY <1>1, <1>h, StepHost
  <2>7. masked' \subseteq Units /\ units' \in [Procs -> SUBSET Units]
    <3>1. units[p] \subseteq Units BY <1>h
    <3>2. \A U \in (SUBSET listed) \cup (SUBSET units[p]) : U \in SUBSET Units
      BY <1>h, <3>1
    <3>3. masked' = masked \/ \E u \in units[p] : masked' = masked \cup {u}
      BY <1>1, StepHost
    <3>4. PICK U \in (SUBSET listed) \cup (SUBSET units[p]) :
                 units' = units \/ units' = [units EXCEPT ![p] = U]
      BY <1>1, StepHost
    <3> QED BY <1>h, <3>1, <3>2, <3>3, <3>4
  <2>8. mounted' \in BOOLEAN /\ raced' \in BOOLEAN
    BY <1>1, StepHost DEF TypeInv, TypeOK
  <2>9. {faults', edits', reboots', runs'} \subseteq Nat
    <3>1. faults \in Nat /\ edits \in Nat /\ reboots \in Nat /\ runs \in Nat
      BY DEF TypeInv
    <3>2. /\ faults' \in {faults, faults + 1} /\ runs' \in {runs, runs + 1}
          /\ edits' = edits /\ reboots' = reboots
      BY <1>1, StepHost
    <3> QED BY <3>1, <3>2
  <2>10. calm' \in [Procs -> BOOLEAN] BY <1>1, StepPast DEF TypeInv, TypeOK
  <2>11. clean' \in BOOLEAN /\ booted' \in BOOLEAN BY <1>1, StepPast DEF TypeInv, TypeOK
  <2>12. blind' \in BOOLEAN /\ cut' \in BOOLEAN /\ blurred' \in BOOLEAN
    BY <1>1, StepFlaws DEF TypeInv, TypeOK
  <2> QED BY <2>1, <2>3, <2>4, <2>5, <2>6, <2>7, <2>8, <2>9, <2>10, <2>11, <2>12
          DEF Places, TypeInv, TypeOK
<1> USE DEF TypeInv, TypeOK
<1>2. CASE SystemdNotices
  BY <1>2 DEF SystemdNotices, run, past, counts, PlaceInv
<1>3. CASE OperatorEdits
  <2>1. /\ UNCHANGED << pc, results, buf, data, units, backup, swapDevs, listed, masked,
                       mounted, faults, reboots, runs, blind, cut, blurred >>
        /\ edits' \in Nat
    BY <1>3 DEF OperatorEdits, host, run
  <2>2. fstab' \in Content
    <3>1. fstab.lines \in SUBSET Lines BY DEF Content
    <3>2. CASE \E l \in SUBSET Lines : fstab' = [fstab EXCEPT !.lines = l]
      BY <3>2 DEF Content
    <3>3. CASE fstab' = [fstab EXCEPT !.swap = "active"]
      BY <3>3 DEF Content
    <3>4. \A l \in Lines : /\ fstab.lines \ {l} \in SUBSET Lines
                          /\ fstab.lines \cup {l} \in SUBSET Lines
      BY <3>1
    <3> QED BY <1>3, <3>2, <3>3, <3>4 DEF OperatorEdits
  <2>3. /\ calm' \in [Procs -> BOOLEAN] /\ clean' \in BOOLEAN /\ booted' \in BOOLEAN
        /\ raced' \in BOOLEAN
    BY <1>3 DEF OperatorEdits
  <2> QED BY <2>1, <2>2, <2>3 DEF PlaceInv
<1>4. CASE Reboot
  <2>1. /\ UNCHANGED << fstab, backup, masked, buf, data, units, results, calm, raced,
                       blind, blurred, faults, edits, runs >>
        /\ reboots' \in Nat
    BY <1>4 DEF Reboot
  <2>2. swapDevs' \subseteq Units /\ listed' \subseteq Units
    BY <1>4 DEF Reboot
  <2>3. mounted' \in BOOLEAN BY <1>4 DEF Reboot, FstabLineExists
  <2>4. booted' \in BOOLEAN /\ clean' \in BOOLEAN /\ cut' \in BOOLEAN BY <1>4 DEF Reboot
  <2>5. pc' \in [Procs -> PCs] /\ \A q \in Procs : pc'[q] = "idle"
    BY <1>4 DEF Reboot, PCs
  <2>6. \A q \in Procs : PlaceInv(q)'
    BY <2>5 DEF PlaceInv, InSwapPC, InBackup, InMountPC
  <2> QED BY <2>1, <2>2, <2>3, <2>4, <2>5, <2>6
<1>5. CASE UNCHANGED vars
  BY <1>5 DEF vars, host, run, past, counts, PlaceInv
<1> QED BY <1>1, <1>2, <1>3, <1>4, <1>5 DEF Next
LEMMA TypeInvariant == Spec => []TypeInv
BY InitType, TypeStep, PTL DEF Spec

-----------------------------------------------------------------------------
(* The files.                                                               *)

\* A backup a process is writing is finished, or cut short
LEMMA StepWhole ==
    ASSUME NEW p \in Procs, Step(p) \/ Kill(p), pc[p] = "backup-write"
    PROVE  \/ backup' = [there |-> TRUE, whole |-> TRUE, of |-> data[p]]
           \/ backup' = backup /\ cut'
<1>1. BackupWrite(p) \/ Kill(p)
  BY DEF Step, Begin, SwapCheck, SwapOff, SwapReadFstab, SwapWriteFstab, SwapListUnits,
         SwapMask, BackupRead, BackupStat, BackupOpen, MountCheck, MountMount,
         MountReadFstab, MountWriteFstab, Finish
<1> QED BY <1>1 DEF BackupWrite, Kill

LEMMA StepFstab ==
    ASSUME TypeInv, FilesInv, NEW p \in Procs, Step(p) \/ Kill(p)
    PROVE  /\ fstab.exists => fstab'.exists
           /\ ~raced => fstab'.lines = fstab.lines
           /\ fstab'.swap = "active" => fstab'.exists
           /\ fstab'.bpf <= 1
           /\ fstab'.touched => backup.there
<1>1. buf[p] \in Content /\ fstab \in Content /\ FileInv(p)
  BY DEF TypeInv, TypeOK, FilesInv
<1>2. CASE fstab' = fstab BY <1>2 DEF FilesInv
<1>3. CASE pc[p] = "swap-write" /\ fstab' = Commented(buf[p])
  <2>1. /\ fstab'.exists = buf[p].exists /\ fstab'.lines = buf[p].lines
        /\ fstab'.swap = "disabled" /\ fstab'.bpf = buf[p].bpf
    BY <1>1, <1>3 DEF Commented, Content
  <2>2. PlaceInv(p) /\ results[p] \in Seq(Status) BY DEF TypeInv
  <2>3. InSwap(p) /\ Holds(p)
    BY <1>3, <2>2, EmptyType DEF PlaceInv, InSwapPC, InSwap, Holds
  <2>4. buf[p].exists /\ buf[p].bpf <= 1 /\ backup.there
        /\ (~raced => buf[p].lines = fstab.lines)
    BY <1>1, <1>3, <2>3 DEF FileInv
  <2> QED BY <2>1, <2>4
<1>4. CASE pc[p] = "mount-write" /\ fstab' = WithBpf(buf[p])
  <2>1. /\ fstab'.exists = TRUE /\ fstab'.lines = buf[p].lines
        /\ fstab'.touched = buf[p].exists /\ fstab'.bpf = buf[p].bpf + 1
    BY <1>1, <1>4 DEF WithBpf, Content
  <2>2. PlaceInv(p) /\ results[p] \in Seq(Status) BY DEF TypeInv
  <2>3. ~InSwap(p) /\ Holds(p)
    <3>1. pc[p] = "mount-write" BY <1>4
    <3>2. Len(results[p]) = 1 BY <2>2, <3>1 DEF PlaceInv, InMountPC
    <3>3. results[p] # << >> BY <2>2, <3>2, EmptyType
    <3> QED BY <3>1, <3>3 DEF InSwap, Holds
  <2>4. buf[p].bpf = 0 /\ (buf[p].exists => backup.there)
        /\ (~raced => buf[p].lines = fstab.lines)
    <3>1. pc[p] = "mount-write" BY <1>4
    <3> QED BY <1>1, <3>1, <2>3 DEF FileInv
  <2> QED BY <2>1, <2>4
<1> QED BY <1>2, <1>3, <1>4, StepFiles

LEMMA StepBackup ==
    ASSUME TypeInv, FilesInv, NEW p \in Procs, Step(p) \/ Kill(p)
    PROVE  /\ backup.there => backup'.there
           /\ backup'.of.touched => blind'
           /\ backup'.there => \/ backup'.whole \/ cut'
                              \/ \E q \in Procs : pc'[q] = "backup-write"
<1>1. FileInv(p) BY DEF FilesInv
<1>2. (blind => blind') /\ (cut => cut') BY StepFlaws
<1>3. CASE backup' = backup
  <2>1. backup'.of.touched => blind' BY <1>2, <1>3 DEF FilesInv, BackupIsUntouched
  <2>2. ASSUME NEW q \in Procs, pc[q] = "backup-write"
        PROVE  backup'.whole \/ cut' \/ \E r \in Procs : pc'[r] = "backup-write"
    <3>1. CASE q = p
      <4>1. \/ backup' = [there |-> TRUE, whole |-> TRUE, of |-> data[p]]
            \/ cut'
        BY <2>2, <3>1, StepWhole
      <4>2. ASSUME backup' = [there |-> TRUE, whole |-> TRUE, of |-> data[p]]
            PROVE  backup'.whole
        BY <4>2
      <4> QED BY <4>1, <4>2
    <3>2. CASE q # p
      <4>1. Places(p) BY SwapPlaces, MountPlaces DEF Step
      <4> QED BY <2>2, <3>2, <4>1 DEF Places
    <3> QED BY <3>1, <3>2
  <2> QED BY <1>2, <1>3, <2>1, <2>2 DEF FilesInv
<1>4. CASE /\ pc[p] = "backup-open" /\ Goto(p, "backup-write")
           /\ backup' = [there |-> TRUE, whole |-> FALSE, of |-> data[p]]
  <2>1. pc'[p] = "backup-write" BY <1>4 DEF Goto, TypeInv
  <2>2. data[p].touched => blind BY <1>1, <1>4 DEF FileInv
  <2> QED BY <1>2, <1>4, <2>1, <2>2
<1>5. CASE /\ pc[p] = "backup-write"
           /\ backup' = [there |-> TRUE, whole |-> TRUE, of |-> data[p]]
  <2>1. data[p].touched => blind BY <1>1, <1>5 DEF FileInv
  <2> QED BY <1>2, <1>5, <2>1
<1> QED BY <1>3, <1>4, <1>5, StepFiles
\* The process that took the step.  Where it holds nothing, only what it read
\* last matters.
LEMMA NotHolding ==
    ASSUME TypeInv, FilesInv, NEW p \in Procs, Step(p) \/ Kill(p), ~Holds(p)'
    PROVE  FileInv(p)'
<1>1. FileInv(p) /\ buf \in [Procs -> Content] BY DEF FilesInv, TypeInv, TypeOK
<1>2. buf'[p] = buf[p] \/ buf'[p] = fstab BY <1>1, StepFiles
<1>3. /\ fstab.exists => fstab'.exists
      /\ backup.there => backup'.there
  BY StepFstab, StepBackup
<1>4. /\ buf'[p].swap = "active" => buf'[p].exists
      /\ buf'[p].exists => fstab'.exists
      /\ buf'[p].bpf <= 1
      /\ buf'[p].touched => backup'.there
  <2>1. CASE buf'[p] = buf[p] BY <1>1, <1>3, <2>1 DEF FileInv
  <2>2. CASE buf'[p] = fstab BY <1>3, <2>2 DEF FilesInv
  <2> QED BY <1>2, <2>1, <2>2
<1>5. pc'[p] \notin InBackup /\ pc'[p] # "swap-write" /\ pc'[p] # "mount-write"
  BY DEF Holds
<1> QED BY <1>4, <1>5 DEF FileInv, Holds, InBackup

LEMMA OwnFiles ==
    ASSUME TypeInv, FilesInv, NEW p \in Procs, Step(p) \/ Kill(p)
    PROVE  FileInv(p)'
<1>1. /\ FileInv(p) /\ pc \in [Procs -> PCs] /\ buf \in [Procs -> Content]
      /\ data \in [Procs -> Content] /\ fstab \in Content
  BY DEF FilesInv, TypeInv, TypeOK
<1>2. PlaceInv(p) /\ results[p] \in Seq(Status) BY DEF TypeInv
<1>3. CASE ~Holds(p)' BY <1>3, NotHolding
<1>4. CASE SwapReadFstab(p) /\ Holds(p)'
  <2>1. pc[p] = "swap-read" BY <1>4 DEF SwapReadFstab
  <2>2. InSwap(p) BY <1>2, <2>1, EmptyType DEF PlaceInv, InSwapPC, InSwap
  <2>3. pc'[p] = "backup-read" /\ buf'[p] = fstab /\ fstab.swap = "active"
        /\ UNCHANGED << fstab, backup, results, raced >>
    BY <1>1, <1>4, <2>2 DEF SwapReadFstab, Goto, Holds, InBackup, Failed, NextResource,
       FstabHasActiveSwapLines, past
  <2> QED BY <2>2, <2>3 DEF FileInv, FilesInv, Holds, InSwap
<1>5. CASE MountReadFstab(p) /\ Holds(p)'
  <2>1. pc[p] = "mount-read" BY <1>5 DEF MountReadFstab
  <2>2. ~InSwap(p) BY <1>2, <2>1, EmptyType DEF PlaceInv, InMountPC, InSwap
  <2>3. pc'[p] = "backup-read" /\ buf'[p] = fstab /\ ~FstabLineExists(fstab)
        /\ UNCHANGED << fstab, backup, results, raced >>
    BY <1>1, <1>5, <2>2 DEF MountReadFstab, Goto, Holds, InBackup, Failed, NextResource, past
  <2>4. fstab.bpf = 0 BY <1>1, <2>3 DEF FstabLineExists, Content
  <2> QED BY <2>2, <2>3, <2>4 DEF FileInv, FilesInv, Holds, InSwap
<1>6. CASE BackupRead(p) /\ Holds(p)'
  <2>1. Holds(p) BY <1>6 DEF BackupRead, Holds, InBackup
  <2>2. /\ pc'[p] = IF fstab.exists THEN "backup-stat"
                    ELSE IF InSwap(p) THEN "swap-write" ELSE "mount-write"
        /\ data'[p] = fstab /\ buf'[p] = buf[p]
        /\ UNCHANGED << fstab, backup, results, raced >>
    BY <1>1, <1>6 DEF BackupRead, Goto, Holds, InBackup, Failed, NextResource, past
  <2>3. InSwap(p) => fstab.exists BY <1>1, <2>1 DEF FileInv
  <2> QED BY <1>1, <2>1, <2>2, <2>3 DEF FileInv, FilesInv, Holds, InSwap
<1>7. CASE BackupStat(p)
  <2>1. Holds(p) BY <1>7 DEF BackupStat, Holds, InBackup
  <2>2. /\ \/ /\ pc'[p] = IF ~backup.there THEN "backup-open"
                          ELSE IF InSwap(p) THEN "swap-write" ELSE "mount-write"
              /\ blind' = blind
           \/ pc'[p] = "backup-open" /\ blind'
        /\ data'[p] = data[p] /\ buf'[p] = buf[p]
        /\ UNCHANGED << fstab, backup, results, raced >> /\ pc[p] = "backup-stat"
    BY <1>1, <1>7 DEF BackupStat, Goto
  <2>3. CASE pc'[p] = "backup-open" /\ blind'
    BY <1>1, <2>1, <2>2, <2>3 DEF FileInv, Holds, InSwap, InBackup
  <2>4. CASE /\ pc'[p] = IF ~backup.there THEN "backup-open"
                          ELSE IF InSwap(p) THEN "swap-write" ELSE "mount-write"
             /\ blind' = blind
    BY <1>1, <2>1, <2>2, <2>4 DEF FileInv, Holds, InSwap
  <2> QED BY <2>2, <2>3, <2>4
<1>8. CASE BackupOpen(p) /\ Holds(p)'
  <2>1. Holds(p) BY <1>8 DEF BackupOpen, Holds, InBackup
  <2>2. /\ pc'[p] = "backup-write" /\ data'[p] = data[p] /\ buf'[p] = buf[p]
        /\ UNCHANGED << fstab, results, raced, blind >> /\ pc[p] = "backup-open"
        /\ backup'.there
    BY <1>1, <1>8 DEF BackupOpen, Goto, Holds, InBackup, Failed, NextResource, past
  <2> QED BY <1>1, <2>1, <2>2 DEF FileInv, Holds, InSwap
<1>9. CASE BackupWrite(p) /\ Holds(p)'
  <2>1. Holds(p) BY <1>9 DEF BackupWrite, Holds, InBackup
  <2>2. /\ pc'[p] = IF InSwap(p) THEN "swap-write" ELSE "mount-write"
        /\ data'[p] = data[p] /\ buf'[p] = buf[p]
        /\ UNCHANGED << fstab, results, raced >>
        /\ backup'.there
    BY <1>1, <1>9 DEF BackupWrite, Goto, Holds, InBackup, Failed, NextResource
  <2> QED BY <1>1, <2>1, <2>2 DEF FileInv, Holds, InSwap
<1>10. ASSUME ~SwapReadFstab(p), ~MountReadFstab(p), ~BackupRead(p), ~BackupStat(p),
              ~BackupOpen(p), ~BackupWrite(p)
       PROVE  ~Holds(p)'
  <2> USE <1>1 DEF Holds, InBackup, Goto
  <2>1. CASE Begin(p) \/ Finish(p) \/ Kill(p) BY <2>1 DEF Begin, Finish, Kill
  <2>2. CASE SwapCheck(p) \/ SwapOff(p) \/ SwapWriteFstab(p) \/ SwapListUnits(p)
    BY <2>2 DEF SwapCheck, SwapOff, SwapWriteFstab, SwapListUnits, Act, Failed, NextResource
  <2>3. CASE SwapMask(p) BY <2>3 DEF SwapMask, Failed, NextResource
  <2>4. CASE MountCheck(p) \/ MountMount(p) \/ MountWriteFstab(p)
    BY <2>4 DEF MountCheck, MountMount, MountWriteFstab, Act, Failed, NextResource
  <2> QED BY <1>10, <2>1, <2>2, <2>3, <2>4 DEF Step
<1> QED BY <1>3, <1>4, <1>5, <1>6, <1>7, <1>8, <1>9, <1>10
LEMMA InitFiles == Init => FilesInv
<1> SUFFICES ASSUME Init PROVE FilesInv OBVIOUS
<1>1. /\ ~fstab.touched /\ fstab.bpf <= 1 /\ (fstab.swap = "active" => fstab.exists)
  <2>1. CASE fstab = NoFstab BY <2>1 DEF NoFstab
  <2>2. CASE fstab \in [exists : {TRUE}, swap : {"none", "active"}, bpf : 0 .. 1,
                        lines : SUBSET Lines, touched : {FALSE}]
    <3>1. fstab.exists = TRUE BY <2>2, Zenon
    <3>2. fstab.touched = FALSE BY <2>2, Zenon
    <3>3. fstab.bpf <= 1 BY <2>2
    <3> QED BY <3>1, <3>2, <3>3
  <2> QED BY <2>1, <2>2 DEF Init
<1>2. ~backup.there /\ BackupIsUntouched
  BY DEF Init, NoBackup, NoFstab, BackupIsUntouched
<1>3. ASSUME NEW p \in Procs PROVE FileInv(p)
  <2>1. buf[p] = NoFstab /\ pc[p] = "idle" BY DEF Init
  <2> QED BY <2>1 DEF FileInv, Holds, InBackup, NoFstab
<1> QED BY <1>1, <1>2, <1>3 DEF FilesInv

LEMMA FilesStep == TypeInv /\ FilesInv /\ [Next]_vars => FilesInv'
<1> SUFFICES ASSUME TypeInv, FilesInv, [Next]_vars PROVE FilesInv' OBVIOUS
<1>1. ASSUME NEW p \in Procs, Step(p) \/ Kill(p) PROVE FilesInv'
  <2>1. ASSUME NEW q \in Procs, q # p PROVE FileInv(q)'
    <3>1. FileInv(q) /\ buf \in [Procs -> Content] /\ data \in [Procs -> Content]
      BY DEF FilesInv, TypeInv, TypeOK
    <3>2. Places(p) BY <1>1, SwapPlaces, MountPlaces DEF Step
    <3>3. pc'[q] = pc[q] /\ results'[q] = results[q] BY <2>1, <3>2 DEF Places
    <3>4. buf'[q] = buf[q] /\ data'[q] = data[q] BY <1>1, <2>1, <3>1, StepFiles
    <3>5. raced' = raced BY <1>1, StepHost
    <3>6. /\ fstab.exists => fstab'.exists
          /\ ~raced => fstab'.lines = fstab.lines
          /\ backup.there => backup'.there
          /\ blind => blind'
      BY <1>1, StepFstab, StepBackup, StepFlaws
    <3> QED BY <3>1, <3>3, <3>4, <3>5, <3>6 DEF FileInv, Holds, InSwap
  <2>2. \A q \in Procs : FileInv(q)' BY <1>1, <2>1, OwnFiles
  <2> QED BY <1>1, <2>2, StepFstab, StepBackup DEF FilesInv, BackupIsUntouched
<1>2. CASE SystemdNotices
  BY <1>2 DEF SystemdNotices, run, past, FilesInv, FileInv, Holds, InSwap,
              BackupIsUntouched
<1>3. CASE OperatorEdits
  <2>1. /\ UNCHANGED << pc, results, buf, data, backup, blind, cut >>
        /\ fstab.exists /\ raced' = (raced \/ \E p \in Procs : pc[p] # "idle")
    BY <1>3 DEF OperatorEdits, run
  <2>2. /\ fstab'.exists = fstab.exists /\ fstab'.touched = fstab.touched
        /\ fstab'.bpf = fstab.bpf
    BY <1>3 DEF OperatorEdits, TypeInv, TypeOK, Content
  <2>3. ASSUME NEW p \in Procs PROVE FileInv(p)'
    <3>1. FileInv(p) BY DEF FilesInv
    <3>2. ~raced' => ~Holds(p) BY <2>1 DEF Holds, InBackup
    <3> QED BY <2>1, <2>2, <3>1, <3>2 DEF FileInv, Holds, InSwap
  <2> QED BY <2>1, <2>2, <2>3 DEF FilesInv, BackupIsUntouched
<1>4. CASE Reboot
  <2>1. /\ UNCHANGED << fstab, backup, buf, data, results, raced, blind >>
        /\ cut' = (cut \/ \E p \in Procs : pc[p] = "backup-write")
        /\ \A q \in Procs : pc'[q] = "idle"
    BY <1>4 DEF Reboot
  <2>2. ASSUME NEW p \in Procs PROVE FileInv(p)'
    <3>1. FileInv(p) BY DEF FilesInv
    <3> QED BY <2>1, <3>1 DEF FileInv, Holds, InBackup
  <2> QED BY <2>1, <2>2 DEF FilesInv, BackupIsUntouched
<1>5. CASE UNCHANGED vars
  BY <1>5 DEF vars, run, past, FilesInv, FileInv, Holds, InSwap, BackupIsUntouched
<1> QED BY <1>1, <1>2, <1>3, <1>4, <1>5 DEF Next

LEMMA FilesInvariant == Spec => []FilesInv
BY InitFiles, FilesStep, TypeInvariant, PTL DEF Spec
-----------------------------------------------------------------------------
(* Verdicts.                                                                *)

\* A step that gives no verdict: from where to where, and what was looked at
Goes(p) ==
    \/ pc[p] = "swap-check" /\ Moves(p, "swap-off") /\ fstab' = fstab
    \/ pc[p] = "swap-off" /\ Moves(p, "swap-read") /\ swapDevs' = {} /\ fstab' = fstab
    \/ /\ pc[p] = "swap-read" /\ Moves(p, "swap-units")
       /\ fstab.swap # "active" /\ fstab' = fstab
    \/ /\ pc[p] \in {"swap-read", "mount-read"} /\ Moves(p, "backup-read")
       /\ buf' = [buf EXCEPT ![p] = fstab] /\ fstab' = fstab
    \/ pc[p] \in {"swap-units", "swap-mask"} /\ Moves(p, "swap-mask") /\ fstab' = fstab
    \/ /\ pc[p] = "swap-write" /\ Moves(p, "swap-units")
       /\ fstab' = Commented(buf[p])
    \/ /\ pc[p] \in InBackup /\ fstab' = fstab /\ buf' = buf
       /\ \E l \in {"backup-stat", "backup-open", "backup-write",
                   IF InSwap(p) THEN "swap-write" ELSE "mount-write"} : Moves(p, l)
    \/ pc[p] = "mount-check" /\ Moves(p, "mount-mount") /\ fstab' = fstab
    \/ pc[p] = "mount-mount" /\ Moves(p, "mount-read") /\ mounted' = TRUE /\ fstab' = fstab

\* A step that gives the current resource's verdict s
Ends(p, s) ==
    /\ Verdict(p, s) /\ pc[p] \in InSwapPC \cup InBackup \cup InMountPC
    /\ \/ s = StatusFailed /\ fstab' = fstab
       \/ /\ pc[p] = "swap-check" /\ swapDevs = {} /\ fstab' = fstab
          /\ blurred' \/ fstab.swap # "active"
       \/ pc[p] = "swap-mask" /\ fstab' = fstab
       \/ pc[p] = "mount-check" /\ mounted /\ fstab.bpf > 0 /\ fstab' = fstab
       \/ pc[p] = "mount-read" /\ fstab.bpf > 0 /\ fstab' = fstab
       \/ pc[p] = "mount-write" /\ fstab' = WithBpf(buf[p])

LEMMA StepVerdict ==
    ASSUME TypeInv, NEW p \in Procs, Step(p) \/ Kill(p)
    PROVE  \/ Begin(p) \/ Finish(p) \/ Kill(p) \/ Goes(p)
           \/ \E s \in Status : Ends(p, s)
<1>0. pc \in [Procs -> PCs] /\ PlaceInv(p) /\ results[p] \in Seq(Status) BY DEF TypeInv
<1>i. /\ pc[p] \in InSwapPC => InSwap(p)
      /\ pc[p] \in InMountPC => ~InSwap(p)
  BY <1>0, EmptyType DEF PlaceInv, InSwap
<1> USE StatusType DEF Goes, Ends, Moves, Verdict, Failed, NextResource, InSwapPC, InBackup, InMountPC
<1>1. CASE SwapCheck(p)
  BY <1>0, <1>i, <1>1 DEF SwapCheck, Act, SwapDrift, FstabHasActiveSwapLines
<1>2. CASE SwapOff(p)
  BY <1>0, <1>i, <1>2 DEF SwapOff
<1>3. CASE SwapReadFstab(p)
  BY <1>0, <1>i, <1>3 DEF SwapReadFstab, FstabHasActiveSwapLines
<1>4. CASE SwapWriteFstab(p)
  BY <1>0, <1>i, <1>4 DEF SwapWriteFstab
<1>5. CASE SwapListUnits(p)
  BY <1>0, <1>i, <1>5 DEF SwapListUnits
<1>6. CASE SwapMask(p)
  <2>1. pc[p] = "swap-mask" BY <1>6 DEF SwapMask
  <2>2. CASE UNCHANGED << pc, results >>
    <3>1. Goto(p, "swap-mask") BY <1>0, <2>1, <2>2 DEF Goto
    <3> QED BY <1>6, <2>1, <2>2, <3>1 DEF SwapMask
  <2>3. CASE Failed(p) \/ (Report(p, StatusChanged) /\ Goto(p, "mount-check"))
    BY <1>i, <1>6, <2>1, <2>3 DEF SwapMask
  <2> QED BY <1>6, <2>2, <2>3 DEF SwapMask
<1>7. CASE BackupRead(p)
  BY <1>0, <1>i, <1>7 DEF BackupRead
<1>8. CASE BackupStat(p)
  BY <1>0, <1>i, <1>8 DEF BackupStat
<1>9. CASE BackupOpen(p)
  BY <1>0, <1>i, <1>9 DEF BackupOpen
<1>10. CASE BackupWrite(p)
  BY <1>0, <1>i, <1>10 DEF BackupWrite
<1>11. CASE MountCheck(p)
  BY <1>0, <1>i, <1>11 DEF MountCheck, Act, MountDrift, FstabLineExists, NoFstab
<1>12. CASE MountMount(p)
  BY <1>0, <1>i, <1>12 DEF MountMount
<1>13. CASE MountReadFstab(p)
  BY <1>0, <1>i, <1>13 DEF MountReadFstab, FstabLineExists
<1>14. CASE MountWriteFstab(p)
  BY <1>0, <1>i, <1>14 DEF MountWriteFstab
<1> QED BY <1>1, <1>2, <1>3, <1>4, <1>5, <1>6, <1>7, <1>8, <1>9, <1>10, <1>11, <1>12, <1>13, <1>14 DEF Step
LEMMA AppendPassed ==
    ASSUME NEW r \in Seq(Status), NEW s \in Status
    PROVE  /\ Len(r) = 0 => /\ 1 \in DOMAIN Append(r, s) /\ Append(r, s)[1] = s
                            /\ 2 \notin DOMAIN Append(r, s)
           /\ Len(r) = 1 => /\ 1 \in DOMAIN Append(r, s) /\ Append(r, s)[1] = r[1]
                            /\ 1 \in DOMAIN r /\ 2 \notin DOMAIN r
                            /\ 2 \in DOMAIN Append(r, s) /\ Append(r, s)[2] = s
<1>1. /\ DOMAIN r = 1 .. Len(r) /\ Len(r) \in Nat
      /\ DOMAIN Append(r, s) = 1 .. (Len(r) + 1)
  OBVIOUS
<1>2. CASE Len(r) = 0 BY <1>1, <1>2, AppendType
<1>3. CASE Len(r) = 1 BY <1>1, <1>3, AppendType
<1> QED BY <1>2, <1>3

LEMMA PassedVerdict ==
    ASSUME TypeInv, NEW p \in Procs, NEW s \in Status, Verdict(p, s),
           pc[p] \in InSwapPC \cup InBackup \cup InMountPC
    PROVE  /\ InSwap(p) => (Passed(p, 1)' => s # StatusFailed) /\ ~Passed(p, 2)'
           /\ ~InSwap(p) => /\ Passed(p, 1)' => Passed(p, 1)
                            /\ Passed(p, 2)' => s # StatusFailed
<1>1. results'[p] = Append(results[p], s) /\ results[p] \in Seq(Status)
      /\ (InSwap(p) => Len(results[p]) = 0) /\ (~InSwap(p) => Len(results[p]) = 1)
  BY VerdictStep DEF TypeInv
<1> QED BY <1>1, AppendPassed DEF Passed

LEMMA PassedYet ==
    ASSUME TypeInv, NEW p \in Procs
    PROVE  /\ InSwap(p) => ~Passed(p, 1) /\ ~Passed(p, 2)
           /\ pc[p] \in InBackup \cup InMountPC => ~Passed(p, 2)
<1>1. results[p] \in Seq(Status) /\ PlaceInv(p) BY DEF TypeInv
<1>2. ASSUME NEW r \in Seq(Status)
      PROVE  /\ Len(r) = 0 => 1 \notin DOMAIN r
             /\ Len(r) <= 1 => 2 \notin DOMAIN r
             /\ Len(r) = 0 => Len(r) <= 1
             /\ Len(r) = 1 => Len(r) <= 1
  <2>1. DOMAIN r = 1 .. Len(r) /\ Len(r) \in Nat OBVIOUS
  <2>2. ASSUME NEW n \in Nat
        PROVE  /\ n = 0 => 1 \notin 1 .. n /\ n <= 1
               /\ n = 1 => n <= 1
               /\ n <= 1 => 2 \notin 1 .. n
    OBVIOUS
  <2> QED BY <2>1, <2>2
<1> QED BY <1>1, <1>2, EmptyType DEF Passed, PlaceInv, InSwap

\* The process that took the step
LEMMA OwnHost ==
    ASSUME TypeInv, DoneInv, NEW p \in Procs, Step(p) \/ Kill(p)
    PROVE  HostInv(p)'
<1>1. HostInv(p) /\ pc \in [Procs -> PCs] /\ results \in [Procs -> Seq(Status)]
  BY DEF DoneInv, TypeInv
<1>2. swapDevs' \subseteq swapDevs /\ (mounted => mounted') BY StepHost
<1>3. PlaceInv(p) /\ results[p] \in Seq(Status) BY DEF TypeInv
<1>i. /\ pc[p] \in InSwapPC => InSwap(p)
      /\ pc[p] \in InMountPC => ~InSwap(p)
  BY <1>3, EmptyType DEF PlaceInv, InSwap
<1>4. CASE Finish(p) \/ Kill(p)
  <2>1. pc'[p] = "idle" BY <1>1, <1>4 DEF Finish, Kill, Goto
  <2> QED BY <2>1 DEF HostInv
<1>5. CASE Begin(p)
  <2>1. pc'[p] = "swap-check" /\ results'[p] = << >> BY <1>1, <1>5 DEF Begin, Goto
  <2>2. ~Passed(p, 1)' /\ ~Passed(p, 2)' BY <2>1 DEF Passed
  <2> QED BY <2>1, <2>2 DEF HostInv, InBackup
<1>6. CASE Goes(p)
  <2>1. /\ Passed(p, 1)' <=> Passed(p, 1)
        /\ Passed(p, 2)' <=> Passed(p, 2)
        /\ InSwap(p)' <=> InSwap(p)
    BY <1>6 DEF Goes, Moves, Passed, InSwap
  <2> QED BY <1>1, <1>2, <1>i, <1>6, <2>1
          DEF HostInv, Goes, Moves, Goto, InSwapPC, InBackup, InMountPC
<1>7. ASSUME NEW s \in Status, Ends(p, s) PROVE HostInv(p)'
  <2>1. /\ InSwap(p) => pc'[p] = "mount-check"
        /\ ~InSwap(p) => pc'[p] = "report"
    BY <1>7, VerdictStep DEF Ends
  <2>2. /\ InSwap(p) => (Passed(p, 1)' => s # StatusFailed) /\ ~Passed(p, 2)'
        /\ ~InSwap(p) => /\ Passed(p, 1)' => Passed(p, 1)
                         /\ Passed(p, 2)' => s # StatusFailed
    BY <1>7, PassedVerdict DEF Ends
  <2>3. pc[p] # "idle" BY <1>7 DEF Ends, InSwapPC, InBackup, InMountPC
  <2>4. s # StatusFailed => /\ InSwap(p) => swapDevs = {}
                            /\ ~InSwap(p) => mounted
    BY <1>1, <1>i, <1>7 DEF HostInv, Ends, InSwapPC, InBackup, InMountPC
  <2>5. /\ Passed(p, 1)' => swapDevs' = {}
        /\ Passed(p, 2)' => mounted'
    BY <1>1, <1>2, <2>2, <2>3, <2>4 DEF HostInv
  <2> QED BY <2>1, <2>5 DEF HostInv, InBackup
<1> QED BY <1>4, <1>5, <1>6, <1>7, StepVerdict
\* A run that exits 0 has two results, neither of them a failure
LEMMA ExitZero ==
    ASSUME TypeInv, NEW p \in Procs, pc[p] = "report",
           ExitCode(results[p], ModeApply) = 0
    PROVE  Passed(p, 1) /\ Passed(p, 2)
<1>1. results[p] \in Seq(Status) /\ Len(results[p]) = 2 BY DEF TypeInv, PlaceInv
<1>2. 1 \in DOMAIN results[p] /\ 2 \in DOMAIN results[p]
  <2>1. ASSUME NEW r \in Seq(Status), Len(r) = 2 PROVE 1 \in DOMAIN r /\ 2 \in DOMAIN r
    BY <2>1
  <2> QED BY <1>1, <2>1
<1>3. \A i \in DOMAIN results[p] : results[p][i] # StatusFailed BY DEF ExitCode
<1> QED BY <1>2, <1>3 DEF Passed

LEMMA DoneStep == TypeInv /\ DoneInv /\ [Next]_vars => DoneInv'
<1> SUFFICES ASSUME TypeInv, DoneInv, [Next]_vars PROVE DoneInv' OBVIOUS
<1>1. ASSUME NEW p \in Procs, Step(p) \/ Kill(p) PROVE DoneInv'
  <2>0. swapDevs' \subseteq swapDevs /\ (mounted => mounted') BY <1>1, StepHost
  <2>1. ASSUME NEW q \in Procs, q # p PROVE HostInv(q)'
    <3>1. Places(p) BY <1>1, SwapPlaces, MountPlaces DEF Step
    <3>2. pc'[q] = pc[q] /\ results'[q] = results[q] BY <2>1, <3>1 DEF Places
    <3>3. HostInv(q) BY DEF DoneInv
    <3> QED BY <2>0, <3>2, <3>3 DEF HostInv, Passed, InSwap
  <2>2. \A q \in Procs : HostInv(q)' BY <1>1, <2>1, OwnHost
  <2>3. ASSUME clean' PROVE swapDevs' = {} /\ mounted'
    <3>1. CASE clean BY <2>0, <3>1 DEF DoneInv, AppliedMeansDone
    <3>2. CASE Finish(p)
      <4>1. pc[p] = "report" /\ ExitCode(results[p], ModeApply) = 0
        BY <2>3, <3>2 DEF Finish
      <4>2. Passed(p, 1) /\ Passed(p, 2) BY <4>1, ExitZero
      <4> QED BY <2>0, <4>1, <4>2 DEF DoneInv, HostInv
    <3> QED BY <1>1, <2>3, <3>1, <3>2, StepPast
  <2> QED BY <2>2, <2>3 DEF DoneInv, AppliedMeansDone
<1>2. CASE SystemdNotices
  BY <1>2 DEF SystemdNotices, run, past, DoneInv, AppliedMeansDone, HostInv, Passed, InSwap
<1>3. CASE OperatorEdits
  BY <1>3 DEF OperatorEdits, run, host, DoneInv, AppliedMeansDone, HostInv, Passed, InSwap
<1>4. CASE Reboot
  <2>1. ~clean' /\ \A q \in Procs : pc'[q] = "idle" BY <1>4 DEF Reboot
  <2> QED BY <2>1 DEF DoneInv, AppliedMeansDone, HostInv
<1>5. CASE UNCHANGED vars
  BY <1>5 DEF vars, host, run, past, DoneInv, AppliedMeansDone, HostInv, Passed, InSwap
<1> QED BY <1>1, <1>2, <1>3, <1>4, <1>5 DEF Next

LEMMA DoneInvariant == Spec => []DoneInv
<1>1. Init => DoneInv BY DEF Init, DoneInv, AppliedMeansDone, HostInv
<1> QED BY <1>1, DoneStep, TypeInvariant, PTL DEF Spec

-----------------------------------------------------------------------------
(* Persistence: runs that do not overlap, an fstab that can be read.        *)

LEMMA OwnBoot ==
    ASSUME TypeInv, FilesInv, PersistInv, ~blurred, ~blurred',
           NEW p \in Procs, Step(p) \/ Kill(p)
    PROVE  BootInv(p)'
<1>1. /\ BootInv(p) /\ pc \in [Procs -> PCs] /\ results \in [Procs -> Seq(Status)]
      /\ buf \in [Procs -> Content] /\ calm \in [Procs -> BOOLEAN]
      /\ fstab \in Content /\ buf[p] \in Content
  BY DEF PersistInv, TypeInv, TypeOK
<1>2. FileInv(p) BY DEF FilesInv
<1>3. PlaceInv(p) /\ results[p] \in Seq(Status) BY DEF TypeInv
<1>i. /\ pc[p] \in InSwapPC => InSwap(p)
      /\ pc[p] \in InMountPC => ~InSwap(p)
  BY <1>3, EmptyType DEF PlaceInv, InSwap
<1>4. CASE Finish(p) \/ Kill(p)
  <2>1. pc'[p] = "idle" BY <1>1, <1>4 DEF Finish, Kill, Goto
  <2> QED BY <2>1 DEF BootInv
<1>5. CASE Begin(p)
  <2>1. pc'[p] = "swap-check" /\ results'[p] = << >> /\ calm'[p] = TRUE
    BY <1>1, <1>5 DEF Begin, Goto
  <2>2. ~Passed(p, 1)' /\ ~Passed(p, 2)' BY <2>1 DEF Passed
  <2> QED BY <2>1, <2>2 DEF BootInv, Holds, InBackup
<1>6. CASE Goes(p)
  <2>1. /\ Passed(p, 1)' <=> Passed(p, 1)
        /\ Passed(p, 2)' <=> Passed(p, 2)
    BY <1>6 DEF Goes, Moves, Passed
  <2>2. pc[p] # "idle" /\ calm' = calm /\ clean' = clean /\ booted' = booted
    <3>1. pc[p] # "idle" BY <1>6 DEF Goes, InBackup
    <3>2. ~Begin(p) BY <3>1 DEF Begin
    <3>3. ~Finish(p) /\ ~Kill(p) 
      BY <1>1, <1>6 DEF Goes, Moves, Goto, Finish, Kill, InBackup
    <3> QED BY <3>1, <3>2, <3>3, StepPast
  <2>3. ~calm[p] => ~clean /\ ~booted BY <1>1, <2>2 DEF BootInv
  <2> SUFFICES ASSUME calm[p]
               PROVE  /\ Holds(p)' => buf'[p] = fstab'
                      /\ pc'[p] \in {"swap-units", "swap-mask"} => fstab'.swap # "active"
                      /\ Passed(p, 1) => fstab'.swap # "active"
                      /\ Passed(p, 2) => fstab'.bpf > 0
    BY <2>1, <2>2, <2>3 DEF BootInv
  <2>4. CASE pc[p] = "swap-write" /\ Moves(p, "swap-units") /\ fstab' = Commented(buf[p])
    <3>1. pc'[p] = "swap-units" /\ fstab'.swap = "disabled"
      BY <1>1, <2>4 DEF Moves, Goto, Commented, Content
    <3>2. ~Passed(p, 2) BY <1>i, <2>4, PassedYet DEF InSwapPC
    <3> QED BY <3>1, <3>2 DEF Holds, InBackup
  <2>5. CASE fstab' = fstab
    <3>1. Holds(p)' => buf'[p] = fstab
      <4>1. CASE pc[p] \in InBackup /\ buf' = buf
        BY <1>1, <2>2, <4>1 DEF BootInv, Holds
      <4>2. CASE buf' = [buf EXCEPT ![p] = fstab] BY <1>1, <4>2
      <4>3. CASE \E l \in InSwapPC \cup InMountPC :
                    Moves(p, l) /\ l \notin {"swap-write", "mount-write"}
        BY <1>1, <4>3 DEF Moves, Goto, Holds, InSwapPC, InMountPC, InBackup
      <4> QED BY <1>6, <4>1, <4>2, <4>3 DEF Goes, InSwapPC, InMountPC
    <3>2. pc'[p] \in {"swap-units", "swap-mask"} => fstab.swap # "active"
      <4>1. CASE fstab.swap # "active" BY <4>1
      <4>2. CASE pc[p] \in {"swap-units", "swap-mask"} BY <1>1, <2>2, <4>2 DEF BootInv
      <4>3. CASE \E l \in PCs : Moves(p, l) /\ l \notin {"swap-units", "swap-mask"}
        BY <1>1, <4>3 DEF Moves, Goto
      <4>4. CASE pc[p] = "swap-write" /\ fstab' = Commented(buf[p])
        BY <1>1, <2>5, <4>4 DEF Commented, Content
      <4> QED BY <1>6, <4>1, <4>2, <4>3, <4>4
              DEF Goes, PCs, InSwapPC, InMountPC, InBackup
    <3> QED BY <1>1, <2>2, <2>5, <3>1, <3>2 DEF BootInv
  <2> QED BY <1>6, <2>4, <2>5 DEF Goes
<1>7. ASSUME NEW s \in Status, Ends(p, s) PROVE BootInv(p)'
  <2>1. pc'[p] \in {"mount-check", "report"}
    BY <1>7, VerdictStep DEF Ends
  <2>2. /\ InSwap(p) => (Passed(p, 1)' => s # StatusFailed) /\ ~Passed(p, 2)'
        /\ ~InSwap(p) => /\ Passed(p, 1)' => Passed(p, 1)
                         /\ Passed(p, 2)' => s # StatusFailed
    BY <1>7, PassedVerdict DEF Ends
  <2>3. pc[p] # "idle" /\ calm' = calm /\ clean' = clean /\ booted' = booted
    <3>1. pc[p] # "idle" BY <1>7 DEF Ends, InSwapPC, InBackup, InMountPC
    <3>2. ~Begin(p) BY <3>1 DEF Begin
    <3>3. ~Finish(p) /\ ~Kill(p) BY <1>1, <2>1 DEF Goto, Finish, Kill
    <3> QED BY <3>1, <3>2, <3>3, StepPast
  <2>4. ~calm[p] => ~clean /\ ~booted BY <1>1, <2>3 DEF BootInv
  <2> SUFFICES ASSUME calm[p]
               PROVE  /\ Passed(p, 1)' => fstab'.swap # "active"
                      /\ Passed(p, 2)' => fstab'.bpf > 0
    BY <2>1, <2>3, <2>4 DEF BootInv, Holds, InBackup
  <2>5. CASE InSwap(p)
    <3>1. s # StatusFailed => pc[p] \in {"swap-check", "swap-mask"}
      BY <1>i, <1>7, <2>5 DEF Ends, InMountPC
    <3>2. s # StatusFailed => fstab' = fstab /\ fstab.swap # "active"
      BY <1>1, <1>7, <2>3, <3>1 DEF Ends, BootInv
    <3> QED BY <2>2, <2>5, <3>2
  <2>6. CASE ~InSwap(p)
    <3>1. Passed(p, 1) => fstab.swap # "active" BY <1>1, <2>3 DEF BootInv
    <3>2. CASE pc[p] = "mount-write" /\ fstab' = WithBpf(buf[p])
      <4>1. Holds(p) BY <3>2 DEF Holds
      <4>2. buf[p] = fstab /\ buf[p].bpf = 0
        BY <1>1, <1>2, <2>3, <2>6, <4>1 DEF BootInv, FileInv
      <4>3. fstab'.swap = fstab.swap /\ fstab'.bpf = 1
        <5>1. fstab'.swap = buf[p].swap /\ fstab'.bpf = buf[p].bpf + 1
          BY <1>1, <3>2 DEF WithBpf, Content
        <5> QED BY <4>2, <5>1
      <4> QED BY <2>2, <2>6, <3>1, <4>3
    <3>3. CASE fstab' = fstab /\ (s # StatusFailed => fstab.bpf > 0)
      BY <2>2, <2>6, <3>1, <3>3
    <3> QED BY <1>i, <1>7, <2>6, <3>2, <3>3 DEF Ends, InSwapPC
  <2> QED BY <2>5, <2>6
<1> QED BY <1>4, <1>5, <1>6, <1>7, StepVerdict

LEMMA PersistStep == TypeInv /\ FilesInv /\ PersistInv /\ [Next]_vars => PersistInv'
<1> SUFFICES ASSUME TypeInv, FilesInv, PersistInv, [Next]_vars, ~blurred'
             PROVE  PersistInv'
  BY DEF PersistInv
<1>0. ~blurred
  <2>1. ASSUME NEW p \in Procs, Step(p) \/ Kill(p) PROVE blurred => blurred'
    BY <2>1, StepFlaws
  <2>2. CASE SystemdNotices \/ OperatorEdits \/ Reboot \/ UNCHANGED vars
    BY <2>2 DEF SystemdNotices, OperatorEdits, Reboot, vars, past
  <2> QED BY <2>1, <2>2 DEF Next
<1>a. Alone /\ \A p \in Procs : BootInv(p) BY <1>0 DEF PersistInv
<1>1. ASSUME NEW p \in Procs, Step(p) \/ Kill(p) PROVE PersistInv'
  <2>0. swapDevs' \subseteq swapDevs /\ (mounted => mounted') BY <1>1, StepHost
  <2>a. Alone' /\ \A q \in Procs \ {p} : pc'[q] = "idle"
    <3>1. Places(p) BY <1>1, SwapPlaces, MountPlaces DEF Step
    <3>2. ASSUME NEW q \in Procs \ {p} PROVE pc[q] = "idle"
      <4>1. CASE Begin(p) BY <1>0, <4>1 DEF Begin
      <4>2. CASE pc[p] # "idle" BY <1>a, <4>2 DEF Alone
      <4> QED BY <1>1, <4>1, <4>2, StepPast DEF Finish, Kill
    <3>3. \A q \in Procs \ {p} : pc'[q] = "idle" BY <3>1, <3>2 DEF Places
    <3>4. Alone' BY <3>3 DEF Alone
    <3> QED BY <3>3, <3>4
  <2>1. \A q \in Procs : BootInv(q)'
    <3>1. BootInv(p)' BY <1>0, <1>1, OwnBoot
    <3> QED BY <2>a, <3>1 DEF BootInv
  <2>2. FileInv(p) /\ BootInv(p) /\ PlaceInv(p) /\ results[p] \in Seq(Status)
    BY <1>a DEF FilesInv, TypeInv
  <2>i. /\ pc[p] = "swap-write" => InSwap(p)
        /\ pc[p] = "mount-write" => ~InSwap(p)
    BY <2>2, EmptyType DEF PlaceInv, InSwap, InSwapPC, InMountPC
  <2>3. booted' => booted BY <1>1, StepPast
  <2>4. booted' => FstabUnit \notin swapDevs' /\ mounted'
    BY <1>0, <2>0, <2>3 DEF PersistInv
  <2>5. ASSUME clean' \/ booted' PROVE fstab'.swap # "active" /\ fstab'.bpf > 0
    <3>1. CASE Finish(p)
      <4>1. /\ pc[p] = "report" /\ ExitCode(results[p], ModeApply) = 0 /\ calm[p]
            /\ fstab' = fstab
        BY <2>5, <3>1 DEF Finish
      <4>2. Passed(p, 1) /\ Passed(p, 2) BY <4>1, ExitZero
      <4> QED BY <2>2, <4>1, <4>2 DEF BootInv
    <3>2. CASE (clean \/ booted) /\ pc[p] # "idle"
      <4>1. calm[p] /\ fstab.swap # "active" /\ fstab.bpf > 0
        BY <1>0, <2>2, <3>2 DEF BootInv, PersistInv
      <4>2. ~Holds(p)
        <5>1. ASSUME Holds(p) PROVE FALSE
          <6>1. buf[p] = fstab BY <2>2, <3>2, <4>1, <5>1 DEF BootInv
          <6>2. fstab.swap = "active" \/ fstab.bpf = 0 BY <2>2, <5>1, <6>1 DEF FileInv
          <6>3. fstab.bpf \in Nat BY DEF TypeInv, TypeOK, Content
          <6> QED BY <4>1, <6>2, <6>3
        <5> QED BY <5>1
      <4>3. fstab' = fstab BY <1>1, <4>2, StepFiles DEF Holds
      <4> QED BY <4>1, <4>3
    <3>3. CASE Begin(p)
      BY <1>0, <2>5, <3>3 DEF Begin, PersistInv
    <3> QED BY <1>1, <2>5, <3>1, <3>2, <3>3, StepPast
  <2> QED BY <2>1, <2>4, <2>5, <2>a DEF PersistInv
<1>2. CASE SystemdNotices
  <2>1. /\ UNCHANGED << fstab, swapDevs, mounted, pc, results, buf, calm, clean, booted >>
    BY <1>2 DEF SystemdNotices, run, past
  <2> QED BY <1>0, <2>1 DEF PersistInv, Alone, BootInv, Passed, Holds
<1>3. CASE OperatorEdits
  <2>1. ~clean' /\ ~booted' /\ pc' = pc /\ \A p \in Procs : ~calm'[p]
    BY <1>3 DEF OperatorEdits, run
  <2> QED BY <1>a, <2>1 DEF PersistInv, Alone, BootInv
<1>4. CASE Reboot
  <2>1. /\ ~clean' /\ (\A q \in Procs : pc'[q] = "idle") /\ fstab' = fstab
        /\ booted' = (clean \/ booted) /\ mounted' = (fstab.bpf > 0)
    BY <1>4 DEF Reboot, FstabLineExists
  <2>2. fstab.swap # "active" => FstabUnit \notin swapDevs' BY <1>4 DEF Reboot
  <2> QED BY <1>0, <2>1, <2>2 DEF PersistInv, Alone, BootInv
<1>5. CASE UNCHANGED vars
  BY <1>0, <1>5 DEF vars, host, run, past, PersistInv, Alone, BootInv, Passed, Holds
<1> QED BY <1>1, <1>2, <1>3, <1>4, <1>5 DEF Next

-----------------------------------------------------------------------------
\* Every reachable state of SwapFstab is well typed; no run gives more verdicts
\* than it has resources.
THEOREM TypeCorrect == Spec => []TypeOK
<1>1. TypeInv => TypeOK BY DEF TypeInv
<1> QED BY <1>1, TypeInvariant, PTL

\* fstab never gets a second bpffs entry, whatever number of runs overlap, fail,
\* are killed or cut off by a reboot: a run appends the entry to a file it read
\* without one, so a late write replaces another's entry, never doubles it.
THEOREM OneBpfLineTheorem == Spec => []AtMostOneBpfLine
<1>1. FilesInv => AtMostOneBpfLine BY DEF FilesInv, AtMostOneBpfLine
<1> QED BY <1>1, FilesInvariant, PTL

\* The backup never holds an fstab this tool changed, however the backup and
\* write steps of overlapping runs interleave, unless a run's Stat of an existing
\* backup failed and BackupFile took it for missing.
THEOREM UntouchedTheorem == Spec => []BackupIsUntouched
<1>1. FilesInv => BackupIsUntouched BY DEF FilesInv, BackupIsUntouched
<1> QED BY <1>1, FilesInvariant, PTL

\* fstab is changed only after a backup of it exists, and that backup is complete
\* or being completed, unless an error, a kill or a reboot hit the very write of
\* it; any other fault leaves the promise in force.
THEOREM BackupFirstTheorem == Spec => []BackupBeforeEdit
<1>1. FilesInv => BackupBeforeEdit BY DEF FilesInv, BackupBeforeEdit
<1> QED BY <1>1, FilesInvariant, PTL

\* No run loses an operator's line or brings one back, unless an operator edited
\* fstab in the middle of a run.
THEOREM LinesKeptTheorem == Spec => OperatorLinesKept
<1>1. TypeInv /\ FilesInv /\ [Next]_vars =>
          [fstab'.lines # fstab.lines /\ ~raced => edits' # edits]_vars
  <2> SUFFICES ASSUME TypeInv, FilesInv, [Next]_vars,
                      fstab'.lines # fstab.lines, ~raced
               PROVE  edits' # edits
    OBVIOUS
  <2>1. ASSUME NEW p \in Procs, Step(p) \/ Kill(p) PROVE FALSE BY <2>1, StepFstab
  <2>2. CASE OperatorEdits BY <2>2 DEF OperatorEdits, TypeInv
  <2>3. CASE SystemdNotices \/ Reboot \/ UNCHANGED vars
    BY <2>3 DEF SystemdNotices, Reboot, vars
  <2> QED BY <2>1, <2>2, <2>3 DEF Next
<1> QED BY <1>1, TypeInvariant, FilesInvariant, PTL DEF Spec, OperatorLinesKept

\* An apply that exited 0 left swap off and bpffs mounted, also when other runs
\* overlapped with it.
THEOREM AppliedTheorem == Spec => []AppliedMeansDone
<1>1. DoneInv => AppliedMeansDone BY DEF DoneInv
<1> QED BY <1>1, DoneInvariant, PTL

\* After an apply that exited 0, and any number of reboots, fstab has not brought
\* swap back and bpffs is mounted, whatever failed and killed runs came before,
\* as long as runs do not overlap and swap's Check can read fstab.
THEOREM SurvivesTheorem == Spec => []DoneSurvivesReboot
<1>1. Init => PersistInv
  BY DEF Init, PersistInv, Alone, BootInv
<1>2. PersistInv => DoneSurvivesReboot BY DEF PersistInv, DoneSurvivesReboot
<1> QED BY <1>1, <1>2, PersistStep, TypeInvariant, FilesInvariant, PTL DEF Spec
=============================================================================
