-------------------------- MODULE AtomicFileProofs --------------------------
(***************************************************************************)
(* AtomicFile for every number of concurrent callers, every set of contents *)
(* and every number of faults, on any filesystem: only a power loss tears   *)
(* the path, and WriteFileIfChanged implements the register.                *)
(***************************************************************************)
EXTENDS AtomicFile, TLAPS

\* The strengthening: what the temporary file holds, and which calls have
\* already decided their outcome, at each program counter.
TempInv(p) ==
    /\ pc[p] \in {"chmod", "close", "rename"} => tmp[p] = want[p]
    /\ pc[p] \in {"read", "mkdir", "create"} => tmp[p] = NoTemp
    /\ pc[p] = "remove" /\ ret[p] # "error" => tmp[p] = NoTemp
    /\ pc[p] \in {"return", "idle"} /\ tmp[p] # NoTemp =>
          ret[p] = "killed" \/ (ret[p] = "error" /\ p \in leaked)
    /\ pc[p] \in Calls => ret[p] = "none"
    /\ pc[p] \in {"remove", "return"} => ret[p] \in {"changed", "unchanged", "error"}

IInv == /\ TypeOK
        /\ OnlyPowerLossTears
        /\ \A p \in Callers : TempInv(p)

LEMMA InitInv == Init => IInv
BY ContentsAssumption DEF Init, IInv, TypeOK, TempInv, PCs, Calls, OnlyPowerLossTears

\* A step of p leaves every other process alone
LEMMA OtherTemp ==
    ASSUME NEW q \in Callers, TempInv(q), pc'[q] = pc[q], ret'[q] = ret[q],
           tmp'[q] = tmp[q], want'[q] = want[q], q \in leaked' <=> q \in leaked
    PROVE  TempInv(q)'
BY DEF TempInv

LEMMA StepInv ==
    ASSUME IInv, NEW p \in Callers, Call(p) \/ Step(p) \/ Kill(p)
    PROVE  IInv'
<1> USE ContentsAssumption DEF IInv, TypeOK, PCs, Calls, Goto, End, SetTmp, history,
                           OnlyPowerLossTears
<1>0. ASSUME TypeOK', OnlyPowerLossTears', TempInv(p)',
             \A q \in Callers \ {p} : /\ pc'[q] = pc[q] /\ ret'[q] = ret[q]
                                      /\ tmp'[q] = tmp[q] /\ want'[q] = want[q]
                                      /\ q \in leaked' <=> q \in leaked
      PROVE  IInv'
  <2>1. \A q \in Callers \ {p} : TempInv(q)' BY <1>0, OtherTemp
  <2> QED BY <1>0, <2>1
<1>1. CASE Call(p) BY <1>0, <1>1 DEF Call, TempInv
<1>2. CASE Read(p) BY <1>0, <1>2 DEF Read, TempInv
<1>3. CASE Mkdir(p) BY <1>0, <1>3 DEF Mkdir, TempInv
<1>4. CASE Create(p) BY <1>0, <1>4 DEF Create, TempInv
<1>5. CASE Write(p) BY <1>0, <1>5 DEF Write, TempInv
<1>6. CASE ChmodClose(p) BY <1>0, <1>6 DEF ChmodClose, TempInv
<1>7. CASE Rename(p)
  <2>1. tmp[p] = want[p] BY <1>7 DEF Rename, TempInv
  <2> QED BY <1>0, <1>7, <2>1 DEF Rename, TempInv
<1>8. CASE Fail(p) BY <1>0, <1>8 DEF Fail, TempInv
<1>9. CASE Remove(p) BY <1>0, <1>9 DEF Remove, TempInv
<1>10. CASE Return(p) BY <1>0, <1>10 DEF Return, TempInv
<1>11. CASE Kill(p) BY <1>0, <1>11 DEF Kill, TempInv
<1> QED BY <1>1, <1>2, <1>3, <1>4, <1>5, <1>6, <1>7, <1>8, <1>9, <1>10, <1>11
        DEF Step

LEMMA EnvInv ==
    ASSUME IInv, Edit \/ Flush \/ PowerLoss \/ UNCHANGED vars
    PROVE  IInv'
<1> USE ContentsAssumption DEF IInv, TypeOK, PCs, Calls, history, OnlyPowerLossTears
<1>1. CASE Edit BY <1>1 DEF Edit, TempInv
<1>2. CASE Flush BY <1>2 DEF Flush, TempInv
<1>3. CASE PowerLoss BY <1>3 DEF PowerLoss, OnDisk, TempInv
<1>4. CASE UNCHANGED vars BY <1>4 DEF vars, TempInv
<1> QED BY <1>1, <1>2, <1>3, <1>4

LEMMA Inductive == Spec => []IInv
<1>1. IInv /\ [Next]_vars => IInv' BY StepInv, EnvInv DEF Next
<1> QED BY <1>1, InitInv, PTL DEF Spec

\* Every variable keeps its type
THEOREM TypeCorrect == Spec => []TypeOK
<1>1. IInv => TypeOK BY DEF IInv
<1> QED BY <1>1, Inductive, PTL

\* No reader ever sees half a file, unless a power loss tore what the path
\* holds now before it was written back
THEOREM TornTheorem == Spec => []OnlyPowerLossTears
<1>1. IInv => OnlyPowerLossTears BY DEF IInv
<1> QED BY <1>1, Inductive, PTL

\* No call that returns leaves its temporary file behind, unless it returns an
\* error and its Remove failed too
THEOREM NoTempTheorem == Spec => []NoTempLeft
<1>1. IInv => NoTempLeft BY DEF IInv, NoTempLeft, TempInv
<1> QED BY <1>1, Inductive, PTL

-----------------------------------------------------------------------------
(* Refinement.  Rename and an equal Read are the instants of effect, Fail   *)
(* is the decision to return an error; the other steps of a call stutter.   *)

Op == [p \in Callers |-> IF pc[p] = "idle" THEN "idle" ELSE "busy"]

LEMMA InitRefines == Init => Register!Init
BY DEF Init, Register!Init

LEMMA StepRefines ==
    ASSUME IInv, NEW p \in Callers, Call(p) \/ Step(p) \/ Kill(p)
    PROVE  [Register!Next]_(Register!vars)
<1> USE DEF IInv, TypeOK, PCs, Calls, Goto, End, SetTmp, history
<1> SUFFICES \/ Register!Call(p) \/ Register!Decide(p) \/ Register!Return(p)
             \/ Register!Kill(p) \/ UNCHANGED << file, durable, Op, want, ret >>
  BY DEF Register!Next, Register!vars, Op
<1>1. CASE Call(p)
  <2>1. Register!Call(p) BY <1>1 DEF Call, Register!Call
  <2> QED BY <2>1
<1>2. CASE Read(p)
  <2>1. CASE file = want[p]
    <3>1. Register!Decide(p) BY <1>2, <2>1 DEF Read, Register!Decide, TempInv
    <3> QED BY <3>1
  <2>2. CASE file # want[p] BY <1>2, <2>2 DEF Read, Op
  <2> QED BY <2>1, <2>2
<1>3. CASE Mkdir(p) \/ Create(p) \/ Write(p) \/ ChmodClose(p) \/ Remove(p)
  BY <1>3 DEF Mkdir, Create, Write, ChmodClose, Remove, Op
<1>4. CASE Rename(p)
  <2>1. tmp[p] = want[p] /\ ret[p] = "none" BY <1>4 DEF Rename, TempInv
  <2>2. Register!Decide(p) BY <1>4, <2>1 DEF Rename, Register!Decide
  <2> QED BY <2>2
<1>5. CASE Fail(p)
  <2>1. ret[p] = "none" BY <1>5 DEF Fail, TempInv
  <2>2. Register!Decide(p) BY <1>5, <2>1 DEF Fail, Register!Decide
  <2> QED BY <2>2
<1>6. CASE Return(p)
  <2>1. ret[p] # "none" BY <1>6 DEF Return, TempInv
  <2>2. Register!Return(p) BY <1>6, <2>1 DEF Return, Register!Return
  <2> QED BY <2>2
<1>7. CASE Kill(p)
  <2>1. Register!Kill(p) BY <1>7 DEF Kill, Register!Kill
  <2> QED BY <2>1
<1> QED BY <1>1, <1>2, <1>3, <1>4, <1>5, <1>6, <1>7 DEF Step

LEMMA EnvRefines ==
    ASSUME IInv, Edit \/ Flush \/ PowerLoss \/ UNCHANGED vars
    PROVE  [Register!Next]_(Register!vars)
<1> USE DEF IInv, TypeOK, PCs, Calls, history
<1>1. CASE Edit
  <2>1. Register!Edit BY <1>1 DEF Edit, Register!Edit
  <2> QED BY <2>1 DEF Register!Next
<1>2. CASE Flush
  <2>1. Register!Flush BY <1>2 DEF Flush, Register!Flush
  <2> QED BY <2>1 DEF Register!Next
<1>3. CASE PowerLoss
  <2>1. Register!PowerLoss BY <1>3 DEF PowerLoss, OnDisk, Register!PowerLoss
  <2> QED BY <2>1 DEF Register!Next
<1>4. CASE UNCHANGED vars BY <1>4 DEF vars, Register!vars
<1> QED BY <1>1, <1>2, <1>3, <1>4

\* WriteFileIfChanged implements the atomic register its comment promises, on
\* every filesystem: the register may lose or damage what is not yet on disk
THEOREM RegisterTheorem == Spec => ImplementsRegister
<1>1. IInv /\ [Next]_vars => [Register!Next]_(Register!vars)
  BY StepRefines, EnvRefines DEF Next
<1> QED BY <1>1, InitRefines, Inductive, PTL
        DEF Spec, Register!Spec, ImplementsRegister
=============================================================================
