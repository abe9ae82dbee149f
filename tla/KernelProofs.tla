---------------------------- MODULE KernelProofs ----------------------------
(***************************************************************************)
(* Theorems about Kernel.tla, for every set of devices that has the        *)
(* keyboard and the mouse, and every further manager and handler.          *)
(*                                                                         *)
(* kernelMain takes steps of Interrupts.tla, so the invariant of           *)
(* InterruptsProofs holds.  Booted adds what the order of its statements   *)
(* establishes before interrupts can come, and keeps afterwards.           *)
(***************************************************************************)
EXTENDS Kernel, InterruptsProofs

KernelStatements == {"construct", "keyboard", "mouse", "activate", "loop"}

(* Before Activate is called nothing interrupts kernelMain; from then on   *)
(* both handlers are in the table of the one manager there is, and no      *)
(* Deactivate is ever entered.                                             *)
Booted ==
  /\ boot \in KernelStatements
  /\ boot # "loop" =>
       /\ frames = <<>> /\ ~interruptFlag
       /\ pc = "idle" /\ ActiveInterruptManager = NoManager
  /\ pc \in {"idle", "test", "set", "sti"}
  /\ pc = "test" => ActiveInterruptManager = NoManager
  /\ {ActiveInterruptManager, this} \subseteq {NoManager, interrupts}
  /\ boot \in {"mouse", "activate", "loop"} =>
       handlers[interrupts][Vector(1)] = keyboard
  /\ boot \in {"activate", "loop"} =>
       handlers[interrupts][Vector(12)] = mouse

KInv == IInv /\ Booted /\ DevicesHandled

(* The keyboard's and the mouse's vectors are two entries of the table.    *)
LEMMA DeviceVectors ==
  /\ Vector(1) \in Vectors /\ Vector(12) \in Vectors
  /\ Vector(1) # Vector(12)
BY KernelAssumption DEF Vectors, Vector, Master

(* kernelMain begins at its first statement.                               *)
LEMMA KernelStarts == KernelInit => KInv
<1> SUFFICES ASSUME KernelInit PROVE KInv
  OBVIOUS
<1>1. IInv
  BY InterruptsInit DEF KernelInit
<1>2. Booted /\ DevicesHandled
  BY DEF KernelInit, Init, Booted, DevicesHandled, KernelStatements
<1> QED
  BY <1>1, <1>2 DEF KInv

(* Every step of the kernel is one of Interrupts.tla.                      *)
LEMMA KernelStepsAreInterrupts == [KernelNext]_kernelVars => [Next]_vars
BY KernelAssumption, DeviceVectors
   DEF KernelNext, kernelVars, Processor, Boot, Statement, Loop, DeviceRaises,
       Next, Call

(* kernelMain's own statements run in a quiet machine.                     *)
LEMMA BootKeeps == KInv /\ Boot => Booted' /\ DevicesHandled'
<1> SUFFICES ASSUME KInv, Boot PROVE Booted' /\ DevicesHandled'
  OBVIOUS
<1> USE DEF KInv, IInv, Types, Booted, DevicesHandled, KernelStatements,
            hardware, main, mainUnchanged, program, Running
<1>1. boot # "loop" /\ boot' = Following[boot]
  BY DEF Boot
<1>2. CASE boot = "construct" /\ Construct(interrupts)
  BY <1>1, <1>2 DEF Following, Construct
<1>3. CASE boot = "keyboard" /\ Register(keyboard, Vector(1), interrupts)
  BY <1>1, <1>3, DeviceVectors, KernelAssumption DEF Following, Register
<1>4. CASE boot = "mouse" /\ Register(mouse, Vector(12), interrupts)
  BY <1>1, <1>4, DeviceVectors, KernelAssumption DEF Following, Register
<1>5. CASE boot = "activate" /\ ActivateCall(interrupts)
  BY <1>1, <1>5 DEF Following, ActivateCall
<1> QED
  BY <1>1, <1>2, <1>3, <1>4, <1>5 DEF Boot, Statement

(* Whatever interrupt is being run finds an active manager, and its        *)
(* handler in the table.                                                   *)
LEMMA KernelDispatchKeeps ==
  ASSUME KInv, Dispatch, UNCHANGED <<boot, rested>>
  PROVE  Booted' /\ DevicesHandled'
<1>1. /\ frames # <<>> /\ boot = "loop"
      /\ UNCHANGED <<ActiveInterruptManager, program, main>>
  BY DEF KInv, Booted, Dispatch, Stub, Bottom, HandlerReturns, EoiMaster,
         EoiSlave, Iret, At, hardware
<1>2. Booted'
  BY <1>1 DEF KInv, Booted, program, main
<1>3. ActiveInterruptManager = interrupts
  <2>1. mainFlag
    BY <1>1 DEF mainFlag
  <2> QED
    BY <2>1 DEF KInv, IInv, MainFlag, Booted
<1>4. CASE Bottom
  <2>1. PICK f \in FrameType :
          frames = <<f>> /\ f.at = "bottom" /\ Running1(f)
    BY <1>4, TheFrame DEF KInv, Bottom
  <2>2. Top = f /\ Len(frames) = 1 /\ interruptnumber = Vector(f.line)
    BY <2>1, OneFrame DEF Running1
  <2>3. ActiveInterruptManager # NoManager
    BY <1>3, KernelAssumption, InterruptsAssumption
  <2> DEFINE a == handlers[interrupts][Vector(f.line)]
             g == [f EXCEPT !.at = "handler", !.number = Vector(f.line),
                            !.handler = a]
  <2>4. frames' = [frames EXCEPT ![1] = g] /\ lost' = lost
    BY <1>3, <1>4, <2>2, <2>3 DEF Bottom
  <2>5. g.line = f.line /\ g.handler = a
    BY <2>1 DEF FrameType
  <2>6. Len(frames') = 1 /\ frames'[1] = g
    <3> HIDE DEF g
    <3> QED
      BY <2>1, <2>4
  <2>7. /\ f.line = 1 => a = keyboard
        /\ f.line = 12 => a = mouse
    BY <1>1 DEF KInv, Booted
  <2> HIDE DEF a, g
  <2> QED
    BY <1>2, <2>4, <2>5, <2>6, <2>7 DEF KInv, DevicesHandled
<1>5. ASSUME NEW p \in Places \ {"handler"}, NEW q, At(q), GoTo(p),
             lost' = lost
      PROVE  DevicesHandled'
  <2>1. PICK f \in FrameType : frames = <<f>>
    BY <1>5, TheFrame DEF KInv
  <2>2. [f EXCEPT !.at = p].at = p
    BY <2>1 DEF FrameType
  <2>3. PICK g : frames' = <<g>> /\ g.at = p
    BY <1>5, <2>1, <2>2, OneFrameGoesTo
  <2>4. \A i \in 1 .. Len(frames') : frames'[i] = g
    BY <2>3
  <2> QED
    BY <1>5, <2>3, <2>4 DEF KInv, DevicesHandled
<1>6. CASE Stub
  BY <1>2, <1>5, <1>6 DEF Stub, Places
<1>7. CASE HandlerReturns
  BY <1>2, <1>5, <1>7 DEF HandlerReturns, Places
<1>8. CASE EoiMaster
  BY <1>2, <1>5, <1>8 DEF EoiMaster, Places
<1>9. CASE EoiSlave
  BY <1>2, <1>5, <1>9 DEF EoiSlave, Places
<1>10. CASE Iret
  <2>1. PICK f \in FrameType : frames = <<f>>
    BY <1>10, TheFrame DEF KInv, Iret
  <2>2. frames' = SubSeq(frames, 1, 0) /\ lost' = lost
    BY <1>10, <2>1 DEF Iret
  <2>3. frames' = <<>>
    BY <2>1, <2>2
  <2> QED
    BY <1>2, <2>2, <2>3 DEF KInv, DevicesHandled
<1> QED
  BY <1>4, <1>6, <1>7, <1>8, <1>9, <1>10 DEF Dispatch

(* Every statement of kernelMain and every interrupt keep it.              *)
LEMMA KernelKeeps == KInv /\ [KernelNext]_kernelVars => KInv'
<1> SUFFICES ASSUME KInv, [KernelNext]_kernelVars PROVE KInv'
  OBVIOUS
<1>1. IInv'
  BY KernelStepsAreInterrupts, InterruptsNext DEF KInv
<1>2. Booted' /\ DevicesHandled'
  <2>1. CASE Boot
    BY <2>1, BootKeeps
  <2>2. CASE Dispatch /\ UNCHANGED <<boot, rested>>
    BY <2>2, KernelDispatchKeeps
  <2>3. CASE Body /\ UNCHANGED <<boot, rested>>
    <3>1. frames = <<>> /\ UNCHANGED mainUnchanged
      BY <2>3 DEF Body, ActivateTest, ActivateSet, ActivateSti, Running,
                  DeactivateCondition, DeactivateClear, DeactivateCli
    <3>2. DevicesHandled'
      BY <3>1 DEF KInv, DevicesHandled, mainUnchanged
    <3>3. boot = "loop"
      <4>1. pc # "idle"
        BY <2>3 DEF Body, ActivateTest, ActivateSet, ActivateSti, Running,
                    DeactivateCondition, DeactivateClear, DeactivateCli
      <4> QED
        BY <4>1 DEF KInv, Booted
    <3>4. /\ pc' \in {"idle", "test", "set", "sti"}
          /\ pc' = "test" => ActiveInterruptManager' = NoManager
          /\ {ActiveInterruptManager', this'} \subseteq {NoManager, interrupts}
      <4> USE DEF KInv, Booted, Running
      <4>1. CASE ActivateTest
        BY <4>1 DEF ActivateTest
      <4>2. CASE ActivateSet
        BY <4>2 DEF ActivateSet
      <4>3. CASE ActivateSti
        BY <4>3 DEF ActivateSti
      <4>4. CASE DeactivateCondition \/ DeactivateClear \/ DeactivateCli
        BY <4>4 DEF DeactivateCondition, DeactivateClear, DeactivateCli
      <4> QED
        BY <2>3, <4>1, <4>2, <4>3, <4>4 DEF Body
    <3>5. Booted'
      BY <2>3, <3>1, <3>3, <3>4 DEF KInv, Booted, mainUnchanged, program
    <3> QED
      BY <3>2, <3>5
  <2>4. ASSUME NEW l \in Lines, Enter(l), UNCHANGED <<boot, rested>>
        PROVE  Booted' /\ DevicesHandled'
    <3>1. frames = <<>> /\ interruptFlag
      BY <2>4 DEF KInv, IInv, Frames, Enter
    <3>2. Booted'
      BY <2>4, <3>1 DEF KInv, Booted, Enter, program, main
    <3>3. \A i \in 1 .. Len(frames') : frames'[i].at # "handler"
      BY <2>4, <3>1 DEF Enter, Frame
    <3> QED
      BY <2>4, <3>2, <3>3 DEF KInv, DevicesHandled, Enter
  <2>5. ASSUME NEW l \in Lines, DeviceRaises(l)
        PROVE  Booted' /\ DevicesHandled'
    BY <2>5 DEF KInv, Booted, DevicesHandled, DeviceRaises, Raise, program,
                main
  <2>6. CASE Loop \/ UNCHANGED kernelVars
    BY <2>6 DEF KInv, Booted, DevicesHandled, Loop, kernelVars, vars,
                hardware, program, main
  <2> QED
    BY <2>1, <2>2, <2>3, <2>4, <2>5, <2>6 DEF KernelNext, Processor
<1> QED
  BY <1>1, <1>2 DEF KInv

(* The order of kernelMain's statements lets every request of the keyboard *)
(* and of the mouse find its driver's handler, whatever else is requested  *)
(* and whenever; and no routed interrupt is lost.                          *)
THEOREM KernelHandlesDevices == KernelSpec => []DevicesHandled
<1>1. KernelInit => KInv
  BY KernelStarts
<1>2. KInv /\ [KernelNext]_kernelVars => KInv'
  BY KernelKeeps
<1>3. KInv => DevicesHandled
  BY DEF KInv
<1> QED
  BY <1>1, <1>2, <1>3, PTL DEF KernelSpec

(* The kernel's runs are runs of Interrupts.tla: what is proved there of   *)
(* every order of calls holds of kernelMain's.                             *)
THEOREM KernelRunsInterrupts == KernelSpec => Spec
<1>1. KernelInit => Init
  BY DEF KernelInit
<1>2. [KernelNext]_kernelVars => [Next]_vars
  BY KernelStepsAreInterrupts
<1> QED
  BY <1>1, <1>2, PTL DEF KernelSpec, Spec

=============================================================================
