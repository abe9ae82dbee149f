------------------------------- MODULE Kernel -------------------------------
(***************************************************************************)
(* kernelMain (alsrc/kernel.cpp) as far as interrupts go: it makes one     *)
(* InterruptManager, the keyboard and the mouse driver, which register     *)
(* their handlers, activates the manager and loops for ever.  Its steps    *)
(* are those of Interrupts.tla, in the order of the program.               *)
(***************************************************************************)
EXTENDS Interrupts

CONSTANTS
  interrupts,  \* kernelMain's InterruptManager
  keyboard,    \* the handler in kernelMain's KeyboardDriver
  mouse        \* the handler in kernelMain's MouseDriver

ASSUME KernelAssumption ==
  /\ interrupts \in Managers
  /\ {keyboard, mouse} \subseteq Handlers
  /\ keyboard # mouse
  /\ {1, 12} \subseteq Lines

VARIABLES
  boot,    \* what kernelMain does next
  rested   \* lines that may be raised again before while(1) turns

kernelVars == <<vars, boot, rested>>

KernelInit ==
  /\ Init
  /\ boot = "construct"
  /\ rested = Lines

BadFollowingActivateEarly ==
  [construct |-> "keyboard", keyboard |-> "activate", activate |-> "mouse",
   mouse |-> "loop"]

(* The statements of kernelMain that touch interrupts, in order.           *)
Following ==
  [construct |-> "keyboard", keyboard |-> "mouse", mouse |-> "activate",
   activate |-> "loop"]

(* The number a driver's constructor registers for: 0x20 + its line.       *)
Statement ==
  \/ boot = "construct" /\ Construct(interrupts)
  \/ boot = "keyboard" /\ Register(keyboard, Vector(1), interrupts)
  \/ boot = "mouse" /\ Register(mouse, Vector(12), interrupts)
  \/ boot = "activate" /\ ActivateCall(interrupts)

Boot ==
  /\ boot # "loop"
  /\ Statement
  /\ boot' = Following[boot]
  /\ UNCHANGED rested

(* A turn of while(1): the processor finds nothing to accept.  Devices are *)
(* slow against handlers, so that each may raise its line once more.       *)
Loop ==
  /\ boot = "loop"
  /\ Running("idle")
  /\ \A l \in Lines : ~Acceptable(l)
  /\ rested' = Lines
  /\ UNCHANGED <<vars, boot>>

DeviceRaises(l) ==
  /\ l \in rested
  /\ rested' = rested \ {l}
  /\ Raise(l)
  /\ UNCHANGED boot

Processor ==
  \/ (Dispatch \/ Body \/ \E l \in Lines : Enter(l)) /\ UNCHANGED <<boot, rested>>
  \/ Boot
  \/ Loop

KernelNext == Processor \/ \E l \in Lines : DeviceRaises(l)

(* The processor keeps running, and handlers return.                       *)
KernelSpec ==
  KernelInit /\ [][KernelNext]_kernelVars /\ WF_kernelVars(Processor)

-----------------------------------------------------------------------------
(* The kernel boots in an order that lets every request of the keyboard    *)
(* and the mouse find its handler, whenever the device raises it, even     *)
(* while drivers are still being made; and no routed interrupt is lost.    *)
DevicesHandled ==
  /\ \A i \in 1 .. Len(frames) :
       frames[i].at = "handler" =>
         /\ frames[i].line = 1 => frames[i].handler = keyboard
         /\ frames[i].line = 12 => frames[i].handler = mouse
  /\ lost = {}

InHandler(h) == At("handler") /\ Top.handler = h

Strays == Lines \ RoutedLines

(* A key stroke reaches the keyboard driver, whatever other lines do: a    *)
(* device whose interrupts nobody ends cannot hold the keyboard off.  The  *)
(* same goes for the mouse, unless such a device has interrupted on the    *)
(* slave controller: its service never ends, and the cascade stays busy.   *)
RequestsServed ==
  /\ boot = "loop" /\ 1 \in irr ~> InHandler(keyboard)
  /\ boot = "loop" /\ 12 \in irr
       ~> InHandler(mouse) \/ isr \cap Slave \cap Strays # {}

=============================================================================
