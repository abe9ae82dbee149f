----------------------------- MODULE Interrupts -----------------------------
(***************************************************************************)
(* Interrupt dispatch: alsrc/hwcom/interrupts.cpp and interruptstubs.s.    *)
(*                                                                         *)
(* One processor runs the main program and, on top of it, interrupts.  A   *)
(* device raises its line at the pair of 8259 controllers; the processor,  *)
(* when its interrupt flag IF is set, accepts the request of the highest   *)
(* priority through a gate of the IDT.  A routed vector runs the stub,     *)
(* handleInterrupt and DoHandleInterrupt down to the end-of-interrupt      *)
(* commands; every other vector meets IgnoreInterruptRequest, a bare iret. *)
(*                                                                         *)
(* The statements that main, preempted between any two of them, shares     *)
(* with interrupts are single steps: those of Activate and Deactivate.     *)
(* The controllers and the processor are no part of the repository; they   *)
(* are modelled as the ICWs of the constructor set them up: fully nested,  *)
(* edge triggered, nothing masked.                                         *)
(*                                                                         *)
(* Exceptions, spurious interrupts and what a handler does (the other      *)
(* modules' subject) are left out.                                         *)
(***************************************************************************)
EXTENDS Integers, Sequences

CONSTANTS
  Lines,      \* the IRQ lines that have a device; line 2 is the cascade
  Managers,   \* the objects of class InterruptManager
  NoManager,  \* the null pointer of type InterruptManager*
  Handlers,   \* the objects of class InterruptHandler
  NoHandler   \* the null pointer of type InterruptHandler*

ASSUME InterruptsAssumption ==
  /\ Lines \subseteq (0 .. 15) \ {2}
  /\ NoManager \notin Managers
  /\ NoHandler \notin Handlers

VARIABLES
  irr,         \* lines whose request is latched
  isr,         \* lines in service, 2 standing for the slave controller
  interruptFlag,  \* the processor's flag IF
  frames,      \* the interrupts being run, the innermost last
  interruptnumber,         \* interruptstubs.s: the byte interruptnumber
  ActiveInterruptManager,  \* InterruptManager::ActiveInterruptManager
  handlers,    \* InterruptManager::handlers of every manager
  object,      \* the fields of every InterruptHandler, NoObject if none
  constructed, \* the managers that exist
  pc,          \* where main is in Activate or Deactivate
  this,        \* the object of the Activate that is running
  target,      \* the object of the Deactivate that is running
  lost         \* history: routed lines that returned without an EOI

hardware == <<irr, isr, interruptFlag>>
program == <<handlers, object, constructed>>
main == <<pc, this, target>>
vars == <<hardware, frames, interruptnumber, ActiveInterruptManager, program,
          main, lost>>

-----------------------------------------------------------------------------
(* The controllers.                                                        *)

Cascade == 2
Master == 0 .. 7
Slave == 8 .. 15

(* ICW2: the master's vectors start at 0x20, the slave's at 0x28.          *)
Vector(l) == IF l \in Master THEN 32 + l ELSE 40 + (l - 8)

Vectors == {Vector(l) : l \in Lines}

(* The input of the master that a line arrives at.                         *)
Input(l) == IF l \in Master THEN l ELSE Cascade

(* A request gets through when nothing of its priority or a higher one is  *)
(* in service, at the slave and at the master.                             *)
Acceptable(l) ==
  /\ l \in irr
  /\ \A i \in isr \cap Master : Input(l) < i
  /\ l \in Slave => \A i \in isr \cap Slave : l < i

Before(l, k) ==
  \/ Input(l) < Input(k)
  \/ Input(l) = Input(k) /\ l <= k

(* A non-specific end-of-interrupt ends the most urgent service there is.  *)
EndMostUrgent(inService) ==
  {i \in inService : \E j \in inService : j < i}

-----------------------------------------------------------------------------
(* The interrupt gates that lead to a stub (0x20, 0x21 and 0x2C).          *)
RoutedLines == {0, 1, 12}

NoObject == [number |-> 0, manager |-> NoManager]

NoHandlers == [n \in Vectors |-> NoHandler]

Frame(l, at) ==
  [line |-> l, at |-> at, number |-> 0, handler |-> NoHandler]

Top == frames[Len(frames)]

At(place) == frames # <<>> /\ Top.at = place

(* The innermost interrupt goes on at another place.                       *)
GoTo(place) == frames' = [frames EXCEPT ![Len(frames)].at = place]

Init ==
  /\ irr = {} /\ isr = {} /\ interruptFlag = FALSE
  /\ frames = <<>>
  /\ interruptnumber = 0
  /\ ActiveInterruptManager = NoManager
  /\ handlers = [m \in Managers |-> NoHandlers]
  /\ object = [h \in Handlers |-> NoObject]
  /\ constructed = {}
  /\ pc = "idle" /\ this = NoManager /\ target = NoManager
  /\ lost = {}

(* A device raises its line.                                               *)
Raise(l) ==
  /\ l \notin irr
  /\ irr' = irr \cup {l}
  /\ UNCHANGED <<isr, interruptFlag, frames, interruptnumber, ActiveInterruptManager,
                 program, main, lost>>

(* Faulty variants, named Bad..., test that the properties can fail.  Here *)
(* the gates are trap gates, which leave interrupts enabled.               *)
BadEnterTrapGate(l) ==
  /\ interruptFlag
  /\ Acceptable(l)
  /\ \A k \in Lines : Acceptable(k) => Before(l, k)
  /\ irr' = irr \ {l}
  /\ isr' = isr \cup {l, Input(l)}
  /\ interruptFlag' = TRUE
  /\ frames' = Append(frames, Frame(l, IF l \in RoutedLines THEN "stub" ELSE "iret"))
  /\ UNCHANGED <<interruptnumber, ActiveInterruptManager, program, main, lost>>

(* The processor accepts the most urgent request.  All gates are interrupt *)
(* gates: IF is cleared.                                                   *)
Enter(l) ==
  /\ interruptFlag
  /\ Acceptable(l)
  /\ \A k \in Lines : Acceptable(k) => Before(l, k)
  /\ irr' = irr \ {l}
  /\ isr' = isr \cup {l, Input(l)}
  /\ interruptFlag' = FALSE
  /\ frames' = Append(frames, Frame(l, IF l \in RoutedLines THEN "stub" ELSE "iret"))
  /\ UNCHANGED <<interruptnumber, ActiveInterruptManager, program, main, lost>>

-----------------------------------------------------------------------------
(* The path of a routed interrupt.                                         *)

(* HandleInterruptRequest<num>: movb $num + IRQ_BASE, (interruptnumber)    *)
Stub ==
  /\ At("stub")
  /\ interruptnumber' = Vector(Top.line)
  /\ GoTo("bottom")
  /\ UNCHANGED <<hardware, ActiveInterruptManager, program, main, lost>>

(* int_bottom pushes interruptnumber and calls handleInterrupt, which      *)
(* returns at once if no manager is active and otherwise enters the        *)
(* handler found in DoHandleInterrupt (or the message, if there is none).  *)
Bottom ==
  /\ At("bottom")
  /\ IF ActiveInterruptManager = NoManager
     THEN /\ GoTo("iret")
          /\ lost' = lost \cup {Top.line}
     ELSE /\ frames' = [frames EXCEPT ![Len(frames)] =
               [Top EXCEPT !.at = "handler",
                           !.number = interruptnumber,
                           !.handler = handlers[ActiveInterruptManager]
                                               [interruptnumber]]]
          /\ UNCHANGED lost
  /\ UNCHANGED <<hardware, interruptnumber, ActiveInterruptManager, program,
                 main>>

BadHandlerReturnsNoTimerEoi ==
  /\ At("handler")
  /\ GoTo(IF 32 < Top.number /\ Top.number < 48 THEN "master" ELSE "iret")
  /\ UNCHANGED <<hardware, interruptnumber, ActiveInterruptManager, program,
                 main, lost>>

(* HandleInterrupt, or printing "UNHANDLED INTERRUPT 0x..", returns.       *)
HandlerReturns ==
  /\ At("handler")
  /\ GoTo(IF 32 <= Top.number /\ Top.number < 48 THEN "master" ELSE "iret")
  /\ UNCHANGED <<hardware, interruptnumber, ActiveInterruptManager, program,
                 main, lost>>

BadEoiMasterAlwaysSlave ==
  /\ At("master")
  /\ isr' = EndMostUrgent(isr \cap Master) \cup (isr \cap Slave)
  /\ GoTo("slave")
  /\ UNCHANGED <<irr, interruptFlag, interruptnumber, ActiveInterruptManager, program,
                 main, lost>>

BadEoiMasterNeverSlave ==
  /\ At("master")
  /\ isr' = EndMostUrgent(isr \cap Master) \cup (isr \cap Slave)
  /\ GoTo("iret")
  /\ UNCHANGED <<irr, interruptFlag, interruptnumber, ActiveInterruptManager, program,
                 main, lost>>

(* picMasterCommand.Write(0x20)                                            *)
EoiMaster ==
  /\ At("master")
  /\ isr' = EndMostUrgent(isr \cap Master) \cup (isr \cap Slave)
  /\ GoTo(IF 40 <= Top.number THEN "slave" ELSE "iret")
  /\ UNCHANGED <<irr, interruptFlag, interruptnumber, ActiveInterruptManager, program,
                 main, lost>>

(* picSlaveCommand.Write(0x20)                                             *)
EoiSlave ==
  /\ At("slave")
  /\ isr' = (isr \cap Master) \cup EndMostUrgent(isr \cap Slave)
  /\ GoTo("iret")
  /\ UNCHANGED <<irr, interruptFlag, interruptnumber, ActiveInterruptManager, program,
                 main, lost>>

(* iret restores the flags of the interrupted program, where IF was set.   *)
Iret ==
  /\ At("iret")
  /\ frames' = SubSeq(frames, 1, Len(frames) - 1)
  /\ interruptFlag' = TRUE
  /\ UNCHANGED <<irr, isr, interruptnumber, ActiveInterruptManager, program,
                 main, lost>>

Dispatch == Stub \/ Bottom \/ HandlerReturns \/ EoiMaster \/ EoiSlave \/ Iret

-----------------------------------------------------------------------------
(* The main program, which runs while no interrupt does.                   *)

Running(place) == frames = <<>> /\ pc = place

(* InterruptManager::InterruptManager: empty handlers, the IDT, and the    *)
(* ICWs that reset the controllers.  Managers are made before interrupts   *)
(* are enabled.                                                            *)
Construct(m) ==
  /\ Running("idle")
  /\ ~interruptFlag
  /\ m \notin constructed
  /\ constructed' = constructed \cup {m}
  /\ handlers' = [handlers EXCEPT ![m] = NoHandlers]
  /\ irr' = {} /\ isr' = {}
  /\ UNCHANGED <<interruptFlag, frames, interruptnumber, ActiveInterruptManager, object,
                 main, lost>>

(* InterruptHandler::InterruptHandler                                      *)
Register(h, n, m) ==
  /\ Running("idle")
  /\ m \in constructed
  /\ object[h] = NoObject
  /\ object' = [object EXCEPT ![h] = [number |-> n, manager |-> m]]
  /\ handlers' = [handlers EXCEPT ![m][n] = h]
  /\ UNCHANGED <<hardware, frames, interruptnumber, ActiveInterruptManager,
                 constructed, main, lost>>

BadUnregisterAnyone(h) ==
  /\ Running("idle")
  /\ object[h] # NoObject
  /\ object' = [object EXCEPT ![h] = NoObject]
  /\ handlers' = [handlers EXCEPT ![object[h].manager][object[h].number] = NoHandler]
  /\ UNCHANGED <<hardware, frames, interruptnumber, ActiveInterruptManager,
                 constructed, main, lost>>

BadUnregisterNot(h) ==
  /\ Running("idle")
  /\ object[h] # NoObject
  /\ object' = [object EXCEPT ![h] = NoObject]
  /\ UNCHANGED <<hardware, frames, interruptnumber, ActiveInterruptManager,
                 handlers, constructed, main, lost>>

(* InterruptHandler::~InterruptHandler                                     *)
Unregister(h) ==
  /\ Running("idle")
  /\ object[h] # NoObject
  /\ object' = [object EXCEPT ![h] = NoObject]
  /\ LET m == object[h].manager
         n == object[h].number
     IN  handlers' = IF handlers[m][n] = h
                     THEN [handlers EXCEPT ![m][n] = NoHandler]
                     ELSE handlers
  /\ UNCHANGED <<hardware, frames, interruptnumber, ActiveInterruptManager,
                 constructed, main, lost>>

mainUnchanged == <<irr, isr, frames, interruptnumber, program, lost>>

(* m->Activate() is called.                                                *)
ActivateCall(m) ==
  /\ Running("idle")
  /\ m \in constructed
  /\ pc' = "test"
  /\ this' = m
  /\ UNCHANGED <<interruptFlag, ActiveInterruptManager, target, mainUnchanged>>

BadActivateTestNoNullCheck ==
  /\ Running("test")
  /\ pc' = "condition"
  /\ target' = ActiveInterruptManager
  /\ UNCHANGED <<interruptFlag, ActiveInterruptManager, this, mainUnchanged>>

(* The next statement belongs to the if, as its indentation suggests.      *)
BadActivateTestBraces ==
  /\ Running("test")
  /\ pc' = IF ActiveInterruptManager # NoManager THEN "condition" ELSE "sti"
  /\ target' = ActiveInterruptManager
  /\ UNCHANGED <<interruptFlag, ActiveInterruptManager, this, mainUnchanged>>

(* if(ActiveInterruptManager != 0) ActiveInterruptManager->Deactivate();   *)
ActivateTest ==
  /\ Running("test")
  /\ pc' = IF ActiveInterruptManager # NoManager THEN "condition" ELSE "set"
  /\ target' = ActiveInterruptManager
  /\ UNCHANGED <<interruptFlag, ActiveInterruptManager, this, mainUnchanged>>

(* m->Deactivate() is called from elsewhere.                               *)
DeactivateCall(m) ==
  /\ Running("idle")
  /\ m \in constructed
  /\ pc' = "condition"
  /\ target' = m
  /\ UNCHANGED <<interruptFlag, ActiveInterruptManager, this, mainUnchanged>>

(* if(ActiveInterruptManager = this): an assignment, which is never null.  *)
DeactivateCondition ==
  /\ Running("condition")
  /\ ActiveInterruptManager' = target
  /\ pc' = "clear"
  /\ UNCHANGED <<interruptFlag, this, target, mainUnchanged>>

(* ActiveInterruptManager = 0;                                             *)
DeactivateClear ==
  /\ Running("clear")
  /\ ActiveInterruptManager' = NoManager
  /\ pc' = "cli"
  /\ UNCHANGED <<interruptFlag, this, target, mainUnchanged>>

BadDeactivateNoCli ==
  /\ Running("cli")
  /\ pc' = IF this # NoManager THEN "set" ELSE "idle"
  /\ target' = NoManager
  /\ UNCHANGED <<interruptFlag, ActiveInterruptManager, this, mainUnchanged>>

(* asm("cli"); and back to Activate, if it was the caller.                 *)
DeactivateCli ==
  /\ Running("cli")
  /\ interruptFlag' = FALSE
  /\ pc' = IF this # NoManager THEN "set" ELSE "idle"
  /\ target' = NoManager
  /\ UNCHANGED <<ActiveInterruptManager, this, mainUnchanged>>

(* ActiveInterruptManager = this;                                          *)
ActivateSet ==
  /\ Running("set")
  /\ ActiveInterruptManager' = this
  /\ pc' = "sti"
  /\ UNCHANGED <<interruptFlag, this, target, mainUnchanged>>

(* asm("sti");                                                             *)
ActivateSti ==
  /\ Running("sti")
  /\ interruptFlag' = TRUE
  /\ pc' = "idle"
  /\ this' = NoManager
  /\ UNCHANGED <<ActiveInterruptManager, target, mainUnchanged>>

Body ==
  \/ ActivateTest \/ ActivateSet \/ ActivateSti
  \/ DeactivateCondition \/ DeactivateClear \/ DeactivateCli

Call ==
  \/ \E m \in Managers : Construct(m) \/ ActivateCall(m) \/ DeactivateCall(m)
  \/ \E h \in Handlers, n \in Vectors, m \in Managers : Register(h, n, m)
  \/ \E h \in Handlers : Unregister(h)

Next ==
  \/ \E l \in Lines : Raise(l) \/ Enter(l)
  \/ Dispatch
  \/ Body
  \/ Call

Spec == Init /\ [][Next]_vars

-----------------------------------------------------------------------------
Places == {"stub", "bottom", "handler", "master", "slave", "iret"}

(* Every variable has its type; the object of a running Activate or        *)
(* Deactivate is never null.                                               *)
TypeOK ==
  /\ irr \subseteq Lines
  /\ isr \subseteq Lines \cup {Cascade}
  /\ interruptFlag \in BOOLEAN
  /\ frames \in Seq([line : Lines, at : Places, number : Vectors \cup {0},
                     handler : Handlers \cup {NoHandler}])
  /\ interruptnumber \in Vectors \cup {0}
  /\ ActiveInterruptManager \in Managers \cup {NoManager}
  /\ handlers \in [Managers -> [Vectors -> Handlers \cup {NoHandler}]]
  /\ object \in [Handlers -> [number : Vectors, manager : Managers]
                              \cup {NoObject}]
  /\ constructed \subseteq Managers
  /\ pc \in {"idle", "test", "condition", "clear", "cli", "set", "sti"}
  /\ this \in Managers \cup {NoManager}
  /\ target \in Managers \cup {NoManager}
  /\ pc \in {"test", "set", "sti"} => this # NoManager
  /\ pc \in {"condition", "clear", "cli"} => target # NoManager
  /\ lost \subseteq RoutedLines

(* The stub hands the vector over in one global byte, interruptnumber.     *)
(* Whatever else is requested meanwhile, DoHandleInterrupt is called with  *)
(* the number of the line that was accepted, and the handler it finds was  *)
(* registered for that number: no second stub gets between the two.        *)
RightHandler ==
  \A i \in 1 .. Len(frames) :
    frames[i].at \in {"handler", "master", "slave"} =>
      /\ frames[i].number = Vector(frames[i].line)
      /\ frames[i].handler # NoHandler /\ frames[i].at = "handler"
           => object[frames[i].handler].number = frames[i].number

(* A routed line is in service just as long as its interrupt has not sent  *)
(* the end-of-interrupt command, unless it was lost in Deactivate; and the *)
(* master serves the cascade only for a line of the slave.  A service bit  *)
(* that stays set blocks its line and all less urgent ones for good.       *)
InServiceAccounted ==
  /\ \A l \in isr \cap RoutedLines :
       l \in lost \/ \E i \in 1 .. Len(frames) : frames[i].line = l
  /\ \A i \in 1 .. Len(frames) :
       frames[i].at \in {"stub", "bottom", "handler", "master"} =>
         {frames[i].line, Input(frames[i].line)} \subseteq isr
  /\ Cascade \in isr => isr \cap Slave # {}

(* Between calls interrupts are enabled exactly while a manager is active: *)
(* none is accepted that nobody would end, and none is held off that       *)
(* somebody would serve.                                                   *)
EnabledIffActive ==
  pc = "idle" /\ frames = <<>> =>
    (interruptFlag <=> ActiveInterruptManager # NoManager)

(* The table never points to a handler that was destroyed, or that was     *)
(* registered for another number or with another manager.                  *)
NoDanglingHandler ==
  \A m \in Managers, n \in Vectors :
    handlers[m][n] # NoHandler =>
      object[handlers[m][n]] = [number |-> n, manager |-> m]

(* The end-of-interrupt commands name no line: each ends the most urgent   *)
(* service of a controller.  They never end that of another line than the  *)
(* one whose interrupt sends them, though strays remain in service.        *)
EoiEndsOwnService ==
  [][ constructed' = constructed =>
        \A i \in isr \ isr' :
          frames # <<>> /\ i \in {Top.line, Input(Top.line)} ]_vars

(* A routed interrupt returns without its end-of-interrupt only between    *)
(* the last two statements of Deactivate, where no manager is active and   *)
(* interrupts are still enabled.                                           *)
LostOnlyInDeactivate == [][lost' # lost => pc = "cli"]_vars

(* A registration ends with its own handler or gives way to a newer one;   *)
(* destroying a handler that was replaced leaves its successor alone.      *)
RegistrationKept ==
  [][ \A m \in constructed, n \in Vectors :
        LET h == handlers[m][n]
        IN  h # NoHandler /\ handlers'[m][n] # h =>
              \/ object'[h] = NoObject
              \/ /\ handlers'[m][n] # NoHandler
                 /\ object[handlers'[m][n]] = NoObject ]_vars

=============================================================================
