-------------------------- MODULE InterruptsProofs --------------------------
(***************************************************************************)
(* Theorems about Interrupts.tla, for every set of devices, managers and   *)
(* handlers.                                                               *)
(*                                                                         *)
(* The inductive invariant IInv says in which state each statement of the  *)
(* dispatcher and of Activate and Deactivate is reached: at most one       *)
(* interrupt runs, it still has the number its stub wrote, its service is  *)
(* the most urgent of its controllers until it is ended, and main's view   *)
(* of IF goes with ActiveInterruptManager statement by statement.          *)
(***************************************************************************)
EXTENDS Interrupts, TLAPS

FrameType == [line : Lines, at : Places, number : Vectors \cup {0},
              handler : Handlers \cup {NoHandler}]

MainPlaces == {"idle", "test", "condition", "clear", "cli", "set", "sti"}

(* TypeOK without the frames, which IInv describes with the rest.          *)
Types ==
  /\ irr \subseteq Lines
  /\ isr \subseteq Lines \cup {Cascade}
  /\ interruptFlag \in BOOLEAN
  /\ interruptnumber \in Vectors \cup {0}
  /\ ActiveInterruptManager \in Managers \cup {NoManager}
  /\ handlers \in [Managers -> [Vectors -> Handlers \cup {NoHandler}]]
  /\ object \in [Handlers -> [number : Vectors, manager : Managers]
                              \cup {NoObject}]
  /\ constructed \subseteq Managers
  /\ pc \in MainPlaces
  /\ this \in Managers \cup {NoManager}
  /\ target \in Managers \cup {NoManager}
  /\ pc \in {"test", "set", "sti"} => this # NoManager
  /\ pc \in {"condition", "clear", "cli"} => target # NoManager
  /\ lost \subseteq RoutedLines

(* What holds of the interrupt f that is being run.                        *)
Running1(f) ==
  /\ f \in FrameType
  /\ f.at # "iret" => f.line \in RoutedLines
  /\ f.at = "bottom" => interruptnumber = Vector(f.line)
  /\ f.at \in {"handler", "master", "slave"} => f.number = Vector(f.line)
  /\ f.at = "handler" /\ f.handler # NoHandler =>
       object[f.handler].number = f.number

(* How its service stands with the controllers, and at its end.            *)
Service(f) ==
  /\ f.at \in {"stub", "bottom", "handler", "master"} =>
       /\ {f.line, Input(f.line)} \subseteq isr
       /\ \A i \in isr \cap Master : Input(f.line) <= i
  /\ f.at = "slave" => f.line \in isr \cap Slave /\ Cascade \notin isr
  /\ f.at # "iret" /\ f.line \in Slave => \A i \in isr \cap Slave : f.line <= i
  /\ f.at = "iret" => f.line \notin isr \cap (RoutedLines \ lost)

Frames ==
  \/ frames = <<>>
  \/ /\ ~interruptFlag
     /\ \E f \in FrameType : frames = <<f>> /\ Running1(f) /\ Service(f)

(* Routed lines in service are being served, or were lost.                 *)
Accounted ==
  /\ \A l \in isr \cap RoutedLines :
       l \in lost \/ (frames # <<>> /\ frames[1].line = l)
  /\ Cascade \in isr => isr \cap Slave # {}

(* IF, as main finds it: interrupts clear it only while they run.          *)
mainFlag == interruptFlag \/ frames # <<>>

MainFlag ==
  /\ pc \in {"idle", "test"} =>
       (mainFlag <=> ActiveInterruptManager # NoManager)
  /\ pc \in {"condition", "clear"} =>
       (mainFlag => ActiveInterruptManager # NoManager)
  /\ pc = "cli" => ActiveInterruptManager = NoManager
  /\ pc = "set" => ~mainFlag /\ ActiveInterruptManager = NoManager
  /\ pc = "sti" => ~mainFlag /\ ActiveInterruptManager = this

IInv ==
  /\ Types
  /\ Frames
  /\ Accounted
  /\ MainFlag
  /\ NoDanglingHandler

-----------------------------------------------------------------------------
(* The interrupts that run, as a sequence of at most one.                  *)

(* The innermost interrupt of one is that one.                             *)
LEMMA OneFrame ==
  ASSUME NEW f, frames = <<f>>
  PROVE  frames # <<>> /\ Len(frames) = 1 /\ frames[1] = f /\ Top = f
BY DEF Top

(* Going on at another place changes nothing else of the interrupt.        *)
LEMMA OneFrameGoesTo ==
  ASSUME NEW f \in FrameType, frames = <<f>>, NEW p \in Places, GoTo(p)
  PROVE  /\ frames' = <<[f EXCEPT !.at = p]>>
         /\ [f EXCEPT !.at = p] \in FrameType
<1>1. frames' = [frames EXCEPT ![1].at = p]
  BY OneFrame DEF GoTo
<1>2. frames' = <<[f EXCEPT !.at = p]>>
  BY <1>1
<1> QED
  BY <1>2 DEF FrameType

(* An interrupt that is at a place of its path is the only one, and runs   *)
(* with IF cleared.                                                        *)
LEMMA TheFrame ==
  ASSUME IInv, NEW p, At(p)
  PROVE  /\ ~interruptFlag
         /\ \E f \in FrameType :
              frames = <<f>> /\ f.at = p /\ Running1(f) /\ Service(f)
BY OneFrame DEF IInv, Frames, At

(* A vector is that of one line, and the master's are below the slave's.   *)
LEMMA VectorOfLine ==
  ASSUME NEW l \in Lines
  PROVE  /\ Vector(l) \in Vectors
         /\ 32 <= Vector(l) /\ Vector(l) < 48
         /\ 40 <= Vector(l) <=> l \in Slave
         /\ l \in Master <=> l \notin Slave
         /\ l # Cascade
BY InterruptsAssumption DEF Vectors, Vector, Slave, Master, Cascade

(* Ending the most urgent service of a controller ends that one only.      *)
LEMMA EndsTheLeast ==
  ASSUME NEW S \in SUBSET Int, NEW m \in S, \A i \in S : m <= i
  PROVE  EndMostUrgent(S) = S \ {m}
<1>1. \A i \in S : (\E j \in S : j < i) <=> i # m
  BY SMT
<1> QED
  BY <1>1 DEF EndMostUrgent

-----------------------------------------------------------------------------
(* The initial state.                                                      *)

(* Before anything runs there is no manager, no handler and no frame.      *)
LEMMA InterruptsInit == Init => IInv
<1> SUFFICES ASSUME Init PROVE IInv
  OBVIOUS
<1>1. Types
  BY DEF Init, Types, MainPlaces, NoHandlers
<1>2. NoDanglingHandler
  BY DEF Init, NoDanglingHandler, NoHandlers
<1>3. Frames /\ Accounted /\ MainFlag
  BY DEF Init, Frames, Accounted, MainFlag, mainFlag
<1> QED
  BY <1>1, <1>2, <1>3 DEF IInv

-----------------------------------------------------------------------------
(* Devices and the processor.                                              *)

(* A request touches nothing that the invariant relates.                   *)
LEMMA RaiseKeeps ==
  ASSUME IInv, NEW l \in Lines, Raise(l)
  PROVE  IInv'
<1> USE DEF Raise, hardware, program, main
<1>1. Types'
  BY DEF IInv, Types
<1>2. Frames'
  BY DEF IInv, Frames, Running1, Service
<1>3. Accounted' /\ MainFlag' /\ NoDanglingHandler'
  BY DEF IInv, Accounted, MainFlag, mainFlag, NoDanglingHandler
<1> QED
  BY <1>1, <1>2, <1>3 DEF IInv

(* An interrupt is accepted by a program that runs with IF set, and into   *)
(* the most urgent service of its controllers.                             *)
LEMMA EnterKeeps ==
  ASSUME IInv, NEW l \in Lines, Enter(l)
  PROVE  IInv'
<1> USE DEF program, main
<1> DEFINE f == Frame(l, IF l \in RoutedLines THEN "stub" ELSE "iret")
<1>1. frames = <<>> /\ interruptFlag /\ ~interruptFlag'
  BY DEF IInv, Frames, Enter
<1>2. f \in FrameType /\ f.line = l
      /\ f.at = (IF l \in RoutedLines THEN "stub" ELSE "iret")
  BY DEF FrameType, Frame, Places
<1>3. frames' = <<f>>
  BY <1>1 DEF Enter
<1>4. /\ isr' = isr \cup {l, Input(l)}
      /\ isr \subseteq Int /\ Input(l) \in Master /\ l \in Int
      /\ Input(l) = IF l \in Slave THEN Cascade ELSE l
      /\ l \in Master <=> l \notin Slave
      /\ Cascade \in Master /\ Cascade \notin Slave /\ l # Cascade
  BY VectorOfLine, InterruptsAssumption
     DEF IInv, Types, Enter, Input, Cascade, Slave, Master
<1>5. Types'
  BY <1>4, InterruptsAssumption DEF IInv, Types, Enter
<1>6. Running1(f)'
  BY <1>2 DEF Running1
<1>7. Service(f)'
  <2>1. \A i \in isr' \cap Master : Input(l) <= i
    BY <1>4 DEF Enter, Acceptable, Master
  <2>2. l \in Slave => \A i \in isr' \cap Slave : l <= i
    BY <1>4 DEF Enter, Acceptable, Slave
  <2> HIDE DEF f
  <2> QED
    BY <1>2, <1>4, <2>1, <2>2 DEF Service
<1>8. Frames'
  BY <1>1, <1>2, <1>3, <1>6, <1>7 DEF Frames
<1>9. Accounted'
  <2>1. isr' \cap RoutedLines \subseteq (isr \cap RoutedLines) \cup {l}
    BY <1>4 DEF RoutedLines, Cascade
  <2>2. frames' # <<>> /\ frames'[1].line = l
    BY <1>2, <1>3
  <2>3. lost' = lost
    BY DEF Enter
  <2>4. Cascade \in isr' => isr' \cap Slave # {}
    BY <1>4 DEF IInv, Accounted
  <2> QED
    BY <1>1, <2>1, <2>2, <2>3, <2>4 DEF IInv, Accounted
<1>10. MainFlag' /\ NoDanglingHandler'
  BY <1>1, <1>3 DEF IInv, MainFlag, mainFlag, NoDanglingHandler, Enter
<1> QED
  BY <1>5, <1>8, <1>9, <1>10 DEF IInv

-----------------------------------------------------------------------------
(* The path of an interrupt.                                               *)

(* A step that only moves the interrupt on and leaves the state of main    *)
(* and of the controllers alone has this to show.                          *)
LEMMA FrameStep ==
  ASSUME IInv, frames # <<>>, ~interruptFlag,
         NEW g \in FrameType, frames' = <<g>>, Running1(g)', Service(g)',
         irr' = irr, isr' \subseteq isr, interruptFlag' = interruptFlag,
         interruptnumber' \in Vectors \cup {0}, lost' \subseteq RoutedLines,
         UNCHANGED <<ActiveInterruptManager, program, main>>,
         \A l \in isr' \cap RoutedLines : l \in lost' \/ g.line = l,
         Cascade \in isr' => isr' \cap Slave # {}
  PROVE  IInv'
<1>1. Types'
  BY DEF IInv, Types, program, main
<1>2. Frames'
  BY DEF Frames
<1>3. Accounted'
  BY DEF Accounted
<1>4. MainFlag'
  BY DEF IInv, MainFlag, mainFlag, main
<1>5. NoDanglingHandler'
  BY DEF IInv, NoDanglingHandler, program
<1> QED
  BY <1>1, <1>2, <1>3, <1>4, <1>5 DEF IInv

(* The stub writes the number of the line it was entered for.              *)
LEMMA StubKeeps == IInv /\ Stub => IInv'
<1> SUFFICES ASSUME IInv, Stub PROVE IInv'
  OBVIOUS
<1>1. PICK f \in FrameType :
        /\ frames = <<f>> /\ f.at = "stub"
        /\ Running1(f) /\ Service(f) /\ ~interruptFlag
  BY TheFrame DEF Stub
<1> DEFINE g == [f EXCEPT !.at = "bottom"]
<1>2. frames' = <<g>> /\ g \in FrameType
  BY <1>1, OneFrameGoesTo DEF Stub, Places
<1>3. g.at = "bottom" /\ g.line = f.line /\ f.line \in Lines
  BY <1>1 DEF FrameType
<1>4. interruptnumber' = Vector(f.line) /\ Vector(f.line) \in Vectors
  BY <1>1, <1>3, OneFrame, VectorOfLine DEF Stub
<1> HIDE DEF g
<1>5. Running1(g)'
  BY <1>1, <1>2, <1>3, <1>4 DEF Running1
<1>6. Service(g)'
  BY <1>1, <1>3 DEF Service, Stub, hardware
<1>7. \A l \in isr \cap RoutedLines : l \in lost \/ g.line = l
  BY <1>1, <1>3, OneFrame DEF IInv, Accounted
<1> QED
  BY <1>1, <1>2, <1>4, <1>5, <1>6, <1>7, OneFrame, FrameStep
     DEF Stub, hardware, IInv, Types, Accounted

(* The number that is pushed is still the one the stub wrote, and the      *)
(* handler found for it has registered for it.                             *)
LEMMA BottomKeeps == IInv /\ Bottom => IInv'
<1> SUFFICES ASSUME IInv, Bottom PROVE IInv'
  OBVIOUS
<1>1. PICK f \in FrameType :
        /\ frames = <<f>> /\ f.at = "bottom"
        /\ Running1(f) /\ Service(f) /\ ~interruptFlag
  BY TheFrame DEF Bottom
<1>2. /\ frames # <<>> /\ Len(frames) = 1 /\ Top = f /\ frames[1] = f
      /\ f.line \in Lines /\ f.line \in RoutedLines
      /\ interruptnumber = Vector(f.line) /\ interruptnumber \in Vectors
  BY <1>1, OneFrame, VectorOfLine DEF Running1, FrameType
<1>3. \A l \in isr \cap RoutedLines : l \in lost \/ f.line = l
  BY <1>2 DEF IInv, Accounted
<1>4. CASE ActiveInterruptManager = NoManager
  <2> DEFINE g == [f EXCEPT !.at = "iret"]
  <2>1. frames' = <<g>> /\ g \in FrameType
    BY <1>1, <1>4, OneFrameGoesTo DEF Bottom, Places
  <2>2. g.at = "iret" /\ g.line = f.line
    BY <1>1 DEF FrameType
  <2>3. lost' = lost \cup {f.line}
    BY <1>2, <1>4 DEF Bottom
  <2> HIDE DEF g
  <2>4. Running1(g)' /\ Service(g)'
    BY <2>1, <2>2, <2>3 DEF Running1, Service
  <2> QED
    BY <1>1, <1>2, <1>3, <2>1, <2>2, <2>3, <2>4, FrameStep
       DEF Bottom, hardware, IInv, Types, Accounted
<1>5. CASE ActiveInterruptManager # NoManager
  <2>1. PICK a \in Handlers \cup {NoHandler} :
               a = handlers[ActiveInterruptManager][interruptnumber]
    BY <1>2, <1>5 DEF IInv, Types
  <2>2. a # NoHandler =>
          object[a] = [number |-> interruptnumber,
                       manager |-> ActiveInterruptManager]
    BY <1>2, <1>5, <2>1 DEF IInv, Types, NoDanglingHandler
  <2> DEFINE g == [f EXCEPT !.at = "handler", !.number = Vector(f.line),
                            !.handler = a]
  <2>3. frames' = <<g>>
    <3>1. frames' = [frames EXCEPT ![1] = g]
      BY <1>2, <1>5, <2>1 DEF Bottom
    <3> HIDE DEF g
    <3> QED
      BY <1>1, <3>1
  <2>4. /\ g \in FrameType /\ g.line = f.line /\ g.at = "handler"
        /\ g.number = Vector(f.line) /\ g.handler = a
    BY <1>1, <1>2 DEF FrameType, Places
  <2>5. /\ UNCHANGED <<hardware, interruptnumber, program, main, lost>>
        /\ UNCHANGED ActiveInterruptManager
    BY <1>5 DEF Bottom
  <2> HIDE DEF g
  <2>6. Running1(g)'
    BY <1>2, <2>2, <2>4, <2>5 DEF Running1, program
  <2>7. Service(g)'
    BY <1>1, <2>4, <2>5 DEF Service, hardware
  <2> QED
    BY <1>1, <1>2, <1>3, <2>3, <2>4, <2>5, <2>6, <2>7, FrameStep
       DEF hardware, IInv, Types, Accounted
<1> QED
  BY <1>4, <1>5

(* Every routed number is one of the controllers', so that the end of the  *)
(* interrupt is sent.                                                      *)
LEMMA HandlerReturnsKeeps == IInv /\ HandlerReturns => IInv'
<1> SUFFICES ASSUME IInv, HandlerReturns PROVE IInv'
  OBVIOUS
<1>1. PICK f \in FrameType :
        /\ frames = <<f>> /\ f.at = "handler"
        /\ Running1(f) /\ Service(f) /\ ~interruptFlag
  BY TheFrame DEF HandlerReturns
<1>2. /\ frames # <<>> /\ Top = f /\ frames[1] = f /\ f.line \in Lines
      /\ f.number = Vector(f.line)
  BY <1>1, OneFrame DEF Running1, FrameType
<1>3. GoTo("master")
  BY <1>2, VectorOfLine DEF HandlerReturns
<1> DEFINE g == [f EXCEPT !.at = "master"]
<1>4. frames' = <<g>> /\ g \in FrameType
  BY <1>1, <1>3, OneFrameGoesTo DEF Places
<1>5. g.at = "master" /\ g.line = f.line /\ g.number = f.number
  BY <1>1 DEF FrameType
<1> HIDE DEF g
<1>6. Running1(g)' /\ Service(g)'
  BY <1>1, <1>2, <1>4, <1>5 DEF Running1, Service, HandlerReturns, hardware
<1>7. \A l \in isr \cap RoutedLines : l \in lost \/ g.line = l
  BY <1>2, <1>5 DEF IInv, Accounted
<1> QED
  BY <1>1, <1>2, <1>4, <1>6, <1>7, FrameStep
     DEF HandlerReturns, hardware, IInv, Types, Accounted

(* The first command ends the service of the interrupt that sends it at    *)
(* the master, and nothing else.                                           *)
LEMMA EoiMasterEnds ==
  ASSUME IInv, NEW f \in FrameType, frames = <<f>>, f.at = "master", EoiMaster
  PROVE  /\ Input(f.line) \in isr \cap Master
         /\ isr' = isr \ {Input(f.line)}
<1>1. Service(f) /\ f.line \in Lines
  BY OneFrame DEF IInv, Frames, FrameType
<1>2. isr \subseteq Master \cup Slave /\ Master \cap Slave = {}
      /\ Master \subseteq Int /\ Input(f.line) \in Master
  BY <1>1, InterruptsAssumption
     DEF IInv, Types, Input, Master, Slave, Cascade
<1>3. Input(f.line) \in isr \cap Master
      /\ \A i \in isr \cap Master : Input(f.line) <= i
  BY <1>1, <1>2 DEF Service
<1>4. EndMostUrgent(isr \cap Master) = (isr \cap Master) \ {Input(f.line)}
  BY <1>2, <1>3, EndsTheLeast
<1> QED
  BY <1>2, <1>3, <1>4 DEF EoiMaster

(* So does the second command, at the slave.                               *)
LEMMA EoiSlaveEnds ==
  ASSUME IInv, NEW f \in FrameType, frames = <<f>>, f.at = "slave", EoiSlave
  PROVE  /\ f.line \in isr \cap Slave
         /\ isr' = isr \ {f.line}
<1>1. Service(f) /\ f.line \in Lines
  BY OneFrame DEF IInv, Frames, FrameType
<1>2. isr \subseteq Master \cup Slave /\ Master \cap Slave = {}
      /\ Slave \subseteq Int
  BY <1>1, InterruptsAssumption
     DEF IInv, Types, Master, Slave, Cascade
<1>3. f.line \in isr \cap Slave /\ \A i \in isr \cap Slave : f.line <= i
  BY <1>1, <1>2 DEF Service
<1>4. EndMostUrgent(isr \cap Slave) = (isr \cap Slave) \ {f.line}
  BY <1>2, <1>3, EndsTheLeast
<1> QED
  BY <1>2, <1>3, <1>4 DEF EoiSlave

(* The command to the master ends the service of its most urgent input.    *)
LEMMA EoiMasterKeeps == IInv /\ EoiMaster => IInv'
<1> SUFFICES ASSUME IInv, EoiMaster PROVE IInv'
  OBVIOUS
<1>1. PICK f \in FrameType :
        /\ frames = <<f>> /\ f.at = "master"
        /\ Running1(f) /\ Service(f) /\ ~interruptFlag
  BY TheFrame DEF EoiMaster
<1>2. /\ frames # <<>> /\ Top = f /\ frames[1] = f /\ f.line \in Lines
      /\ f.number = Vector(f.line)
      /\ f.line \in Master <=> f.line \notin Slave
      /\ 40 <= Vector(f.line) <=> f.line \in Slave
      /\ f.line # Cascade /\ Cascade \in Master /\ Cascade \notin Slave
      /\ Cascade \notin RoutedLines /\ Master \cap Slave = {}
      /\ Input(f.line) = IF f.line \in Slave THEN Cascade ELSE f.line
  BY <1>1, OneFrame, VectorOfLine
     DEF Running1, FrameType, Cascade, Master, Slave, RoutedLines, Input
<1>3. isr' = isr \ {Input(f.line)}
  BY <1>1, EoiMasterEnds
<1>4. \A l \in isr \cap RoutedLines : l \in lost \/ f.line = l
  BY <1>2 DEF IInv, Accounted
<1>5. Cascade \in isr' => isr' \cap Slave # {}
  BY <1>2, <1>3 DEF IInv, Accounted
<1>6. /\ irr' = irr /\ isr' \subseteq isr /\ lost' = lost
      /\ interruptFlag' = interruptFlag
      /\ UNCHANGED <<interruptnumber, ActiveInterruptManager, program, main>>
  BY <1>3 DEF EoiMaster
<1>7. CASE f.line \in Slave
  <2> DEFINE g == [f EXCEPT !.at = "slave"]
  <2>1. frames' = <<g>> /\ g \in FrameType
    BY <1>1, <1>2, <1>7, OneFrameGoesTo DEF EoiMaster, Places
  <2>2. g.at = "slave" /\ g.line = f.line /\ g.number = f.number
    BY <1>1 DEF FrameType
  <2> HIDE DEF g
  <2>3. Running1(g)' /\ Service(g)'
    BY <1>1, <1>2, <1>3, <1>7, <2>1, <2>2 DEF Running1, Service
  <2> QED
    BY <1>1, <1>2, <1>4, <1>5, <1>6, <2>1, <2>2, <2>3, FrameStep
       DEF IInv, Types
<1>8. CASE f.line \in Master
  <2> DEFINE g == [f EXCEPT !.at = "iret"]
  <2>1. frames' = <<g>> /\ g \in FrameType
    BY <1>1, <1>2, <1>8, OneFrameGoesTo DEF EoiMaster, Places
  <2>2. g.at = "iret" /\ g.line = f.line
    BY <1>1 DEF FrameType
  <2> HIDE DEF g
  <2>3. Running1(g)' /\ Service(g)'
    BY <1>2, <1>3, <1>8, <2>1, <2>2 DEF Running1, Service
  <2> QED
    BY <1>1, <1>2, <1>4, <1>5, <1>6, <2>1, <2>2, <2>3, FrameStep
       DEF IInv, Types
<1> QED
  BY <1>2, <1>7, <1>8

(* The command to the slave ends the service of its most urgent line.      *)
LEMMA EoiSlaveKeeps == IInv /\ EoiSlave => IInv'
<1> SUFFICES ASSUME IInv, EoiSlave PROVE IInv'
  OBVIOUS
<1>1. PICK f \in FrameType :
        /\ frames = <<f>> /\ f.at = "slave"
        /\ Running1(f) /\ Service(f) /\ ~interruptFlag
  BY TheFrame DEF EoiSlave
<1>2. frames # <<>> /\ Top = f /\ frames[1] = f
  BY <1>1, OneFrame
<1>3. isr' = isr \ {f.line} /\ Cascade \notin isr
  BY <1>1, EoiSlaveEnds DEF Service
<1>4. \A l \in isr \cap RoutedLines : l \in lost \/ f.line = l
  BY <1>2 DEF IInv, Accounted
<1>5. /\ irr' = irr /\ isr' \subseteq isr /\ lost' = lost
      /\ interruptFlag' = interruptFlag
      /\ UNCHANGED <<interruptnumber, ActiveInterruptManager, program, main>>
  BY <1>3 DEF EoiSlave
<1> DEFINE g == [f EXCEPT !.at = "iret"]
<1>6. frames' = <<g>> /\ g \in FrameType
  BY <1>1, OneFrameGoesTo DEF EoiSlave, Places
<1>7. g.at = "iret" /\ g.line = f.line
  BY <1>1 DEF FrameType
<1> HIDE DEF g
<1>8. Running1(g)' /\ Service(g)'
  BY <1>3, <1>6, <1>7 DEF Running1, Service
<1> QED
  BY <1>1, <1>2, <1>3, <1>4, <1>5, <1>6, <1>7, <1>8, FrameStep
     DEF IInv, Types

(* The interrupted program goes on as it was, with IF set.                 *)
LEMMA IretKeeps == IInv /\ Iret => IInv'
<1> SUFFICES ASSUME IInv, Iret PROVE IInv'
  OBVIOUS
<1> USE DEF program, main
<1>1. PICK f \in FrameType :
        /\ frames = <<f>> /\ f.at = "iret"
        /\ Running1(f) /\ Service(f) /\ ~interruptFlag
  BY TheFrame DEF Iret
<1>2. frames # <<>> /\ Len(frames) = 1 /\ frames[1] = f
  BY <1>1, OneFrame
<1>3. frames' = <<>>
  <2>1. frames' = SubSeq(frames, 1, 0)
    BY <1>2 DEF Iret
  <2> QED
    BY <1>1, <2>1
<1>4. Types'
  BY DEF IInv, Types, Iret
<1>5. Frames'
  BY <1>3 DEF Frames
<1>6. Accounted'
  BY <1>1, <1>2 DEF IInv, Accounted, Service, Iret
<1>7. MainFlag' /\ NoDanglingHandler'
  BY <1>2, <1>3 DEF IInv, MainFlag, mainFlag, NoDanglingHandler, Iret
<1> QED
  BY <1>4, <1>5, <1>6, <1>7 DEF IInv

-----------------------------------------------------------------------------
(* The statements and calls of main.                                       *)

(* Statements of Activate and Deactivate do not touch the table or the     *)
(* controllers; what they do to IF and ActiveInterruptManager keeps the    *)
(* two in step.                                                            *)
LEMMA BodyKeeps == IInv /\ Body => IInv'
<1> SUFFICES ASSUME IInv, Body PROVE IInv'
  OBVIOUS
<1> USE DEF mainUnchanged, program, Running
<1>1. frames = <<>> /\ frames' = <<>> /\ UNCHANGED mainUnchanged
  BY DEF Body, ActivateTest, ActivateSet, ActivateSti, DeactivateCondition,
         DeactivateClear, DeactivateCli
<1>2. Frames' /\ Accounted' /\ NoDanglingHandler'
  BY <1>1 DEF IInv, Frames, Accounted, NoDanglingHandler
<1>3. Types' /\ MainFlag'
  <2> USE DEF IInv, Types, MainFlag, mainFlag, MainPlaces
  <2>1. CASE ActivateTest
    BY <1>1, <2>1 DEF ActivateTest
  <2>2. CASE ActivateSet
    BY <1>1, <2>2, InterruptsAssumption DEF ActivateSet
  <2>3. CASE ActivateSti
    BY <1>1, <2>3 DEF ActivateSti
  <2>4. CASE DeactivateCondition
    BY <1>1, <2>4 DEF DeactivateCondition
  <2>5. CASE DeactivateClear
    BY <1>1, <2>5 DEF DeactivateClear
  <2>6. CASE DeactivateCli
    BY <1>1, <2>6 DEF DeactivateCli
  <2> QED
    BY <2>1, <2>2, <2>3, <2>4, <2>5, <2>6 DEF Body
<1> QED
  BY <1>2, <1>3 DEF IInv

(* A new manager has an empty table and finds the controllers reset.       *)
LEMMA ConstructKeeps ==
  ASSUME IInv, NEW m \in Managers, Construct(m)
  PROVE  IInv'
<1> USE DEF Construct, Running, main
<1>1. Types'
  BY DEF IInv, Types, NoHandlers
<1>2. Frames' /\ Accounted' /\ MainFlag'
  BY DEF IInv, Frames, Accounted, MainFlag, mainFlag
<1>3. NoDanglingHandler'
  BY DEF IInv, Types, NoDanglingHandler, NoHandlers
<1> QED
  BY <1>1, <1>2, <1>3 DEF IInv

(* No entry points to the object of a handler that is being made: it has   *)
(* no number yet.                                                          *)
LEMMA RegisterKeeps ==
  ASSUME IInv, NEW h \in Handlers, NEW n \in Vectors, NEW m \in Managers,
         Register(h, n, m)
  PROVE  IInv'
<1> USE DEF Register, Running, main, hardware
<1>1. Types'
  BY DEF IInv, Types
<1>2. Frames' /\ Accounted' /\ MainFlag'
  BY DEF IInv, Frames, Accounted, MainFlag, mainFlag
<1>3. NoDanglingHandler'
  <2> SUFFICES ASSUME NEW k \in Managers, NEW v \in Vectors,
                      handlers'[k][v] # NoHandler
               PROVE  object'[handlers'[k][v]] = [number |-> v, manager |-> k]
    BY DEF NoDanglingHandler
  <2>1. CASE k = m /\ v = n
    BY <2>1 DEF IInv, Types
  <2>2. CASE ~(k = m /\ v = n)
    <3>1. handlers'[k][v] = handlers[k][v] /\ handlers[k][v] \in Handlers
      BY <2>2 DEF IInv, Types
    <3>2. object[handlers[k][v]] = [number |-> v, manager |-> k]
      BY <3>1 DEF IInv, NoDanglingHandler
    <3>3. handlers[k][v] # h
      <4>1. [number |-> v, manager |-> k].manager # NoObject.manager
        BY InterruptsAssumption DEF NoObject
      <4> QED
        BY <3>2, <4>1
    <3> QED
      BY <3>1, <3>2, <3>3 DEF IInv, Types
  <2> QED
    BY <2>1, <2>2
<1> QED
  BY <1>1, <1>2, <1>3 DEF IInv

(* A handler's destructor clears the only entry that can point to it.      *)
LEMMA UnregisterKeeps ==
  ASSUME IInv, NEW h \in Handlers, Unregister(h)
  PROVE  IInv'
<1> USE DEF Running, main, hardware
<1> DEFINE m == object[h].manager
           n == object[h].number
<1>1. object[h] \in [number : Vectors, manager : Managers]
  BY DEF IInv, Types, Unregister
<1>2. m \in Managers /\ n \in Vectors
  BY <1>1
<1>3. object' = [object EXCEPT ![h] = NoObject]
      /\ handlers' = IF handlers[m][n] = h
                     THEN [handlers EXCEPT ![m][n] = NoHandler] ELSE handlers
  BY DEF Unregister
<1>4. Types'
  <2>1. handlers' \in [Managers -> [Vectors -> Handlers \cup {NoHandler}]]
    BY <1>2, <1>3 DEF IInv, Types
  <2>2. object' \in [Handlers -> [number : Vectors, manager : Managers]
                                 \cup {NoObject}]
    BY <1>3 DEF IInv, Types
  <2> QED
    BY <2>1, <2>2 DEF IInv, Types, Unregister
<1>5. Frames' /\ Accounted' /\ MainFlag'
  BY DEF IInv, Frames, Accounted, MainFlag, mainFlag, Unregister
<1>6. NoDanglingHandler'
  <2> SUFFICES ASSUME NEW k \in Managers, NEW v \in Vectors,
                      handlers'[k][v] # NoHandler
               PROVE  object'[handlers'[k][v]] = [number |-> v, manager |-> k]
    BY DEF NoDanglingHandler
  <2>1. handlers'[k][v] = handlers[k][v] /\ handlers[k][v] \in Handlers
        /\ (k = m /\ v = n => handlers[k][v] # h)
    <3> HIDE DEF m, n
    <3> QED
      BY <1>2, <1>3 DEF IInv, Types
  <2>2. object[handlers[k][v]] = [number |-> v, manager |-> k]
    BY <2>1 DEF IInv, NoDanglingHandler
  <2>3. handlers[k][v] # h
    BY <2>1, <2>2
  <2> QED
    BY <1>3, <2>1, <2>2, <2>3 DEF IInv, Types
<1> QED
  BY <1>4, <1>5, <1>6 DEF IInv

(* Calling Activate or Deactivate only says where main goes on.            *)
LEMMA CallsKeep ==
  ASSUME IInv, NEW m \in Managers, ActivateCall(m) \/ DeactivateCall(m)
  PROVE  IInv'
<1> USE DEF ActivateCall, DeactivateCall, Running, mainUnchanged, program
<1>1. Types'
  BY InterruptsAssumption DEF IInv, Types, MainPlaces
<1>2. Frames' /\ Accounted' /\ MainFlag' /\ NoDanglingHandler'
  BY DEF IInv, Frames, Accounted, MainFlag, mainFlag, NoDanglingHandler
<1> QED
  BY <1>1, <1>2 DEF IInv

-----------------------------------------------------------------------------
(* The invariant, and what follows from it.                                *)

(* Every step of the processor, of main and of a device keeps it.          *)
LEMMA InterruptsNext == IInv /\ [Next]_vars => IInv'
<1> SUFFICES ASSUME IInv, [Next]_vars PROVE IInv'
  OBVIOUS
<1>1. ASSUME NEW l \in Lines, Raise(l) \/ Enter(l)
      PROVE  IInv'
  BY <1>1, RaiseKeeps, EnterKeeps
<1>2. CASE Dispatch
  BY <1>2, StubKeeps, BottomKeeps, HandlerReturnsKeeps, EoiMasterKeeps,
     EoiSlaveKeeps, IretKeeps DEF Dispatch
<1>3. CASE Body
  BY <1>3, BodyKeeps
<1>4. CASE Call
  BY <1>4, ConstructKeeps, CallsKeep, RegisterKeeps, UnregisterKeeps DEF Call
<1>5. CASE UNCHANGED vars
  <2> USE <1>5 DEF vars, hardware, program, main
  <2>1. Types' /\ NoDanglingHandler'
    BY DEF IInv, Types, NoDanglingHandler
  <2>2. Frames' /\ Accounted' /\ MainFlag'
    BY DEF IInv, Frames, Running1, Service, Accounted, MainFlag, mainFlag
  <2> QED
    BY <2>1, <2>2 DEF IInv
<1> QED
  BY <1>1, <1>2, <1>3, <1>4, <1>5 DEF Next

(* IInv holds in every reachable state of Interrupts.tla.                  *)
THEOREM InterruptsInvariant == Spec => []IInv
<1>1. Init => IInv
  BY InterruptsInit
<1>2. IInv /\ [Next]_vars => IInv'
  BY InterruptsNext
<1> QED
  BY <1>1, <1>2, PTL DEF Spec

(* Every variable has its type: in particular, only lines the IDT routes   *)
(* are ever lost, and no statement of Activate or Deactivate runs on the   *)
(* null object.                                                            *)
THEOREM InterruptsTypeOK == Spec => []TypeOK
<1>1. IInv => TypeOK
  <2> SUFFICES ASSUME IInv PROVE TypeOK
    OBVIOUS
  <2>1. frames \in Seq(FrameType)
    <3>1. CASE frames = <<>>
      BY <3>1
    <3>2. ASSUME NEW f \in FrameType, frames = <<f>>
          PROVE  frames \in Seq(FrameType)
      BY <3>2
    <3> QED
      BY <3>1, <3>2 DEF IInv, Frames
  <2> QED
    BY <2>1 DEF IInv, Types, MainPlaces, TypeOK, FrameType
<1> QED
  BY <1>1, InterruptsInvariant, PTL

(* DoHandleInterrupt runs with the number of the line that was accepted,   *)
(* and finds a handler that registered for that number: the byte           *)
(* interruptnumber, one for all stubs, is read before another stub writes. *)
THEOREM DispatchFindsRightHandler == Spec => []RightHandler
<1>1. IInv => RightHandler
  <2> SUFFICES ASSUME IInv, NEW i \in 1 .. Len(frames),
                      frames[i].at \in {"handler", "master", "slave"}
               PROVE  /\ frames[i].number = Vector(frames[i].line)
                      /\ frames[i].handler # NoHandler
                         /\ frames[i].at = "handler"
                           => object[frames[i].handler].number
                                = frames[i].number
    BY DEF RightHandler
  <2>1. PICK f \in FrameType : frames = <<f>> /\ Running1(f)
    BY DEF IInv, Frames
  <2>2. frames[i] = f
    BY <2>1
  <2> QED
    BY <2>1, <2>2 DEF Running1
<1> QED
  BY <1>1, InterruptsInvariant, PTL

(* No service bit stays set after the interrupt of a routed line, except   *)
(* for a line lost in Deactivate; and the cascade is in service only for a *)
(* line of the slave.                                                      *)
THEOREM ServiceIsAccounted == Spec => []InServiceAccounted
<1>1. IInv => InServiceAccounted
  <2> SUFFICES ASSUME IInv PROVE InServiceAccounted
    OBVIOUS
  <2>1. CASE frames = <<>>
    BY <2>1 DEF IInv, Accounted, InServiceAccounted
  <2>2. CASE frames # <<>>
    <3>1. PICK f \in FrameType : frames = <<f>> /\ Service(f)
      BY <2>2 DEF IInv, Frames
    <3>2. Len(frames) = 1 /\ frames[1] = f
      BY <3>1
    <3>3. \A i \in 1 .. Len(frames) : frames[i] = f
      BY <3>2
    <3> QED
      BY <2>2, <3>1, <3>2, <3>3
         DEF IInv, Accounted, Service, InServiceAccounted
  <2> QED
    BY <2>1, <2>2
<1> QED
  BY <1>1, InterruptsInvariant, PTL

(* Between calls IF is set exactly while a manager is active, although     *)
(* Deactivate's condition is an assignment: whatever object it is called   *)
(* on, it leaves no manager active and IF cleared.                         *)
THEOREM FlagFollowsManager == Spec => []EnabledIffActive
<1>1. IInv => EnabledIffActive
  BY DEF IInv, MainFlag, mainFlag, EnabledIffActive
<1> QED
  BY <1>1, InterruptsInvariant, PTL

(* The dispatch table never holds a handler that was destroyed.            *)
THEOREM TableHasNoDanglingHandler == Spec => []NoDanglingHandler
<1>1. IInv => NoDanglingHandler
  BY DEF IInv
<1> QED
  BY <1>1, InterruptsInvariant, PTL

-----------------------------------------------------------------------------
(* What no step does.                                                      *)

(* The commands that end an interrupt name no line, yet they end that of   *)
(* the interrupt that sends them: what it was accepted over is less urgent,*)
(* strays that nobody ended included.                                      *)
THEOREM CommandsEndOwnService == Spec => EoiEndsOwnService
<1> DEFINE EndsOwn ==
      constructed' = constructed =>
        \A i \in isr \ isr' : frames # <<>> /\ i \in {Top.line, Input(Top.line)}
<1>1. IInv /\ [Next]_vars => EndsOwn
  <2> SUFFICES ASSUME IInv, [Next]_vars, constructed' = constructed,
                      NEW i \in isr \ isr'
               PROVE  frames # <<>> /\ i \in {Top.line, Input(Top.line)}
    OBVIOUS
  <2>1. CASE EoiMaster
    <3>1. PICK f \in FrameType : frames = <<f>> /\ f.at = "master"
      BY <2>1, TheFrame DEF EoiMaster
    <3> QED
      BY <2>1, <3>1, EoiMasterEnds, OneFrame
  <2>2. CASE EoiSlave
    <3>1. PICK f \in FrameType : frames = <<f>> /\ f.at = "slave"
      BY <2>2, TheFrame DEF EoiSlave
    <3> QED
      BY <2>2, <3>1, EoiSlaveEnds, OneFrame
  <2>3. ASSUME NEW m \in Managers, Construct(m)
        PROVE  FALSE
    BY <2>3 DEF Construct
  <2>4. ASSUME NEW l \in Lines, Raise(l) \/ Enter(l)
        PROVE  FALSE
    BY <2>4 DEF Raise, Enter
  <2>5. CASE Stub \/ Bottom \/ HandlerReturns \/ Iret
    BY <2>5 DEF Stub, Bottom, HandlerReturns, Iret, hardware
  <2>6. CASE Body
    BY <2>6 DEF Body, ActivateTest, ActivateSet, ActivateSti,
                DeactivateCondition, DeactivateClear, DeactivateCli,
                mainUnchanged
  <2>7. ASSUME NEW m \in Managers, ActivateCall(m) \/ DeactivateCall(m)
        PROVE  FALSE
    BY <2>7 DEF ActivateCall, DeactivateCall, mainUnchanged
  <2>8. ASSUME NEW h \in Handlers,
               Unregister(h) \/ \E n \in Vectors, m \in Managers :
                                  Register(h, n, m)
        PROVE  FALSE
    BY <2>8 DEF Register, Unregister, hardware
  <2>9. CASE UNCHANGED vars
    BY <2>9 DEF vars, hardware
  <2> QED
    BY <2>1, <2>2, <2>3, <2>4, <2>5, <2>6, <2>7, <2>8, <2>9
       DEF Next, Dispatch, Call
<1>2. IInv /\ [Next]_vars => [EndsOwn]_vars
  BY <1>1
<1>3. Spec => [][Next]_vars
  BY PTL DEF Spec
<1> QED
  BY <1>2, <1>3, InterruptsInvariant, PTL DEF EoiEndsOwnService

(* A routed interrupt ends without its command only while main is between  *)
(* the last two statements of Deactivate: at every other statement where   *)
(* IF is set a manager is active.                                          *)
THEOREM LostNowhereElse == Spec => LostOnlyInDeactivate
<1>1. IInv /\ [Next]_vars => (lost' # lost => pc = "cli")
  <2> SUFFICES ASSUME IInv, [Next]_vars, lost' # lost PROVE pc = "cli"
    OBVIOUS
  <2>1. CASE Bottom
    <3>1. ActiveInterruptManager = NoManager /\ mainFlag
      BY <2>1, TheFrame DEF Bottom, mainFlag, At
    <3> QED
      BY <3>1 DEF IInv, Types, MainFlag, MainPlaces
  <2>2. CASE Stub \/ HandlerReturns \/ EoiMaster \/ EoiSlave \/ Iret
    BY <2>2 DEF Stub, HandlerReturns, EoiMaster, EoiSlave, Iret
  <2>3. ASSUME NEW l \in Lines, Raise(l) \/ Enter(l)
        PROVE  FALSE
    BY <2>3 DEF Raise, Enter
  <2>4. CASE Body
    BY <2>4 DEF Body, ActivateTest, ActivateSet, ActivateSti,
                DeactivateCondition, DeactivateClear, DeactivateCli,
                mainUnchanged
  <2>5. ASSUME NEW m \in Managers,
               Construct(m) \/ ActivateCall(m) \/ DeactivateCall(m)
        PROVE  FALSE
    BY <2>5 DEF Construct, ActivateCall, DeactivateCall, mainUnchanged
  <2>6. ASSUME NEW h \in Handlers,
               Unregister(h) \/ \E n \in Vectors, m \in Managers :
                                  Register(h, n, m)
        PROVE  FALSE
    BY <2>6 DEF Register, Unregister
  <2>7. CASE UNCHANGED vars
    BY <2>7 DEF vars
  <2> QED
    BY <2>1, <2>2, <2>3, <2>4, <2>5, <2>6, <2>7 DEF Next, Dispatch, Call
<1>2. Spec => [][Next]_vars
  BY PTL DEF Spec
<1> QED
  BY <1>1, <1>2, InterruptsInvariant, PTL DEF LostOnlyInDeactivate

(* A table entry changes only when its own handler is destroyed or a newer *)
(* handler takes the number: destroying a handler that was replaced does   *)
(* not unregister its successor.                                           *)
THEOREM RegistrationsLast == Spec => RegistrationKept
<1> DEFINE Keeps(m, n) ==
      LET h == handlers[m][n]
      IN  h # NoHandler /\ handlers'[m][n] # h =>
            \/ object'[h] = NoObject
            \/ /\ handlers'[m][n] # NoHandler
               /\ object[handlers'[m][n]] = NoObject
<1>1. IInv /\ [Next]_vars => \A m \in constructed, n \in Vectors : Keeps(m, n)
  <2> SUFFICES ASSUME IInv, [Next]_vars, NEW m \in constructed,
                      NEW n \in Vectors, handlers'[m][n] # handlers[m][n],
                      handlers[m][n] # NoHandler
               PROVE  \/ object'[handlers[m][n]] = NoObject
                      \/ /\ handlers'[m][n] # NoHandler
                         /\ object[handlers'[m][n]] = NoObject
    OBVIOUS
  <2>1. m \in Managers
    BY DEF IInv, Types
  <2>2. ASSUME NEW h \in Handlers, NEW k \in Vectors, NEW d \in Managers,
               Register(h, k, d)
        PROVE  handlers'[m][n] # NoHandler
               /\ object[handlers'[m][n]] = NoObject
    <3>1. d = m /\ k = n /\ handlers'[m][n] = h
      BY <2>1, <2>2 DEF IInv, Types, Register
    <3> QED
      BY <2>2, <3>1, InterruptsAssumption DEF Register
  <2>3. ASSUME NEW h \in Handlers, Unregister(h)
        PROVE  object'[handlers[m][n]] = NoObject
    <3>1. handlers[m][n] = h
      <4>1. handlers' = handlers
            \/ /\ handlers[object[h].manager][object[h].number] = h
               /\ handlers' = [handlers EXCEPT
                    ![object[h].manager][object[h].number] = NoHandler]
        BY <2>3 DEF Unregister
      <4> QED
        BY <2>1, <4>1 DEF IInv, Types
    <3> QED
      BY <2>3, <3>1 DEF IInv, Types, Unregister
  <2>4. ASSUME NEW d \in Managers, Construct(d)
        PROVE  FALSE
    BY <2>1, <2>4 DEF IInv, Types, Construct
  <2>5. ASSUME NEW d \in Managers, ActivateCall(d) \/ DeactivateCall(d)
        PROVE  FALSE
    BY <2>5 DEF ActivateCall, DeactivateCall, mainUnchanged, program
  <2>6. ASSUME NEW l \in Lines, Raise(l) \/ Enter(l)
        PROVE  FALSE
    BY <2>6 DEF Raise, Enter, program
  <2>7. CASE Dispatch
    BY <2>7 DEF Dispatch, Stub, Bottom, HandlerReturns, EoiMaster, EoiSlave,
                Iret, program
  <2>8. CASE Body
    BY <2>8 DEF Body, ActivateTest, ActivateSet, ActivateSti,
                DeactivateCondition, DeactivateClear, DeactivateCli,
                mainUnchanged, program
  <2>9. CASE UNCHANGED vars
    BY <2>9 DEF vars, program
  <2> QED
    BY <2>2, <2>3, <2>4, <2>5, <2>6, <2>7, <2>8, <2>9 DEF Next, Call
<1>2. Spec => [][Next]_vars
  BY PTL DEF Spec
<1> HIDE DEF Keeps
<1>3. IInv /\ [Next]_vars =>
        [\A m \in constructed, n \in Vectors : Keeps(m, n)]_vars
  BY <1>1
<1>4. Spec => [][\A m \in constructed, n \in Vectors : Keeps(m, n)]_vars
  BY <1>2, <1>3, InterruptsInvariant, PTL
<1> QED
  BY <1>4 DEF Keeps, RegistrationKept

=============================================================================
