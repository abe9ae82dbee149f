--------------------------- MODULE KeyboardProofs ---------------------------
(***************************************************************************)
(* Theorems about Keyboard.tla, for every set of keys, every byte of the   *)
(* mouse and every number of bytes on their way.                           *)
(***************************************************************************)
EXTENDS Keyboard, FiniteSetTheorems, TLAPS

-----------------------------------------------------------------------------
(* Types.                                                                  *)

Codes == [kind : {"make", "break"}, code : KeyCodes] \cup {Prefix, Ack}
Entries == [from : {"keyboard", "mouse"}, byte : Codes]
Places == {"idle", "shift", "leds"} \cup Locks

ControllerTypes ==
  /\ buffer \in Seq(Entries)
  /\ last \in Codes
  /\ latched \subseteq {"keyboard", "mouse"}

DeviceTypes ==
  /\ command \in {"none", "disable", "enable", "leds", "option"}
  /\ mode \in {"scan", "off", "option"}
  /\ down \subseteq Keys /\ IsFiniteSet(down)
  /\ repeating \in down \cup {NoKey}

DriverTypes ==
  /\ Uppercase \in BOOLEAN /\ NumLock \in BOOLEAN /\ MediaKey \in BOOLEAN
  /\ at \in Places
  /\ typed.code \in KeyCodes \cup {"none"}
  /\ typed.upper =>
       typed.code \in Characters \cup MediaCharacters \cup {Slash}
  /\ prefixed \in BOOLEAN /\ mistaken \in BOOLEAN
  /\ toggled \in (SUBSET Locks) \cup {Unseen}

Types == ControllerTypes /\ DeviceTypes /\ DriverTypes

(* What is sent is behind what is on its way.                              *)
LEMMA SentOne ==
  ASSUME NEW origin, NEW a, buffer \in Seq(Entries), Send(origin, <<a>>)
  PROVE  buffer' = Append(buffer, From(origin, a))
<1>1. [i \in DOMAIN <<a>> |-> From(origin, <<a>>[i])] = <<From(origin, a)>>
  OBVIOUS
<1> QED BY <1>1 DEF Send

(* Two bytes are sent in their order.                                      *)
LEMMA SentTwo ==
  ASSUME NEW origin, NEW a, NEW b, buffer \in Seq(Entries),
         Send(origin, <<a, b>>)
  PROVE  buffer' = Append(Append(buffer, From(origin, a)), From(origin, b))
<1>1. [i \in DOMAIN <<a, b>> |-> From(origin, <<a, b>>[i])]
        = <<From(origin, a), From(origin, b)>>
  OBVIOUS
<1> QED BY <1>1 DEF Send

(* A key sends its code, and 0xE0 before it if that is its.                *)
LEMMA SentKey ==
  ASSUME NEW k \in Keys, NEW a, buffer \in Seq(Entries),
         Send("keyboard", Bytes(k, a))
  PROVE  buffer' = IF k.extended
                   THEN Append(Append(buffer, From("keyboard", Prefix)),
                               From("keyboard", a))
                   ELSE Append(buffer, From("keyboard", a))
<1>1. CASE k.extended
  <2>1. Send("keyboard", <<Prefix, a>>) BY <1>1 DEF Bytes
  <2> QED BY <1>1, <2>1, SentTwo
<1>2. CASE ~k.extended
  <2>1. Send("keyboard", <<a>>) BY <1>2 DEF Bytes
  <2> QED BY <1>2, <2>1, SentOne
<1> QED BY <1>1, <1>2

(* What devices send is an entry of the queue.                             *)
LEMMA SentTypes ==
  ASSUME ControllerTypes, NEW origin \in {"keyboard", "mouse"},
         NEW a \in Codes, Send(origin, <<a>>)
  PROVE  ControllerTypes'
<1>1. buffer' = Append(buffer, From(origin, a))
  BY SentOne DEF ControllerTypes
<1>2. From(origin, a) \in Entries BY DEF From, Entries
<1>3. last' = last /\ latched' \subseteq {"keyboard", "mouse"}
  BY DEF Send, Latch, ControllerTypes
<1> QED BY <1>1, <1>2, <1>3 DEF ControllerTypes

(* So is what a key sends.                                                 *)
LEMMA KeyTypes ==
  ASSUME ControllerTypes, NEW k \in Keys, NEW a \in Codes,
         Send("keyboard", Bytes(k, a))
  PROVE  ControllerTypes'
<1>1. buffer' = IF k.extended
                THEN Append(Append(buffer, From("keyboard", Prefix)),
                            From("keyboard", a))
                ELSE Append(buffer, From("keyboard", a))
  BY SentKey DEF ControllerTypes
<1>2. From("keyboard", a) \in Entries /\ From("keyboard", Prefix) \in Entries
  BY DEF From, Entries, Codes
<1>3. last' = last /\ latched' \subseteq {"keyboard", "mouse"}
  BY DEF Send, Latch, ControllerTypes
<1> QED BY <1>1, <1>2, <1>3 DEF ControllerTypes

(* A key's codes.                                                          *)
LEMMA CodesOfKey ==
  ASSUME NEW k \in Keys
  PROVE  /\ k.code \in KeyCodes /\ k.extended \in BOOLEAN
         /\ Make(k.code) \in Codes /\ Break(k.code) \in Codes
BY KeyboardAssumption DEF Make, Break, Codes

(* After a command that clears, at most the byte in the controller and one *)
(* of the mouse are left.                                                  *)
LEMMA ClearedTypes ==
  ASSUME buffer \in Seq(Entries)
  PROVE  /\ Cleared \in Seq(Entries)
         /\ \A i \in DOMAIN Cleared : \E j \in DOMAIN buffer :
              Cleared[i] = buffer[j]
         /\ \A i \in DOMAIN Cleared :
              Cleared[i].from = "keyboard" => i = 1 /\ Cleared[1] = buffer[1]
<1>1. CASE buffer = <<>> BY <1>1 DEF Cleared
<1>2. CASE buffer # <<>> /\ Behind = {}
  BY <1>2 DEF Cleared
<1>3. CASE buffer # <<>> /\ Behind # {}
  <2> DEFINE m == CHOOSE i \in Behind : TRUE
  <2>1. m \in Behind BY <1>3
  <2>2. m \in 2 .. Len(buffer) /\ buffer[m].from = "mouse"
    BY <2>1 DEF Behind, OfMouse
  <2>3. Cleared = <<buffer[1], buffer[m]>> BY <1>3 DEF Cleared
  <2> HIDE DEF m
  <2>4. buffer[1] \in Entries /\ buffer[m] \in Entries
        /\ 1 \in DOMAIN buffer /\ m \in DOMAIN buffer
    BY <1>3, <2>2
  <2> QED BY <2>2, <2>3, <2>4
<1> QED BY <1>1, <1>2, <1>3

(* A read takes the head, if there is one.                                 *)
LEMMA ReadTypes ==
  ASSUME ControllerTypes, NEW still \in SUBSET {"keyboard", "mouse"},
         Read(still)
  PROVE  ControllerTypes' /\ DataPort \in Codes /\ last' = DataPort
<1>1. DataPort \in Codes
  <2>1. CASE buffer = <<>> BY <2>1 DEF DataPort, ControllerTypes
  <2>2. CASE buffer # <<>>
    <3>1. Head(buffer) \in Entries BY <2>2 DEF ControllerTypes
    <3> QED BY <2>2, <3>1 DEF DataPort, Entries
  <2> QED BY <2>1, <2>2
<1>2. buffer' \in Seq(Entries)
  BY DEF Read, ControllerTypes
<1>3. latched' \subseteq {"keyboard", "mouse"}
  <2>1. CASE Len(buffer) > 1
    <3>1. buffer[2] \in Entries BY <2>1 DEF ControllerTypes
    <3> QED BY <2>1, <3>1 DEF Read, Entries
  <2>2. CASE ~(Len(buffer) > 1) BY <2>2 DEF Read
  <2> QED BY <2>1, <2>2
<1> QED BY <1>1, <1>2, <1>3 DEF ControllerTypes, Read

(* The keyboard's own steps.                                               *)
LEMMA PressTypes == ASSUME Types, NEW k \in Keys, Press(k) PROVE Types'
<1>1. ControllerTypes'
  BY CodesOfKey, KeyTypes
     DEF Types, Press, Report, controller, ControllerTypes
<1>2. DeviceTypes'
  <2>1. IsFiniteSet(down') BY FS_AddElement DEF Types, DeviceTypes, Press
  <2> QED BY <2>1 DEF Types, DeviceTypes, Press
<1>3. toggled' \in (SUBSET Locks) \cup {Unseen}
  BY DEF Types, DriverTypes, Press, Shown, SymDiff
<1> QED
  BY <1>1, <1>2, <1>3 DEF Types, DriverTypes, Press, flags, seen

(* ... when a key is let go.                                               *)
LEMMA ReleaseTypes == ASSUME Types, NEW k \in Keys, Release(k) PROVE Types'
<1>1. ControllerTypes'
  BY CodesOfKey, KeyTypes
     DEF Types, Release, Report, controller, ControllerTypes
<1>2. DeviceTypes'
  <2>1. IsFiniteSet(down') BY FS_RemoveElement DEF Types, DeviceTypes, Release
  <2> QED BY <2>1 DEF Types, DeviceTypes, Release
<1>3. toggled' \in (SUBSET Locks) \cup {Unseen}
  BY DEF Types, DriverTypes, Release, Shown
<1> QED
  BY <1>1, <1>2, <1>3 DEF Types, DriverTypes, Release, flags, seen

(* ... when one repeats.                                                   *)
LEMMA RepeatTypes == ASSUME Types, Repeat PROVE Types'
<1>1. repeating \in Keys BY DEF Types, DeviceTypes, Repeat
<1>2. ControllerTypes' BY <1>1, CodesOfKey, KeyTypes DEF Types, Repeat
<1>3. toggled' \in (SUBSET Locks) \cup {Unseen}
  BY DEF Types, DriverTypes, Repeat, Shown
<1> QED
  BY <1>2, <1>3
     DEF Types, DeviceTypes, DriverTypes, Repeat, flags, device, seen

(* ... when the keyboard takes a command.                                  *)
LEMMA ObeyTypes == ASSUME Types, Obey PROVE Types'
<1>1. Cleared \in Seq(Entries) /\ buffer \in Seq(Entries)
  BY ClearedTypes DEF Types, ControllerTypes
<1>2. From("keyboard", Ack) \in Entries BY DEF From, Entries, Codes
<1>3. ControllerTypes'
  <2>1. \/ buffer' = Append(Cleared, From("keyboard", Ack))
        \/ buffer' = Append(buffer, From("keyboard", Ack))
    BY DEF Obey
  <2>2. buffer' \in Seq(Entries) BY <1>1, <1>2, <2>1
  <2>3. last' = last /\ latched' \subseteq latched \cup {"keyboard"}
    BY DEF Obey, Latch
  <2> QED BY <2>2, <2>3 DEF Types, ControllerTypes
<1>4. mode' \in {"scan", "off", "option"} BY DEF Obey
<1>5. DeviceTypes' BY <1>4 DEF Types, DeviceTypes, Obey
<1>6. toggled' \in (SUBSET Locks) \cup {Unseen}
  BY DEF Types, DriverTypes, Obey, Shown
<1> QED
  BY <1>3, <1>5, <1>6 DEF Types, DriverTypes, Obey, flags, seen

(* The mouse's.                                                            *)
LEMMA MouseTypes ==
  ASSUME Types, MouseHandles \/ \E byte \in MouseBytes : MouseSends(byte)
  PROVE  Types'
<1>1. ControllerTypes'
  <2>1. ASSUME NEW byte \in MouseBytes, MouseSends(byte)
        PROVE  ControllerTypes'
    <3>1. byte \in Codes BY KeyboardAssumption DEF Codes, Ack
    <3> QED BY <2>1, <3>1, SentTypes DEF Types, MouseSends
  <2>2. CASE MouseHandles
    BY <2>2, ReadTypes DEF Types, MouseHandles, ControllerTypes
  <2> QED BY <2>1, <2>2
<1>2. UNCHANGED <<flags, at, command, device, seen, user>>
  BY DEF MouseSends, MouseHandles
<1> QED
  BY <1>1, <1>2 DEF Types, DeviceTypes, DriverTypes, flags, device, seen, user

(* The driver's.                                                           *)
LEMMA HandlerTypes == ASSUME Types, HandleInterrupt PROVE Types'
<1>1. ControllerTypes' /\ DataPort \in Codes
  BY ReadTypes DEF Types, ControllerTypes, HandleInterrupt
<1>2. /\ command' \in {command, "disable"}
      /\ Uppercase' \in BOOLEAN /\ NumLock' \in BOOLEAN
      /\ MediaKey' \in BOOLEAN
      /\ at' \in Places
  BY DEF Types, DriverTypes, HandleInterrupt, PrefixCase, ShiftPressed,
         ShiftReleased, LockPressed, OtherCase, flags, Places
<1>3. /\ typed'.code \in KeyCodes \cup {"none"}
      /\ typed'.upper =>
           typed'.code \in Characters \cup MediaCharacters \cup {Slash}
  <2>1. typed' = Typed(DataPort) BY DEF HandleInterrupt
  <2>2. CASE Typed(DataPort) = Nothing BY <2>1, <2>2 DEF Nothing
  <2>3. CASE Typed(DataPort) # Nothing
    <3>1. Typed(DataPort) = [code |-> DataPort.code,
                             upper |-> Shifted(DataPort.code),
                             prefixed |-> prefixed]
          /\ (DataPort.code = Unknown \/ DataPort.kind = "make")
      BY <2>3 DEF Typed
    <3>2. DataPort.code \in KeyCodes
      BY <1>1, <3>1 DEF Codes, Prefix, Ack, Unknown
    <3>3. Shifted(DataPort.code) =>
            DataPort.code \in Characters \cup MediaCharacters \cup {Slash}
      BY DEF Shifted
    <3> QED BY <2>1, <3>1, <3>2, <3>3
  <2> QED BY <2>2, <2>3
<1>4. prefixed' \in BOOLEAN /\ mistaken' \in BOOLEAN
  BY DEF Types, DriverTypes, HandleInterrupt, Mistake, ReadsMouse, OfMouse
<1>5. toggled' \in (SUBSET Locks) \cup {Unseen}
  BY DEF Types, DriverTypes, HandleInterrupt, Mistake, Shown
<1>6. DeviceTypes'
  BY <1>2 DEF Types, DeviceTypes, HandleInterrupt, device
<1> QED BY <1>1, <1>2, <1>3, <1>4, <1>5, <1>6 DEF Types, DriverTypes

(* ... and when it waits.                                                  *)
LEMMA WaitingTypes == ASSUME Types, Waiting PROVE Types'
<1>1. PICK place \in {"shift", "leds"} \cup Locks : Wait(place)
  BY DEF Waiting, Spin, ShiftAcked, LockReleased, LedsAcked
<1>2. ControllerTypes'
  <2>1. latched \in SUBSET {"keyboard", "mouse"} BY DEF Types, ControllerTypes
  <2> QED BY <1>1, <2>1, ReadTypes DEF Types, Wait
<1>3. /\ command' \in {command, "enable", "leds", "option"}
      /\ Uppercase' \in BOOLEAN /\ NumLock' \in BOOLEAN
      /\ MediaKey' \in BOOLEAN
      /\ at' \in Places
  BY DEF Types, DriverTypes, Waiting, Spin, ShiftAcked, LockReleased,
         LedsAcked, flags, Places
<1>4. mistaken' \in BOOLEAN
  BY DEF Types, DriverTypes, Waiting, Spin, ShiftAcked, LockReleased,
         LedsAcked, Over, Mistake, ReadsMouse, OfMouse
<1>5. toggled' \in (SUBSET Locks) \cup {Unseen}
  BY DEF Types, DriverTypes, Waiting, Spin, ShiftAcked, LockReleased,
         LedsAcked, Over, Mistake, Shown
<1>6. DeviceTypes' /\ UNCHANGED seen
  BY <1>1, <1>3 DEF Types, DeviceTypes, Wait, device
<1> QED
  BY <1>2, <1>3, <1>4, <1>5, <1>6 DEF Types, DriverTypes, seen

(* The types hold as Activate leaves the driver.                           *)
LEMMA InitTypes == Init => Types
<1> SUFFICES ASSUME Init PROVE Types OBVIOUS
<1>1. ControllerTypes
  <2>1. From("keyboard", Ack) \in Entries /\ Ack \in Codes
    BY DEF From, Entries, Codes
  <2>2. buffer \in Seq(Entries)
    <3>1. <<>> \in Seq(Entries) /\ <<From("keyboard", Ack)>> \in Seq(Entries)
      BY <2>1
    <3> QED BY <3>1 DEF Init
  <2> QED BY <2>1, <2>2 DEF Init, ControllerTypes
<1>2. DeviceTypes BY FS_EmptySet DEF Init, DeviceTypes
<1>3. DriverTypes BY DEF Init, DriverTypes, Places, Nothing
<1> QED BY <1>1, <1>2, <1>3 DEF Types

(* Every step keeps them.                                                  *)
LEMMA TypesKept == Types /\ [Next]_vars => Types'
<1> SUFFICES ASSUME Types, [Next]_vars PROVE Types' OBVIOUS
<1>1. CASE UNCHANGED vars
  BY <1>1 DEF vars, flags, controller, device, seen, user, Types,
              ControllerTypes, DeviceTypes, DriverTypes
<1> QED
  BY <1>1, PressTypes, ReleaseTypes, RepeatTypes, ObeyTypes, MouseTypes,
     HandlerTypes, WaitingTypes DEF Next, Driver

(* Every variable of the driver, the keyboard and the controller keeps its *)
(* type, and only characters have an upper case.                           *)
THEOREM KeyboardTypeOK == Spec => []TypeOK
<1>1. Types => TypeOK
  <2> SUFFICES ASSUME Types PROVE TypeOK OBVIOUS
  <2>1. flags \in BOOLEAN \X BOOLEAN \X BOOLEAN
    BY DEF Types, DriverTypes, flags
  <2>2. {buffer[i].byte : i \in 1 .. Len(buffer)} \cup {last} \subseteq
          [kind : {"make", "break"}, code : KeyCodes] \cup {Prefix, Ack}
    <3>1. ASSUME NEW i \in 1 .. Len(buffer) PROVE buffer[i].byte \in Codes
      <4>1. buffer[i] \in Entries BY DEF Types, ControllerTypes
      <4> QED BY <4>1 DEF Entries
    <3>2. last \in Codes BY DEF Types, ControllerTypes
    <3> QED BY <3>1, <3>2 DEF Codes
  <2> QED
    BY <2>1, <2>2
       DEF Types, ControllerTypes, DeviceTypes, DriverTypes, Places, TypeOK
<1> QED BY <1>1, InitTypes, TypesKept, PTL DEF Spec

-----------------------------------------------------------------------------
(* The acknowledgements of the keyboard among its bytes in a queue.        *)

FromKeys(e) == e.from = "keyboard"
Acknowledges(e) == e.from = "keyboard" /\ e.byte = Ack

NoKeys(b) == \A i \in DOMAIN b : ~FromKeys(b[i])
NoAcks(b) == \A i \in DOMAIN b : ~Acknowledges(b[i])
AcksFirst(b) ==
  \A i, j \in DOMAIN b : i < j /\ FromKeys(b[i]) => ~Acknowledges(b[j])
AcksLast(b) ==
  \A i, j \in DOMAIN b : i < j /\ FromKeys(b[j]) => ~Acknowledges(b[i])

(* Where there is none, order does not matter.                             *)
LEMMA WithoutAcks ==
  ASSUME NEW b
  PROVE  /\ NoKeys(b) => NoAcks(b)
         /\ NoAcks(b) => AcksFirst(b) /\ AcksLast(b)
BY DEF NoKeys, NoAcks, AcksFirst, AcksLast, FromKeys, Acknowledges

(* The tail of a queue, entry by entry.                                    *)
LEMMA TailIndex ==
  ASSUME NEW S, NEW b \in Seq(S), b # <<>>
  PROVE  /\ Tail(b) \in Seq(S) /\ Len(Tail(b)) = Len(b) - 1
         /\ \A i \in DOMAIN Tail(b) : /\ i + 1 \in DOMAIN b /\ i \in Nat
                                      /\ Tail(b)[i] = b[i + 1]
         /\ Head(b) = b[1] /\ 1 \in DOMAIN b
OBVIOUS

(* A queue with one more entry, entry by entry.                            *)
LEMMA AppendIndex ==
  ASSUME NEW S, NEW b \in Seq(S), NEW e \in S
  PROVE  /\ Append(b, e) \in Seq(S) /\ Len(Append(b, e)) = Len(b) + 1
         /\ \A i \in DOMAIN Append(b, e) :
              \/ i \in DOMAIN b /\ i < Len(b) + 1 /\ Append(b, e)[i] = b[i]
              \/ i = Len(b) + 1 /\ Append(b, e)[i] = e
         /\ \A i \in DOMAIN b : Append(b, e)[i] = b[i]
OBVIOUS

(* What is left when the head has been read.                               *)
LEMMA AcksInTail ==
  ASSUME NEW b \in Seq(Entries), b # <<>>
  PROVE  /\ NoKeys(b) => NoKeys(Tail(b)) /\ ~FromKeys(Head(b))
         /\ NoAcks(b) => NoAcks(Tail(b)) /\ ~Acknowledges(Head(b))
         /\ AcksFirst(b) => AcksFirst(Tail(b))
         /\ AcksLast(b) => AcksLast(Tail(b))
         /\ AcksFirst(b) /\ FromKeys(Head(b)) => NoAcks(Tail(b))
         /\ AcksLast(b) /\ Acknowledges(Head(b)) => NoKeys(Tail(b))
<1>1. /\ \A i \in DOMAIN Tail(b) : /\ i + 1 \in DOMAIN b /\ i \in Nat /\ i > 0
                                   /\ Tail(b)[i] = b[i + 1]
      /\ Head(b) = b[1] /\ 1 \in DOMAIN b
  BY TailIndex
<1>2. NoKeys(b) => NoKeys(Tail(b)) /\ ~FromKeys(Head(b))
  BY <1>1 DEF NoKeys
<1>3. NoAcks(b) => NoAcks(Tail(b)) /\ ~Acknowledges(Head(b))
  BY <1>1 DEF NoAcks
<1>4. AcksFirst(b) => AcksFirst(Tail(b)) BY <1>1 DEF AcksFirst
<1>5. AcksLast(b) => AcksLast(Tail(b)) BY <1>1 DEF AcksLast
<1>6. AcksFirst(b) /\ FromKeys(Head(b)) => NoAcks(Tail(b))
  <2> SUFFICES ASSUME AcksFirst(b), FromKeys(Head(b)),
                      NEW i \in DOMAIN Tail(b)
               PROVE  ~Acknowledges(Tail(b)[i])
    BY DEF NoAcks
  <2>1. 1 < i + 1 /\ i + 1 \in DOMAIN b BY <1>1
  <2> QED BY <1>1, <2>1 DEF AcksFirst
<1>7. AcksLast(b) /\ Acknowledges(Head(b)) => NoKeys(Tail(b))
  <2> SUFFICES ASSUME AcksLast(b), Acknowledges(Head(b)),
                      NEW i \in DOMAIN Tail(b)
               PROVE  ~FromKeys(Tail(b)[i])
    BY DEF NoKeys
  <2>1. 1 < i + 1 /\ i + 1 \in DOMAIN b BY <1>1
  <2> QED BY <1>1, <2>1 DEF AcksLast
<1> QED BY <1>2, <1>3, <1>4, <1>5, <1>6, <1>7

(* What is there when another byte has been sent.                          *)
LEMMA AcksInAppend ==
  ASSUME NEW b \in Seq(Entries), NEW e \in Entries
  PROVE  /\ NoKeys(b) /\ ~FromKeys(e) => NoKeys(Append(b, e))
         /\ NoAcks(b) /\ ~Acknowledges(e) => NoAcks(Append(b, e))
         /\ AcksFirst(b) /\ ~Acknowledges(e) => AcksFirst(Append(b, e))
         /\ AcksLast(b) /\ ~FromKeys(e) => AcksLast(Append(b, e))
         /\ NoKeys(b) => AcksFirst(Append(b, e))
         /\ NoAcks(b) => AcksLast(Append(b, e))
<1>1. /\ \A i \in DOMAIN Append(b, e) :
           \/ i \in DOMAIN b /\ i < Len(b) + 1 /\ Append(b, e)[i] = b[i]
           \/ i = Len(b) + 1 /\ Append(b, e)[i] = e
      /\ Len(b) \in Nat /\ DOMAIN b = 1 .. Len(b)
  BY AppendIndex
<1>2. \A i, j \in DOMAIN Append(b, e) : i < j => i \in DOMAIN b
  BY <1>1
<1> DEFINE a == Append(b, e)
<1> HIDE DEF a
<1>3. /\ \A i \in DOMAIN a :
           (i \in DOMAIN b /\ a[i] = b[i]) \/ a[i] = e
      /\ \A i, j \in DOMAIN a : i < j => i \in DOMAIN b /\ a[i] = b[i]
  BY <1>1, <1>2 DEF a
<1>4. NoKeys(b) /\ ~FromKeys(e) => NoKeys(a) BY <1>3 DEF NoKeys
<1>5. NoAcks(b) /\ ~Acknowledges(e) => NoAcks(a) BY <1>3 DEF NoAcks
<1>6. AcksFirst(b) /\ ~Acknowledges(e) => AcksFirst(a)
  BY <1>3 DEF AcksFirst
<1>7. AcksLast(b) /\ ~FromKeys(e) => AcksLast(a) BY <1>3 DEF AcksLast
<1>8. NoKeys(b) => AcksFirst(a) BY <1>3 DEF NoKeys, AcksFirst
<1>9. NoAcks(b) => AcksLast(a) BY <1>3 DEF NoAcks, AcksLast
<1> QED BY <1>4, <1>5, <1>6, <1>7, <1>8, <1>9 DEF a

(* What a command that clears has left.                                    *)
LEMMA ClearedAcks ==
  ASSUME buffer \in Seq(Entries)
  PROVE  /\ NoKeys(buffer) => NoKeys(Cleared)
         /\ NoAcks(buffer) => NoAcks(Cleared)
BY ClearedTypes DEF NoKeys, NoAcks

-----------------------------------------------------------------------------
(* Whose turn it is, the driver's or the keyboard's.  A command that has   *)
(* not been taken is the only one; where its answer is awaited there is no *)
(* other answer before it, and the register does not hold one either; and  *)
(* where a command is on its way that nobody waits for, there is no code   *)
(* for which the handler might write the next.                             *)

IdleTurn ==
  /\ at = "idle" /\ AcksFirst(buffer)
  /\ \/ command = "none" /\ mode = "scan"
     \/ command = "enable" /\ mode = "off" /\ NoKeys(buffer)
     \/ command = "option" /\ mode = "option" /\ NoKeys(buffer)

LockTurn ==
  /\ at \in Locks /\ last # Break(at)
  /\ command = "none" /\ mode = "scan" /\ NoAcks(buffer)

ShiftTurn ==
  /\ at = "shift" /\ last # Ack
  /\ \/ command = "disable" /\ mode = "scan" /\ NoAcks(buffer)
     \/ command = "none" /\ mode = "off" /\ AcksLast(buffer)

LedsTurn ==
  /\ at = "leds" /\ last # Ack
  /\ \/ command = "leds" /\ mode = "scan" /\ NoAcks(buffer)
     \/ command = "none" /\ mode = "option" /\ AcksLast(buffer)

Turn == ~mistaken => IdleTurn \/ LockTurn \/ ShiftTurn \/ LedsTurn

(* An interrupt that was left over finds an answer in the register.        *)
LeftOver ==
  at = "idle" /\ buffer = <<>> /\ "keyboard" \in latched => last = Ack

KInv == Types /\ Turn /\ LeftOver

(* The code of a key adds no answer.                                       *)
LEMMA KeyAddsNoAck ==
  ASSUME Types, NEW k \in Keys, NEW a \in Codes \ {Prefix, Ack}, Report(k, a)
  PROVE  /\ mode = "scan" \/ (mode = "off" /\ UNCHANGED controller)
         /\ NoAcks(buffer) => NoAcks(buffer')
         /\ AcksFirst(buffer) => AcksFirst(buffer')
<1>1. CASE mode = "off" /\ UNCHANGED controller BY <1>1 DEF controller
<1>2. CASE mode = "scan" /\ Send("keyboard", Bytes(k, a))
  <2> DEFINE p == From("keyboard", Prefix)
             e == From("keyboard", a)
  <2>1. /\ p \in Entries /\ e \in Entries
        /\ ~Acknowledges(p) /\ ~Acknowledges(e)
    BY DEF From, Entries, Codes, Acknowledges, Prefix, Ack
  <2>2. buffer \in Seq(Entries) BY DEF Types, ControllerTypes
  <2>3. buffer' = IF k.extended THEN Append(Append(buffer, p), e)
                  ELSE Append(buffer, e)
    BY <1>2, <2>2, SentKey
  <2> HIDE DEF p, e
  <2>4. Append(buffer, p) \in Seq(Entries) BY <2>1, <2>2
  <2> QED BY <1>2, <2>1, <2>2, <2>3, <2>4, AcksInAppend
<1> QED BY <1>1, <1>2 DEF Report

(* What a key sends is neither an answer nor 0xE0.                         *)
LEMMA CodesAreNoAnswers ==
  ASSUME NEW k \in Keys
  PROVE  {Make(k.code), Break(k.code)} \subseteq Codes \ {Prefix, Ack}
BY CodesOfKey DEF Make, Break, Prefix, Ack

(* A key that moves does not change whose turn it is.                      *)
LEMMA KeyTurn ==
  ASSUME Types, Turn, NEW k \in Keys, Press(k) \/ Release(k)
  PROVE  Turn'
<1>1. PICK a \in Codes \ {Prefix, Ack} : Report(k, a)
  BY CodesAreNoAnswers DEF Press, Release
<1>2. /\ mode = "scan" \/ (mode = "off" /\ UNCHANGED controller)
      /\ NoAcks(buffer) => NoAcks(buffer')
      /\ AcksFirst(buffer) => AcksFirst(buffer')
  BY <1>1, KeyAddsNoAck
<1>3. UNCHANGED <<at, command, mode, mistaken>> /\ UNCHANGED last
  BY <1>1 DEF Press, Release, Report, Send, controller
<1> QED
  BY <1>2, <1>3
     DEF Turn, IdleTurn, LockTurn, ShiftTurn, LedsTurn, controller

(* Nor does one that repeats.                                              *)
LEMMA RepeatTurn == ASSUME Types, Turn, Repeat PROVE Turn'
<1>1. repeating \in Keys BY DEF Types, DeviceTypes, Repeat
<1>2. Report(repeating, Make(repeating.code)) /\ mode = "scan"
  BY DEF Repeat, Report
<1>3. /\ NoAcks(buffer) => NoAcks(buffer')
      /\ AcksFirst(buffer) => AcksFirst(buffer')
  BY <1>1, <1>2, KeyAddsNoAck, CodesAreNoAnswers
<1>4. UNCHANGED <<at, command, mode, mistaken, last>>
  BY DEF Repeat, Send, device
<1> QED
  BY <1>2, <1>3, <1>4 DEF Turn, IdleTurn, LockTurn, ShiftTurn, LedsTurn

(* The keyboard's answer is the only one, and it is awaited or the last.   *)
LEMMA ObeyTurn == ASSUME Types, Turn, Obey PROVE Turn'
<1>1. buffer \in Seq(Entries) /\ Cleared \in Seq(Entries)
  BY ClearedTypes DEF Types, ControllerTypes
<1>2. From("keyboard", Ack) \in Entries BY DEF From, Entries, Codes
<1>3. /\ NoKeys(buffer) => AcksFirst(buffer')
      /\ NoAcks(buffer) => AcksLast(buffer')
  BY <1>1, <1>2, ClearedAcks, AcksInAppend DEF Obey
<1>4. UNCHANGED <<at, last, mistaken>> /\ command # "none" /\ command' = "none"
  BY DEF Obey
<1>5. mode' = CASE command = "disable" -> "off"
                [] command = "leds" -> "option"
                [] OTHER -> "scan"
  BY DEF Obey
<1> QED
  BY <1>3, <1>4, <1>5 DEF Turn, IdleTurn, LockTurn, ShiftTurn, LedsTurn

(* The mouse and its handler leave the turn alone.                         *)
LEMMA MouseTurn ==
  ASSUME Types, Turn, MouseHandles \/ \E byte \in MouseBytes : MouseSends(byte)
  PROVE  Turn'
<1>1. buffer \in Seq(Entries) BY DEF Types, ControllerTypes
<1>2. UNCHANGED <<at, command, mode, mistaken>>
  BY DEF MouseHandles, MouseSends, device, user
<1>3. CASE MouseHandles
  <2>1. at = "idle" BY <1>3 DEF MouseHandles
  <2>2. /\ NoKeys(buffer) => NoKeys(buffer')
        /\ AcksFirst(buffer) => AcksFirst(buffer')
    <3>1. CASE buffer' = buffer BY <3>1
    <3>2. CASE buffer # <<>> /\ buffer' = Tail(buffer)
      BY <3>2, <1>1, AcksInTail
    <3> QED BY <1>3, <3>1, <3>2 DEF MouseHandles, Read
  <2> QED
    BY <1>2, <2>1, <2>2
       DEF Turn, IdleTurn, LockTurn, ShiftTurn, LedsTurn, Locks
<1>4. ASSUME NEW byte \in MouseBytes, MouseSends(byte) PROVE Turn'
  <2>1. Send("mouse", <<byte>>) BY <1>4 DEF MouseSends
  <2>2. From("mouse", byte) \in Entries
    BY KeyboardAssumption DEF From, Entries, Codes, Ack
  <2>3. ~FromKeys(From("mouse", byte)) /\ ~Acknowledges(From("mouse", byte))
    BY DEF From, FromKeys, Acknowledges
  <2>4. buffer' = Append(buffer, From("mouse", byte)) /\ last' = last
    BY <1>1, <2>1, SentOne DEF Send
  <2>5. /\ NoKeys(buffer) => NoKeys(buffer')
        /\ NoAcks(buffer) => NoAcks(buffer')
        /\ AcksFirst(buffer) => AcksFirst(buffer')
        /\ AcksLast(buffer) => AcksLast(buffer')
    BY <1>1, <2>2, <2>3, <2>4, AcksInAppend
  <2> QED
    BY <1>2, <2>4, <2>5 DEF Turn, IdleTurn, LockTurn, ShiftTurn, LedsTurn
<1> QED BY <1>3, <1>4

(* What the driver reads is the head, or the register's last byte again.   *)
LEMMA DriverReads ==
  ASSUME Types, NEW still, Read(still)
  PROVE  /\ last' = DataPort
         /\ buffer = <<>> => buffer' = <<>> /\ DataPort = last
         /\ buffer # <<>> => buffer' = Tail(buffer)
                             /\ DataPort = Head(buffer).byte
         /\ NoKeys(buffer) => NoKeys(buffer')
         /\ NoAcks(buffer) => NoAcks(buffer')
         /\ AcksFirst(buffer) => AcksFirst(buffer')
         /\ AcksLast(buffer) => AcksLast(buffer')
         /\ buffer # <<>> /\ ~ReadsMouse => FromKeys(Head(buffer))
<1>1. buffer \in Seq(Entries) BY DEF Types, ControllerTypes
<1>2. last' = DataPort BY DEF Read
<1>3. buffer = <<>> => buffer' = <<>> /\ DataPort = last BY DEF Read, DataPort
<1>4. buffer # <<>> => buffer' = Tail(buffer) /\ DataPort = Head(buffer).byte
  BY DEF Read, DataPort
<1>5. buffer # <<>> /\ ~ReadsMouse => FromKeys(Head(buffer))
  <2> SUFFICES ASSUME buffer # <<>>, ~ReadsMouse PROVE FromKeys(Head(buffer))
    OBVIOUS
  <2>1. Head(buffer) \in Entries BY <1>1
  <2> QED BY <2>1 DEF ReadsMouse, OfMouse, FromKeys, Entries
<1>6. CASE buffer = <<>> BY <1>2, <1>3, <1>6
<1>7. CASE buffer # <<>> BY <1>1, <1>2, <1>4, <1>5, <1>7, AcksInTail
<1> QED BY <1>6, <1>7

(* The handler runs a case that writes or waits only if the keyboard's     *)
(* byte is a code, and then no command is on its way.                      *)
LEMMA HandlerTurn ==
  ASSUME KInv, HandleInterrupt
  PROVE  Turn' /\ (~mistaken' /\ command # "none" => command' = command)
<1> SUFFICES ASSUME ~mistaken'
             PROVE  Turn' /\ (command # "none" => command' = command)
  BY DEF Turn
<1>1. ~mistaken /\ ~ReadsMouse /\ at = "idle" /\ IdleTurn
  BY DEF KInv, Turn, LockTurn, ShiftTurn, LedsTurn, Locks, HandleInterrupt,
         Mistake, Types, DriverTypes, ReadsMouse, OfMouse
<1>2. Types /\ Read(latched \ {"keyboard"}) /\ "keyboard" \in latched
      /\ mode' = mode
  BY DEF KInv, HandleInterrupt, device
<1>3. CASE buffer = <<>>
  <2>1. DataPort = Ack /\ buffer' = <<>>
    BY <1>1, <1>2, <1>3, DriverReads DEF KInv, LeftOver
  <2>2. UNCHANGED <<at, command>>
    BY <2>1 DEF HandleInterrupt, PrefixCase, ShiftPressed, ShiftReleased,
                LockPressed, OtherCase, Ack, Prefix
  <2>3. NoKeys(buffer') /\ AcksFirst(buffer')
    BY <2>1 DEF NoKeys, AcksFirst
  <2> QED BY <1>1, <1>2, <2>2, <2>3 DEF Turn, IdleTurn
<1>4. CASE buffer # <<>>
  <2>1. FromKeys(Head(buffer)) /\ buffer \in Seq(Entries)
    BY <1>1, <1>2, <1>4, DriverReads DEF Types, ControllerTypes
  <2>2. NoAcks(buffer') /\ AcksFirst(buffer')
    BY <1>1, <1>2, <1>4, <2>1, DriverReads, AcksInTail DEF IdleTurn, NoAcks
  <2>3. command = "none" /\ mode = "scan"
    BY <1>1, <1>4, <2>1, AcksInTail DEF IdleTurn
  <2>4. last' = DataPort BY <1>2, DriverReads
  <2>5. CASE at' = "idle" /\ command' = "none"
    BY <1>2, <2>2, <2>3, <2>5 DEF Turn, IdleTurn
  <2>6. CASE ShiftPressed(DataPort)
    BY <1>2, <2>2, <2>3, <2>4, <2>6 DEF Turn, ShiftTurn, ShiftPressed, Ack
  <2>7. CASE LockPressed(DataPort)
    BY <1>2, <2>2, <2>3, <2>4, <2>7
       DEF Turn, LockTurn, LockPressed, Break
  <2> QED
    BY <1>1, <2>3, <2>5, <2>6, <2>7
       DEF HandleInterrupt, PrefixCase, ShiftReleased, OtherCase
<1> QED BY <1>3, <1>4

(* A wait is over only with the answer or the release it waits for.        *)
LEMMA WaitingTurn ==
  ASSUME KInv, Waiting
  PROVE  Turn' /\ (~mistaken' /\ command # "none" => command' = command)
<1> SUFFICES ASSUME ~mistaken'
             PROVE  Turn' /\ (command # "none" => command' = command)
  BY DEF Turn
<1> USE DEF Locks
<1>1. ~mistaken
  BY DEF Waiting, Spin, ShiftAcked, LockReleased, LedsAcked, Over, Mistake,
         KInv, Types, DriverTypes, ReadsMouse, OfMouse
<1>2. IdleTurn \/ LockTurn \/ ShiftTurn \/ LedsTurn BY <1>1 DEF KInv, Turn
<1>3. Types /\ buffer \in Seq(Entries) /\ Read(latched) /\ mode' = mode
  BY DEF KInv, Types, ControllerTypes, Waiting, Spin, ShiftAcked,
         LockReleased, LedsAcked, Wait, device
<1>4. /\ last' = DataPort
      /\ NoAcks(buffer) => NoAcks(buffer')
      /\ AcksLast(buffer) => AcksLast(buffer')
  BY <1>3, DriverReads
<1>5. ASSUME DataPort = Ack, last # Ack, ~ReadsMouse
      PROVE  /\ ~NoAcks(buffer)
             /\ AcksLast(buffer) => NoKeys(buffer')
  <2>1. /\ buffer # <<>> /\ DataPort = Head(buffer).byte
        /\ FromKeys(Head(buffer)) /\ buffer' = Tail(buffer)
    BY <1>3, <1>5, DriverReads
  <2>2. Acknowledges(Head(buffer))
    BY <1>5, <2>1 DEF FromKeys, Acknowledges
  <2> QED BY <1>3, <2>1, <2>2, AcksInTail
<1>6. ASSUME NEW place \in {"shift", "leds"} \cup Locks, Spin(place)
      PROVE  Turn' /\ command' = command
  <2>1. UNCHANGED <<at, command, mistaken>> /\ at = place
        /\ ~Awaited(at, DataPort)
    BY <1>6 DEF Spin, Wait
  <2>2. /\ at \in Locks => DataPort # Break(at)
        /\ at \notin Locks => DataPort # Ack
    BY <2>1 DEF Awaited
  <2> QED
    BY <1>2, <1>3, <1>4, <2>1, <2>2
       DEF Turn, IdleTurn, LockTurn, ShiftTurn, LedsTurn
<1>7. CASE ShiftAcked
  <2>1. /\ at = "shift" /\ at' = "idle" /\ DataPort = Ack /\ ~ReadsMouse
        /\ command' = "enable"
    BY <1>7 DEF ShiftAcked, Wait, Over, Awaited, Mistake
  <2>2. ShiftTurn BY <1>2, <2>1 DEF IdleTurn, LockTurn, LedsTurn
  <2>3. command = "none" /\ mode = "off" /\ NoKeys(buffer')
    BY <1>5, <2>1, <2>2 DEF ShiftTurn
  <2> QED BY <1>3, <2>1, <2>3, WithoutAcks DEF Turn, IdleTurn
<1>8. ASSUME NEW lock \in Locks, LockReleased(lock)
      PROVE  Turn' /\ command = "none"
  <2>1. /\ at = lock /\ at' = "leds" /\ DataPort = Break(lock)
        /\ command' = "leds"
    BY <1>8 DEF LockReleased, Wait, Over, Awaited
  <2>2. LockTurn BY <1>2, <2>1 DEF IdleTurn, ShiftTurn, LedsTurn
  <2> QED
    BY <1>3, <1>4, <2>1, <2>2 DEF Turn, LockTurn, LedsTurn, Break, Ack
<1>9. CASE LedsAcked
  <2>1. /\ at = "leds" /\ at' = "idle" /\ DataPort = Ack /\ ~ReadsMouse
        /\ command' = "option"
    BY <1>9 DEF LedsAcked, Wait, Over, Awaited, Mistake
  <2>2. LedsTurn BY <1>2, <2>1 DEF IdleTurn, LockTurn, ShiftTurn
  <2>3. command = "none" /\ mode = "option" /\ NoKeys(buffer')
    BY <1>5, <2>1, <2>2 DEF LedsTurn
  <2> QED BY <1>3, <2>1, <2>3, WithoutAcks DEF Turn, IdleTurn
<1>10. (ShiftAcked \/ LedsAcked) => command = "none"
  BY <1>2, <1>5 DEF ShiftAcked, LedsAcked, Wait, Over, Awaited, Mistake,
     IdleTurn, LockTurn, ShiftTurn, LedsTurn
<1> QED BY <1>6, <1>7, <1>8, <1>9, <1>10 DEF Waiting

(* Nothing is behind the only byte.                                        *)
LEMMA EmptyTail ==
  ASSUME NEW S, NEW b \in Seq(S), b # <<>>, Tail(b) = <<>>
  PROVE  Len(b) = 1
<1>1. Len(Tail(b)) = Len(<<>>) BY Zenon
<1>2. Len(<<>>) = 0 OBVIOUS
<1>3. Len(Tail(b)) = 0 BY <1>1, <1>2, Zenon
<1>4. Len(Tail(b)) = Len(b) - 1 BY TailIndex
<1> QED BY <1>3, <1>4

(* An interrupt that is left over comes of a wait, which ends with an      *)
(* answer.                                                                 *)
LEMMA LeftOverKept ==
  ASSUME KInv, [Next]_vars
  PROVE  LeftOver'
<1> SUFFICES ASSUME at' = "idle", buffer' = <<>>, "keyboard" \in latched'
             PROVE  last' = Ack
  BY DEF LeftOver
<1>1. buffer \in Seq(Entries) /\ Types BY DEF KInv, Types, ControllerTypes
<1>2. CASE UNCHANGED <<at, controller>>
  BY <1>2 DEF KInv, LeftOver, controller
<1>3. ASSUME NEW k \in Keys, NEW a, Send("keyboard", Bytes(k, a)) PROVE FALSE
  BY <1>1, <1>3, SentKey
<1>4. CASE \E k \in Keys : Press(k) \/ Release(k)
  BY <1>2, <1>3, <1>4 DEF Press, Release, Report
<1>5. CASE Repeat
  BY <1>3, <1>5 DEF Repeat, KInv, Types, DeviceTypes
<1>6. CASE Obey
  <2>1. Cleared \in Seq(Entries) BY <1>1, ClearedTypes
  <2> QED BY <1>1, <1>6, <2>1 DEF Obey
<1>7. ASSUME NEW byte \in MouseBytes, MouseSends(byte) PROVE FALSE
  <2>1. buffer' = Append(buffer, From("mouse", byte))
    BY <1>1, <1>7, SentOne DEF MouseSends
  <2> QED BY <1>1, <2>1
<1>8. ASSUME NEW still, Read(still) PROVE latched' = still
  <2>1. ~(Len(buffer) > 1)
    <3>1. CASE buffer = <<>> BY <3>1
    <3>2. CASE buffer # <<>>
      <4>1. Tail(buffer) = <<>> BY <3>2, <1>8 DEF Read
      <4>2. Len(buffer) = 1 BY <1>1, <3>2, <4>1, EmptyTail
      <4> QED BY <4>2
    <3> QED BY <3>1, <3>2
  <2> QED BY <2>1, <1>8 DEF Read
<1>9. CASE MouseHandles BY <1>8, <1>9 DEF MouseHandles
<1>10. CASE HandleInterrupt BY <1>8, <1>10 DEF HandleInterrupt
<1>11. CASE Waiting
  <2>1. at # "idle"
    BY <1>11
       DEF Waiting, Spin, ShiftAcked, LockReleased, LedsAcked, Wait, Locks
  <2>2. ShiftAcked \/ LedsAcked
    BY <1>11, <2>1 DEF Waiting, Spin, LockReleased
  <2> QED
    BY <2>2 DEF ShiftAcked, LedsAcked, Wait, Over, Awaited, Locks, Read
<1> QED
  BY <1>2, <1>4, <1>5, <1>6, <1>7, <1>9, <1>10, <1>11
     DEF Next, Driver, vars

(* The invariant holds as Activate leaves the driver.                      *)
LEMMA KeyboardInit == Init => KInv
<1> SUFFICES ASSUME Init PROVE KInv OBVIOUS
<1>1. Types BY InitTypes
<1>2. AcksFirst(buffer)
  <2>1. DOMAIN buffer \subseteq {1} BY DEF Init
  <2> QED BY <2>1 DEF AcksFirst
<1> QED BY <1>1, <1>2 DEF Init, KInv, Turn, IdleTurn, LeftOver

(* Every step keeps it.                                                    *)
LEMMA KeyboardStep == KInv /\ [Next]_vars => KInv'
<1> SUFFICES ASSUME KInv, [Next]_vars PROVE KInv' OBVIOUS
<1>1. Types' /\ LeftOver' BY TypesKept, LeftOverKept DEF KInv
<1>2. CASE UNCHANGED vars
  BY <1>1, <1>2
     DEF vars, user, device, controller, KInv, Turn, IdleTurn, LockTurn,
         ShiftTurn, LedsTurn
<1>3. Turn'
  BY <1>2, KeyTurn, RepeatTurn, ObeyTurn, MouseTurn, HandlerTurn,
     WaitingTurn DEF Next, Driver, KInv
<1> QED BY <1>1, <1>3 DEF KInv

(* No command is written over before the keyboard has taken it, unless the *)
(* driver has acted on a byte of the mouse, although the driver never asks *)
(* whether it has.                                                         *)
THEOREM KeyboardCommandsTaken == Spec => CommandsTaken
<1>1. KInv /\ [Next]_vars =>
        [command # "none" /\ ~mistaken' => command' \in {command, "none"}]_vars
  <2> SUFFICES ASSUME KInv, Next, command # "none", ~mistaken'
               PROVE  command' \in {command, "none"}
    OBVIOUS
  <2>1. CASE Driver BY <2>1, HandlerTurn, WaitingTurn DEF Driver
  <2>2. CASE ~Driver
    BY <2>2 DEF Next, Press, Release, Repeat, Obey, MouseSends, MouseHandles
  <2> QED BY <2>1, <2>2
<1> QED BY <1>1, KeyboardInit, KeyboardStep, PTL DEF Spec, CommandsTaken

(* The run of the handler that is left over when a wait has read the bytes *)
(* changes no flag, prints nothing and waits for nothing.                  *)
THEOREM KeyboardSpuriousHarmless == Spec => SpuriousHarmless
<1> DEFINE Harmless ==
      at = "idle" /\ buffer = <<>> /\ "keyboard" \in latched \ latched' =>
        typed' = Nothing /\ UNCHANGED <<flags, at, command>>
<1>1. KInv /\ [Next]_vars => [Harmless]_vars
  <2> SUFFICES ASSUME KInv, Next, at = "idle", buffer = <<>>,
                      "keyboard" \in latched, "keyboard" \notin latched'
               PROVE  typed' = Nothing /\ UNCHANGED <<flags, at, command>>
    OBVIOUS
  <2>1. DataPort = Ack BY DEF KInv, LeftOver, DataPort
  <2>2. HandleInterrupt
    <3>1. ~Waiting
      BY DEF Waiting, Spin, ShiftAcked, LockReleased, LedsAcked, Wait, Locks
    <3>2. ~MouseHandles BY DEF MouseHandles
    <3>3. latched' \notin {latched, latched \cup {"keyboard"},
                           latched \cup {"mouse"}}
      OBVIOUS
    <3> QED
      BY <3>1, <3>2, <3>3
         DEF Next, Driver, Press, Release, Report, Repeat, Obey, MouseSends,
             Send, Latch, controller
  <2>3. typed' = Nothing
    BY <2>1, <2>2 DEF HandleInterrupt, Typed, Ack, Unknown
  <2> QED
    BY <2>1, <2>2, <2>3
       DEF HandleInterrupt, PrefixCase, ShiftPressed, ShiftReleased,
           LockPressed, OtherCase, Ack, Prefix
<1> QED BY <1>1, KeyboardInit, KeyboardStep, PTL DEF Spec, SpuriousHarmless

-----------------------------------------------------------------------------
(* Queues: what is in them, twice or behind something, and the parity of   *)
(* the entries that toggle a flag.                                         *)

Has(b, e) == \E i \in DOMAIN b : b[i] = e
Twice(b, e) == \E i, j \in DOMAIN b : i < j /\ b[i] = e /\ b[j] = e

(* Behind every r there is an m.                                           *)
Renewed(b, r, m) ==
  \A i \in DOMAIN b : b[i] = r => \E j \in DOMAIN b : i < j /\ b[j] = m

(* A bit x becomes y if every entry of F in b toggles it.                  *)
Flips(b, F, x, y) ==
  \E w \in [1 .. Len(b) + 1 -> {0, 1}] :
    /\ w[1] = x /\ w[Len(b) + 1] = y
    /\ \A i \in DOMAIN b : w[i + 1] = IF b[i] \in F THEN 1 - w[i] ELSE w[i]

(* One more entry at the end.                                              *)
LEMMA AppendHas ==
  ASSUME NEW b \in Seq(Entries), NEW e \in Entries, NEW x
  PROVE  /\ Has(Append(b, e), x) <=> Has(b, x) \/ e = x
         /\ Twice(Append(b, e), x) <=> Twice(b, x) \/ (Has(b, x) /\ e = x)
<1> DEFINE a == Append(b, e)
<1>1. /\ Len(b) \in Nat /\ DOMAIN b = 1 .. Len(b)
      /\ DOMAIN a = 1 .. Len(b) + 1
      /\ \A i \in DOMAIN b : a[i] = b[i]
      /\ a[Len(b) + 1] = e
  OBVIOUS
<1> HIDE DEF a
<1>2. Has(a, x) <=> Has(b, x) \/ e = x
  <2>1. ASSUME NEW i \in DOMAIN a, a[i] = x PROVE Has(b, x) \/ e = x
    <3>1. i \in DOMAIN b \/ i = Len(b) + 1 BY <1>1
    <3> QED BY <1>1, <2>1, <3>1 DEF Has
  <2>2. ASSUME NEW i \in DOMAIN b, b[i] = x PROVE Has(a, x)
    <3>1. i \in DOMAIN a BY <1>1
    <3> QED BY <1>1, <2>2, <3>1 DEF Has
  <2>3. e = x => Has(a, x)
    <3>1. Len(b) + 1 \in DOMAIN a BY <1>1
    <3> QED BY <1>1, <3>1 DEF Has
  <2> QED BY <2>1, <2>2, <2>3 DEF Has
<1>3. Twice(a, x) => Twice(b, x) \/ (Has(b, x) /\ e = x)
  <2> SUFFICES ASSUME NEW i \in DOMAIN a, NEW j \in DOMAIN a, i < j,
                      a[i] = x, a[j] = x
               PROVE  Twice(b, x) \/ (Has(b, x) /\ e = x)
    BY DEF Twice
  <2>1. i \in DOMAIN b BY <1>1
  <2>2. b[i] = x /\ Has(b, x) BY <1>1, <2>1 DEF Has
  <2>3. j \in DOMAIN b \/ j = Len(b) + 1 BY <1>1
  <2>4. CASE j \in DOMAIN b
    <3>1. b[j] = x BY <1>1, <2>4
    <3> QED BY <2>1, <2>2, <2>4, <3>1 DEF Twice
  <2> QED BY <1>1, <2>2, <2>3, <2>4
<1>4. Twice(b, x) => Twice(a, x)
  <2> SUFFICES ASSUME NEW i \in DOMAIN b, NEW j \in DOMAIN b, i < j,
                      b[i] = x, b[j] = x
               PROVE  Twice(a, x)
    BY DEF Twice
  <2>1. i \in DOMAIN a /\ j \in DOMAIN a /\ a[i] = x /\ a[j] = x BY <1>1
  <2> QED BY <2>1 DEF Twice
<1>5. Has(b, x) /\ e = x => Twice(a, x)
  <2> SUFFICES ASSUME NEW i \in DOMAIN b, b[i] = x, e = x PROVE Twice(a, x)
    BY DEF Has
  <2>1. /\ i \in DOMAIN a /\ Len(b) + 1 \in DOMAIN a /\ i < Len(b) + 1
        /\ a[i] = x /\ a[Len(b) + 1] = x
    BY <1>1
  <2> QED BY <2>1 DEF Twice
<1> QED BY <1>2, <1>3, <1>4, <1>5 DEF a

(* An entry at the end is behind all others.                               *)
LEMMA AppendRenewed ==
  ASSUME NEW b \in Seq(Entries), NEW e \in Entries, NEW r, NEW m, e # r
  PROVE  /\ Renewed(b, r, m) => Renewed(Append(b, e), r, m)
         /\ e = m => Renewed(Append(b, e), r, m)
<1> DEFINE a == Append(b, e)
<1>1. /\ Len(b) \in Nat /\ DOMAIN b = 1 .. Len(b)
      /\ DOMAIN a = 1 .. Len(b) + 1
      /\ \A i \in DOMAIN b : a[i] = b[i]
      /\ a[Len(b) + 1] = e
  OBVIOUS
<1> HIDE DEF a
<1>2. ASSUME NEW i \in DOMAIN a, a[i] = r
      PROVE  i \in DOMAIN b /\ b[i] = r /\ i < Len(b) + 1
  <2>1. i \in DOMAIN b \/ i = Len(b) + 1 BY <1>1
  <2>2. i \in DOMAIN b BY <1>1, <1>2, <2>1
  <2> QED BY <1>1, <1>2, <2>2
<1>3. Renewed(b, r, m) => Renewed(a, r, m)
  <2> SUFFICES ASSUME Renewed(b, r, m), NEW i \in DOMAIN a, a[i] = r
               PROVE  \E j \in DOMAIN a : i < j /\ a[j] = m
    BY DEF Renewed
  <2>1. PICK j \in DOMAIN b : i < j /\ b[j] = m BY <1>2 DEF Renewed
  <2>2. j \in DOMAIN a /\ a[j] = m BY <1>1, <2>1
  <2> QED BY <2>1, <2>2
<1>4. e = m => Renewed(a, r, m)
  <2>1. Len(b) + 1 \in DOMAIN a /\ a[Len(b) + 1] = e BY <1>1
  <2> QED BY <1>2, <2>1 DEF Renewed
<1> QED BY <1>3, <1>4 DEF a

(* An entry of F at the end inverts the outcome.                           *)
LEMMA AppendFlips ==
  ASSUME NEW b \in Seq(Entries), NEW e \in Entries, NEW F, NEW x, NEW y,
         Flips(b, F, x, y)
  PROVE  /\ x \in {0, 1} /\ y \in {0, 1}
         /\ e \in F => Flips(Append(b, e), F, x, 1 - y)
         /\ e \notin F => Flips(Append(b, e), F, x, y)
<1> DEFINE a == Append(b, e)
           n == Len(b)
           z == IF e \in F THEN 1 - y ELSE y
<1>1. /\ n \in Nat /\ DOMAIN b = 1 .. n
      /\ DOMAIN a = 1 .. n + 1 /\ Len(a) = n + 1
      /\ \A i \in DOMAIN b : a[i] = b[i]
      /\ a[n + 1] = e
  OBVIOUS
<1>2. PICK w \in [1 .. n + 1 -> {0, 1}] :
        /\ w[1] = x /\ w[n + 1] = y
        /\ \A i \in DOMAIN b : w[i + 1] = IF b[i] \in F THEN 1 - w[i] ELSE w[i]
  BY DEF Flips
<1> HIDE DEF n, a
<1>3. x \in {0, 1} /\ y \in {0, 1} BY <1>1, <1>2
<1>4. z \in {0, 1} BY <1>3
<1> DEFINE v == [i \in 1 .. n + 2 |-> IF i = n + 2 THEN z ELSE w[i]]
<1>5. v \in [1 .. Len(a) + 1 -> {0, 1}]
  <2>1. Len(a) + 1 = n + 2 BY <1>1
  <2>2. ASSUME NEW i \in 1 .. n + 2, i # n + 2 PROVE w[i] \in {0, 1}
    BY <1>1, <1>2, <2>2
  <2> HIDE DEF z
  <2> QED BY <1>4, <2>1, <2>2
<1>6. v[1] = x /\ v[Len(a) + 1] = z
  <2> HIDE DEF z
  <2> QED BY <1>1, <1>2
<1>7. ASSUME NEW i \in DOMAIN a
      PROVE  v[i + 1] = IF a[i] \in F THEN 1 - v[i] ELSE v[i]
  <2>1. i \in DOMAIN b \/ i = n + 1 BY <1>1
  <2>2. CASE i \in DOMAIN b
    <3>1. a[i] = b[i] /\ v[i] = w[i] /\ v[i + 1] = w[i + 1] BY <1>1, <2>2
    <3> QED BY <1>2, <2>2, <3>1
  <2>3. CASE i = n + 1
    <3>1. v[i + 1] = z /\ v[i] = y /\ a[i] = e
      <4> HIDE DEF z
      <4> QED BY <1>1, <1>2, <2>3
    <3> QED BY <3>1
  <2> QED BY <2>1, <2>2, <2>3
<1>8. Flips(a, F, x, z)
  <2> HIDE DEF v, z
  <2> QED BY <1>5, <1>6, <1>7 DEF Flips
<1> QED BY <1>3, <1>8 DEF a

(* The head taken away.                                                    *)
LEMMA TailHas ==
  ASSUME NEW b \in Seq(Entries), b # <<>>, NEW x
  PROVE  /\ Has(b, x) <=> Head(b) = x \/ Has(Tail(b), x)
         /\ Twice(b, x) <=>
              Twice(Tail(b), x) \/ (Head(b) = x /\ Has(Tail(b), x))
<1> DEFINE t == Tail(b)
<1>1. /\ Len(b) \in Nat /\ Len(b) > 0 /\ DOMAIN b = 1 .. Len(b)
      /\ DOMAIN t = 1 .. Len(b) - 1
      /\ \A i \in DOMAIN t : t[i] = b[i + 1]
      /\ Head(b) = b[1]
  OBVIOUS
<1> HIDE DEF t
<1>2. \A i \in DOMAIN b : i = 1 \/ (i - 1 \in DOMAIN t /\ t[i - 1] = b[i])
  <2> SUFFICES ASSUME NEW i \in DOMAIN b, i # 1
               PROVE  i - 1 \in DOMAIN t /\ t[i - 1] = b[i]
    OBVIOUS
  <2>1. i - 1 \in DOMAIN t /\ (i - 1) + 1 = i BY <1>1
  <2> QED BY <1>1, <2>1
<1>3. \A i \in DOMAIN t : i + 1 \in DOMAIN b /\ t[i] = b[i + 1] BY <1>1
<1>4. 1 \in DOMAIN b BY <1>1
<1>5. Has(b, x) <=> Head(b) = x \/ Has(t, x)
  <2>1. Has(b, x) => Head(b) = x \/ Has(t, x) BY <1>1, <1>2 DEF Has
  <2>2. Head(b) = x \/ Has(t, x) => Has(b, x) BY <1>1, <1>3, <1>4 DEF Has
  <2> QED BY <2>1, <2>2
<1>6. Twice(b, x) => Twice(t, x) \/ (Head(b) = x /\ Has(t, x))
  <2> SUFFICES ASSUME NEW i \in DOMAIN b, NEW j \in DOMAIN b, i < j,
                      b[i] = x, b[j] = x
               PROVE  Twice(t, x) \/ (Head(b) = x /\ Has(t, x))
    BY DEF Twice
  <2>1. j # 1 BY <1>1
  <2>2. j - 1 \in DOMAIN t /\ t[j - 1] = x BY <1>2, <2>1
  <2>3. CASE i = 1 BY <1>1, <2>2, <2>3 DEF Has
  <2>4. CASE i # 1
    <3>1. i - 1 \in DOMAIN t /\ t[i - 1] = x BY <1>2, <2>4
    <3>2. i - 1 < j - 1 BY <1>1
    <3> QED BY <2>2, <3>1, <3>2 DEF Twice
  <2> QED BY <2>3, <2>4
<1>7. Twice(t, x) => Twice(b, x)
  <2> SUFFICES ASSUME NEW i \in DOMAIN t, NEW j \in DOMAIN t, i < j,
                      t[i] = x, t[j] = x
               PROVE  Twice(b, x)
    BY DEF Twice
  <2>1. i + 1 < j + 1 BY <1>1
  <2> QED BY <1>3, <2>1 DEF Twice
<1>8. Head(b) = x /\ Has(t, x) => Twice(b, x)
  <2> SUFFICES ASSUME Head(b) = x, NEW i \in DOMAIN t, t[i] = x
               PROVE  Twice(b, x)
    BY DEF Has
  <2>1. 1 < i + 1 BY <1>1
  <2> QED BY <1>1, <1>3, <1>4, <2>1 DEF Twice
<1> QED BY <1>5, <1>6, <1>7, <1>8 DEF t

(* What is behind the head is in the tail.                                 *)
LEMMA TailRenewed ==
  ASSUME NEW b \in Seq(Entries), b # <<>>, NEW r, NEW m, Renewed(b, r, m)
  PROVE  /\ Renewed(Tail(b), r, m)
         /\ Head(b) = r => Has(Tail(b), m)
<1> DEFINE t == Tail(b)
<1>1. /\ Len(b) \in Nat /\ Len(b) > 0 /\ DOMAIN b = 1 .. Len(b)
      /\ DOMAIN t = 1 .. Len(b) - 1
      /\ \A i \in DOMAIN t : t[i] = b[i + 1]
      /\ Head(b) = b[1]
  OBVIOUS
<1> HIDE DEF t
<1>2. ASSUME NEW i \in DOMAIN b, b[i] = r
      PROVE  \E j \in DOMAIN t : i < j + 1 /\ t[j] = m
  <2>1. PICK j \in DOMAIN b : i < j /\ b[j] = m BY <1>2 DEF Renewed
  <2>2. j - 1 \in DOMAIN t /\ (j - 1) + 1 = j BY <1>1, <2>1
  <2>3. t[j - 1] = m BY <1>1, <2>1, <2>2
  <2> QED BY <2>1, <2>2, <2>3
<1>3. Renewed(t, r, m)
  <2> SUFFICES ASSUME NEW i \in DOMAIN t, t[i] = r
               PROVE  \E j \in DOMAIN t : i < j /\ t[j] = m
    BY DEF Renewed
  <2>1. i + 1 \in DOMAIN b /\ b[i + 1] = r BY <1>1
  <2>2. PICK j \in DOMAIN t : i + 1 < j + 1 /\ t[j] = m BY <1>2, <2>1
  <2>3. i < j BY <1>1, <2>2
  <2> QED BY <2>2, <2>3
<1>4. Head(b) = r => Has(t, m)
  <2>1. 1 \in DOMAIN b BY <1>1
  <2> QED BY <1>1, <1>2, <2>1 DEF Has
<1> QED BY <1>3, <1>4 DEF t

(* A head of F has inverted the start.                                     *)
LEMMA TailFlips ==
  ASSUME NEW b \in Seq(Entries), b # <<>>, NEW F, NEW x, NEW y,
         Flips(b, F, x, y)
  PROVE  /\ x \in {0, 1} /\ y \in {0, 1}
         /\ Head(b) \in F => Flips(Tail(b), F, 1 - x, y)
         /\ Head(b) \notin F => Flips(Tail(b), F, x, y)
<1> DEFINE t == Tail(b)
           n == Len(b)
           z == IF Head(b) \in F THEN 1 - x ELSE x
<1>1. /\ n \in Nat /\ n > 0 /\ DOMAIN b = 1 .. n
      /\ DOMAIN t = 1 .. n - 1 /\ Len(t) = n - 1
      /\ \A i \in DOMAIN t : t[i] = b[i + 1]
      /\ Head(b) = b[1]
  OBVIOUS
<1>2. PICK w \in [1 .. n + 1 -> {0, 1}] :
        /\ w[1] = x /\ w[n + 1] = y
        /\ \A i \in DOMAIN b : w[i + 1] = IF b[i] \in F THEN 1 - w[i] ELSE w[i]
  BY DEF Flips
<1> HIDE DEF n, t
<1>3. x \in {0, 1} /\ y \in {0, 1} BY <1>1, <1>2
<1> DEFINE v == [i \in 1 .. n |-> w[i + 1]]
<1>4. v \in [1 .. Len(t) + 1 -> {0, 1}]
  <2>1. Len(t) + 1 = n BY <1>1
  <2>2. \A i \in 1 .. n : i + 1 \in 1 .. n + 1 BY <1>1
  <2> QED BY <1>2, <2>1, <2>2
<1>5. v[1] = z /\ v[Len(t) + 1] = y
  <2>1. 1 \in DOMAIN b /\ 1 \in 1 .. n /\ n \in 1 .. n /\ Len(t) + 1 = n
    BY <1>1
  <2>2. v[1] = w[1 + 1] /\ v[n] = w[n + 1] BY <2>1
  <2>3. w[1 + 1] = z BY <1>1, <1>2, <2>1
  <2> QED BY <1>2, <2>1, <2>2, <2>3
<1>6. ASSUME NEW i \in DOMAIN t
      PROVE  v[i + 1] = IF t[i] \in F THEN 1 - v[i] ELSE v[i]
  <2>1. i \in 1 .. n /\ i + 1 \in 1 .. n /\ i + 1 \in DOMAIN b BY <1>1
  <2>2. v[i] = w[i + 1] /\ v[i + 1] = w[(i + 1) + 1] BY <2>1
  <2> QED BY <1>1, <1>2, <2>1, <2>2
<1>7. Flips(t, F, z, y)
  <2> HIDE DEF v, z
  <2> QED BY <1>4, <1>5, <1>6 DEF Flips
<1> QED BY <1>3, <1>7 DEF t

(* Nothing there, nothing toggled.                                         *)
LEMMA EmptyFlips ==
  ASSUME NEW F, NEW x, NEW y
  PROVE  /\ Flips(<<>>, F, x, y) => x = y
         /\ x \in {0, 1} => Flips(<<>>, F, x, x)
<1>1. Len(<<>>) = 0 /\ DOMAIN <<>> = {} OBVIOUS
<1>2. Flips(<<>>, F, x, y) => x = y BY <1>1 DEF Flips
<1>3. ASSUME x \in {0, 1} PROVE Flips(<<>>, F, x, x)
  <2> DEFINE v == [i \in 1 .. 1 |-> x]
  <2>1. /\ v \in [1 .. Len(<<>>) + 1 -> {0, 1}]
        /\ v[1] = x /\ v[Len(<<>>) + 1] = x
    BY <1>1, <1>3
  <2> HIDE DEF v
  <2> QED BY <1>1, <2>1 DEF Flips
<1> QED BY <1>2, <1>3

-----------------------------------------------------------------------------
(* The flags and the keys.  As long as the driver is shown every key as it *)
(* is, the flags become what the keys ask for when all that is on its way  *)
(* has been handled, one toggle at a time.  Two things would break this,   *)
(* and the driver does not survive either unseen: a second press of a key  *)
(* that the driver waits for, which the wait for the first will swallow,   *)
(* and a press that is already there to be swallowed.                      *)

Toggling == Shifts \cup Locks

PressOf(code) == From("keyboard", Make(code))
ReleaseOf(code) == From("keyboard", Break(code))
PrefixEntry == From("keyboard", Prefix)

Doomed(b, place) ==
  \E c \in Toggling :
    Twice(b, PressOf(c)) \/ (place # "idle" /\ Has(b, PressOf(c)))

Bit(u) == IF u THEN 1 ELSE 0
Parity(keys) == Cardinality(keys) % 2

UpperFlips ==
  {PressOf(c) : c \in Shifts \cup {"caps_lock"}}
    \cup {ReleaseOf(c) : c \in Shifts}

(* What each flag is, with the toggle that a wait will end in, and what it *)
(* ought to be.                                                            *)
UpperNow ==
  IF at \in {"shift", "caps_lock"} THEN 1 - Bit(Uppercase) ELSE Bit(Uppercase)
NumNow == IF at = "num_lock" THEN 1 - Bit(NumLock) ELSE Bit(NumLock)
MediaNow == Bit(MediaKey)

UpperDue ==
  IF "caps_lock" \in toggled THEN 1 - Parity(Held(Shifts))
                             ELSE Parity(Held(Shifts))
NumDue == IF "num_lock" \in toggled THEN 1 ELSE 0
MediaDue == Parity({k \in down : k.extended})

Foreseen ==
  /\ Flips(buffer, UpperFlips, UpperNow, UpperDue)
  /\ Flips(buffer, {PressOf("num_lock")}, NumNow, NumDue)
  /\ Flips(buffer, {PrefixEntry}, MediaNow, MediaDue)

(* A lock key that is down has not been let go: its press is on its way or *)
(* the driver waits for its release, and no release of it is the last.     *)
LocksSeen ==
  \A k \in down : k.code \in Locks =>
    /\ Has(buffer, PressOf(k.code)) \/ at = k.code
    /\ Renewed(buffer, ReleaseOf(k.code), PressOf(k.code))
    /\ \A l \in down : l.code = k.code => l = k

(* A shift key repeats only while its press keeps the driver busy.         *)
ShiftRepeats ==
  repeating # NoKey /\ ~repeating.extended /\ repeating.code \in Shifts =>
    Has(buffer, PressOf(repeating.code)) \/ at = "shift"

Good == toggled # Unseen /\ ~Doomed(buffer, at)
Follow == Good => Foreseen /\ LocksSeen /\ ShiftRepeats

FInv ==
  /\ KInv
  /\ toggled # Unseen => ~mistaken
  /\ mode = "off" => repeating = NoKey
  /\ Follow

(* Which entries toggle what.                                              *)
LEMMA WhatToggles ==
  /\ \A c \in KeyCodes :
       /\ PressOf(c) \in UpperFlips <=> c \in Shifts \cup {"caps_lock"}
       /\ ReleaseOf(c) \in UpperFlips <=> c \in Shifts
       /\ PressOf(c) = PressOf("num_lock") <=> c = "num_lock"
       /\ ReleaseOf(c) # PressOf("num_lock")
       /\ PressOf(c) # PrefixEntry /\ ReleaseOf(c) # PrefixEntry
  /\ PrefixEntry \notin UpperFlips /\ PrefixEntry # PressOf("num_lock")
  /\ \A e : e.from = "mouse" \/ e.byte = Ack =>
       e \notin UpperFlips /\ e # PressOf("num_lock") /\ e # PrefixEntry
<1>1. ASSUME NEW c
      PROVE  /\ PressOf(c).from = "keyboard" /\ ReleaseOf(c).from = "keyboard"
             /\ PressOf(c).byte.kind = "make" /\ PressOf(c).byte.code = c
             /\ ReleaseOf(c).byte.kind = "break" /\ ReleaseOf(c).byte.code = c
  BY DEF PressOf, ReleaseOf, From, Make, Break
<1>2. PrefixEntry.from = "keyboard" /\ PrefixEntry.byte.kind = "prefix"
  BY DEF PrefixEntry, From, Prefix
<1>3. Ack.kind = "ack" BY DEF Ack
<1>4. \A e \in UpperFlips :
        \/ \E c \in Shifts \cup {"caps_lock"} : e = PressOf(c)
        \/ \E c \in Shifts : e = ReleaseOf(c)
  BY DEF UpperFlips
<1>5. \A e \in UpperFlips :
        /\ e.from = "keyboard" /\ e.byte.kind \in {"make", "break"}
        /\ e.byte.kind = "make" => e.byte.code \in Shifts \cup {"caps_lock"}
        /\ e.byte.kind = "break" => e.byte.code \in Shifts
  <2> SUFFICES ASSUME NEW e \in UpperFlips
               PROVE  /\ e.from = "keyboard"
                      /\ e.byte.kind \in {"make", "break"}
                      /\ e.byte.kind = "make" =>
                           e.byte.code \in Shifts \cup {"caps_lock"}
                      /\ e.byte.kind = "break" => e.byte.code \in Shifts
    OBVIOUS
  <2>1. ASSUME NEW c \in Shifts \cup {"caps_lock"}, e = PressOf(c)
        PROVE  /\ e.from = "keyboard" /\ e.byte.kind = "make"
               /\ e.byte.code \in Shifts \cup {"caps_lock"}
    BY <1>1, <2>1
  <2>2. ASSUME NEW c \in Shifts, e = ReleaseOf(c)
        PROVE  /\ e.from = "keyboard" /\ e.byte.kind = "break"
               /\ e.byte.code \in Shifts
    BY <1>1, <2>2
  <2> QED BY <1>4, <2>1, <2>2
<1>6. ASSUME NEW c
      PROVE  /\ PressOf(c) \in UpperFlips <=> c \in Shifts \cup {"caps_lock"}
             /\ ReleaseOf(c) \in UpperFlips <=> c \in Shifts
  <2>1. c \in Shifts \cup {"caps_lock"} => PressOf(c) \in UpperFlips
    BY DEF UpperFlips
  <2>2. c \in Shifts => ReleaseOf(c) \in UpperFlips BY DEF UpperFlips
  <2>3. PressOf(c) \in UpperFlips => c \in Shifts \cup {"caps_lock"}
    BY <1>1, <1>5
  <2>4. ReleaseOf(c) \in UpperFlips => c \in Shifts
    <3>1. ReleaseOf(c).byte.kind = "break" /\ ReleaseOf(c).byte.code = c
      BY <1>1
    <3> QED BY <1>5, <3>1
  <2> QED BY <2>1, <2>2, <2>3, <2>4
<1>7. ASSUME NEW c
      PROVE  /\ PressOf(c) = PressOf("num_lock") <=> c = "num_lock"
             /\ ReleaseOf(c) # PressOf("num_lock")
             /\ PressOf(c) # PrefixEntry /\ ReleaseOf(c) # PrefixEntry
  <2>1. /\ PressOf("num_lock").byte.kind = "make"
        /\ PressOf("num_lock").byte.code = "num_lock"
    BY <1>1
  <2>2. /\ PressOf(c).byte.kind = "make" /\ PressOf(c).byte.code = c
        /\ ReleaseOf(c).byte.kind = "break"
    BY <1>1
  <2>3. c = "num_lock" => PressOf(c) = PressOf("num_lock") OBVIOUS
  <2>4. PressOf(c) = PressOf("num_lock") => c = "num_lock" BY <2>1, <2>2
  <2>5. ReleaseOf(c) # PressOf("num_lock") BY <2>1, <2>2
  <2>6. PressOf(c) # PrefixEntry /\ ReleaseOf(c) # PrefixEntry BY <1>2, <2>2
  <2> QED BY <2>3, <2>4, <2>5, <2>6
<1>8. PrefixEntry \notin UpperFlips /\ PrefixEntry # PressOf("num_lock")
  BY <1>2, <1>5, <1>7
<1>9. ASSUME NEW e, e.from = "mouse" \/ e.byte = Ack
      PROVE  e \notin UpperFlips /\ e # PressOf("num_lock") /\ e # PrefixEntry
  <2>1. PressOf("num_lock").from = "keyboard"
        /\ PressOf("num_lock").byte.kind = "make"
    BY <1>1
  <2> QED BY <1>2, <1>3, <1>5, <1>9, <2>1
<1> QED BY <1>6, <1>7, <1>8, <1>9

(* Presses and releases are entries, each code its own.                    *)
LEMMA Toggles ==
  /\ PrefixEntry \in Entries
  /\ \A c \in KeyCodes : PressOf(c) \in Entries /\ ReleaseOf(c) \in Entries
  /\ \A c, d \in KeyCodes : PressOf(c) = PressOf(d) => c = d
  /\ \A c, d \in KeyCodes : ReleaseOf(c) = ReleaseOf(d) => c = d
  /\ \A c, d \in KeyCodes : PressOf(c) # ReleaseOf(d)
  /\ \A c \in KeyCodes : PressOf(c) # PrefixEntry /\ ReleaseOf(c) # PrefixEntry
  /\ Toggling \subseteq KeyCodes
  /\ Shifts \cap Locks = {} /\ Locks \cap {"idle", "shift", "leds"} = {}
<1>1. ASSUME NEW c \in KeyCodes
      PROVE  PressOf(c) \in Entries /\ ReleaseOf(c) \in Entries
  BY DEF PressOf, ReleaseOf, From, Make, Break, Entries, Codes
<1>2. PrefixEntry \in Entries BY DEF PrefixEntry, From, Entries, Codes
<1>3. Toggling \subseteq KeyCodes BY DEF Toggling, KeyCodes
<1>4. Shifts \cap Locks = {} /\ Locks \cap {"idle", "shift", "leds"} = {}
  BY DEF Shifts, Locks
<1> QED
  BY <1>1, <1>2, <1>3, <1>4
     DEF PressOf, ReleaseOf, PrefixEntry, From, Make, Break, Prefix

(* One key more or less inverts a parity.                                  *)
LEMMA ParityChanges ==
  ASSUME NEW S, IsFiniteSet(S), NEW k
  PROVE  /\ Parity(S) \in {0, 1}
         /\ k \notin S => Parity(S \cup {k}) = 1 - Parity(S)
         /\ k \in S => Parity(S \ {k}) = 1 - Parity(S)
<1>1. Cardinality(S) \in Nat BY FS_CardinalityType
<1>2. ASSUME NEW n \in Nat
      PROVE  n % 2 \in {0, 1} /\ (n + 1) % 2 = 1 - (n % 2)
  BY <1>2
<1>3. Parity(S) \in {0, 1} BY <1>1, <1>2 DEF Parity
<1>4. k \notin S => Parity(S \cup {k}) = 1 - Parity(S)
  BY <1>1, <1>2, FS_AddElement DEF Parity
<1>5. ASSUME k \in S PROVE Parity(S \ {k}) = 1 - Parity(S)
  <2>1. Cardinality(S \ {k}) = Cardinality(S) - 1 /\ IsFiniteSet(S \ {k})
    BY <1>5, FS_RemoveElement
  <2>2. Cardinality(S \ {k}) \in Nat BY <2>1, FS_CardinalityType
  <2>3. Cardinality(S) = Cardinality(S \ {k}) + 1 BY <1>1, <2>1, <2>2
  <2>4. Parity(S) = 1 - Parity(S \ {k}) BY <1>2, <2>2, <2>3 DEF Parity
  <2>5. Parity(S \ {k}) \in {0, 1} BY <1>2, <2>2 DEF Parity
  <2> QED BY <2>4, <2>5
<1> QED BY <1>3, <1>4, <1>5

(* A key's code behind the rest.                                           *)
LEMMA KeySent ==
  ASSUME Types, NEW k \in Keys, NEW a,
         From("keyboard", a) \in Entries \ {PrefixEntry},
         Send("keyboard", Bytes(k, a))
  PROVE  LET e == From("keyboard", a)
         IN  /\ \A m \in Entries \ {PrefixEntry} :
                  /\ Has(buffer', m) <=> Has(buffer, m) \/ e = m
                  /\ Twice(buffer', m) <=>
                       Twice(buffer, m) \/ (Has(buffer, m) /\ e = m)
             /\ \A r, m \in Entries \ {PrefixEntry} :
                  e # r /\ (Renewed(buffer, r, m) \/ e = m) =>
                    Renewed(buffer', r, m)
             /\ \A F, x, y : PrefixEntry \notin F /\ Flips(buffer, F, x, y) =>
                  Flips(buffer', F, x, IF e \in F THEN 1 - y ELSE y)
             /\ \A x, y : Flips(buffer, {PrefixEntry}, x, y) =>
                  Flips(buffer', {PrefixEntry}, x,
                        IF k.extended THEN 1 - y ELSE y)
<1> DEFINE e == From("keyboard", a)
           b == IF k.extended THEN Append(buffer, PrefixEntry) ELSE buffer
<1>1. buffer \in Seq(Entries) /\ PrefixEntry \in Entries
  BY Toggles DEF Types, ControllerTypes
<1>2. b \in Seq(Entries) /\ buffer' = Append(b, e)
  BY <1>1, SentKey DEF PrefixEntry
<1>3. \A m \in Entries \ {PrefixEntry} :
        (Has(b, m) <=> Has(buffer, m)) /\ (Twice(b, m) <=> Twice(buffer, m))
  BY <1>1, AppendHas
<1>4. \A r, m \in Entries \ {PrefixEntry} :
        Renewed(buffer, r, m) => Renewed(b, r, m)
  BY <1>1, AppendRenewed
<1>5. \A F, x, y : PrefixEntry \notin F /\ Flips(buffer, F, x, y) =>
        Flips(b, F, x, y)
  BY <1>1, AppendFlips
<1>6. \A x, y : Flips(buffer, {PrefixEntry}, x, y) =>
        Flips(b, {PrefixEntry}, x, IF k.extended THEN 1 - y ELSE y)
  BY <1>1, AppendFlips
<1> HIDE DEF b
<1>7. e \in Entries \ {PrefixEntry} OBVIOUS
<1> HIDE DEF e
<1>8. \A m \in Entries \ {PrefixEntry} :
        /\ Has(buffer', m) <=> Has(buffer, m) \/ e = m
        /\ Twice(buffer', m) <=> Twice(buffer, m) \/ (Has(buffer, m) /\ e = m)
  BY <1>2, <1>3, <1>7, AppendHas
<1>9. \A r, m \in Entries \ {PrefixEntry} :
        e # r /\ (Renewed(buffer, r, m) \/ e = m) => Renewed(buffer', r, m)
  BY <1>2, <1>4, <1>7, AppendRenewed
<1>10. \A F, x, y : PrefixEntry \notin F /\ Flips(buffer, F, x, y) =>
         Flips(buffer', F, x, IF e \in F THEN 1 - y ELSE y)
  BY <1>2, <1>5, <1>7, AppendFlips
<1>11. \A x, y : Flips(buffer, {PrefixEntry}, x, y) =>
         Flips(buffer', {PrefixEntry}, x, IF k.extended THEN 1 - y ELSE y)
  <2> SUFFICES ASSUME NEW x, NEW y, Flips(buffer, {PrefixEntry}, x, y)
               PROVE  Flips(buffer', {PrefixEntry}, x,
                            IF k.extended THEN 1 - y ELSE y)
    OBVIOUS
  <2> DEFINE z == IF k.extended THEN 1 - y ELSE y
  <2>1. Flips(b, {PrefixEntry}, x, z) BY <1>6
  <2> HIDE DEF z
  <2>2. e \notin {PrefixEntry} BY <1>7
  <2>3. Flips(Append(b, e), {PrefixEntry}, x, z)
    BY <1>2, <1>7, <2>1, <2>2, AppendFlips
  <2> QED BY <1>2, <2>3 DEF z
<1> QED BY <1>8, <1>9, <1>10, <1>11 DEF e

(* What another press or release does to what is foreseen.                 *)
LEMMA KeyForeseen ==
  ASSUME Types, NEW k \in Keys, NEW a,
         From("keyboard", a) \in {PressOf(k.code), ReleaseOf(k.code)},
         Send("keyboard", Bytes(k, a)), Foreseen,
         UNCHANGED <<flags, at>>,
         UpperDue' = IF From("keyboard", a) \in UpperFlips THEN 1 - UpperDue
                     ELSE UpperDue,
         NumDue' = IF From("keyboard", a) = PressOf("num_lock") THEN 1 - NumDue
                   ELSE NumDue,
         MediaDue' = IF k.extended THEN 1 - MediaDue ELSE MediaDue
  PROVE  Foreseen'
<1> DEFINE e == From("keyboard", a)
<1>1. e \in Entries \ {PrefixEntry}
  <2>1. k.code \in KeyCodes BY CodesOfKey
  <2>2. /\ PressOf(k.code) \in Entries /\ ReleaseOf(k.code) \in Entries
        /\ PressOf(k.code) # PrefixEntry /\ ReleaseOf(k.code) # PrefixEntry
    BY <2>1, Toggles
  <2>3. e = PressOf(k.code) \/ e = ReleaseOf(k.code) OBVIOUS
  <2> HIDE DEF e
  <2> QED BY <2>2, <2>3
<1>2. /\ \A F, x, y : PrefixEntry \notin F /\ Flips(buffer, F, x, y) =>
           Flips(buffer', F, x, IF e \in F THEN 1 - y ELSE y)
      /\ \A x, y : Flips(buffer, {PrefixEntry}, x, y) =>
           Flips(buffer', {PrefixEntry}, x, IF k.extended THEN 1 - y ELSE y)
  BY <1>1, KeySent
<1>3. /\ UpperNow' = UpperNow /\ NumNow' = NumNow /\ MediaNow' = MediaNow
      /\ UpperFlips' = UpperFlips
  BY DEF UpperNow, NumNow, MediaNow, flags
<1>4. Flips(buffer', UpperFlips, UpperNow,
            IF e \in UpperFlips THEN 1 - UpperDue ELSE UpperDue)
  BY <1>2, WhatToggles DEF Foreseen
<1>5. Flips(buffer', {PressOf("num_lock")}, NumNow,
            IF e \in {PressOf("num_lock")} THEN 1 - NumDue ELSE NumDue)
  BY <1>2, WhatToggles DEF Foreseen
<1>6. Flips(buffer', {PrefixEntry}, MediaNow,
            IF k.extended THEN 1 - MediaDue ELSE MediaDue)
  BY <1>2 DEF Foreseen
<1> HIDE DEF e
<1> QED BY <1>3, <1>4, <1>5, <1>6 DEF Foreseen, e

(* What a key adds does not undo what has been there.                      *)
LEMMA KeyKeeps ==
  ASSUME Types, NEW k \in Keys, NEW a,
         From("keyboard", a) \in {PressOf(k.code), ReleaseOf(k.code)},
         Send("keyboard", Bytes(k, a))
  PROVE  /\ \A c \in KeyCodes :
              /\ Has(buffer', PressOf(c)) <=>
                   Has(buffer, PressOf(c)) \/ From("keyboard", a) = PressOf(c)
              /\ Twice(buffer', PressOf(c)) <=>
                   \/ Twice(buffer, PressOf(c))
                   \/ /\ Has(buffer, PressOf(c))
                      /\ From("keyboard", a) = PressOf(c)
         /\ \A c \in KeyCodes :
              /\ From("keyboard", a) # ReleaseOf(c)
              /\ \/ Renewed(buffer, ReleaseOf(c), PressOf(c))
                 \/ From("keyboard", a) = PressOf(c)
              => Renewed(buffer', ReleaseOf(c), PressOf(c))
         /\ Doomed(buffer, at) /\ at' = at => Doomed(buffer', at')
<1> DEFINE e == From("keyboard", a)
<1>1. e \in Entries \ {PrefixEntry} BY CodesOfKey, Toggles
<1>2. \A c \in KeyCodes : /\ PressOf(c) \in Entries \ {PrefixEntry}
                          /\ ReleaseOf(c) \in Entries \ {PrefixEntry}
  BY Toggles
<1>3. /\ \A m \in Entries \ {PrefixEntry} :
           /\ Has(buffer', m) <=> Has(buffer, m) \/ e = m
           /\ Twice(buffer', m) <=>
                Twice(buffer, m) \/ (Has(buffer, m) /\ e = m)
      /\ \A r, m \in Entries \ {PrefixEntry} :
           e # r /\ (Renewed(buffer, r, m) \/ e = m) => Renewed(buffer', r, m)
  BY <1>1, KeySent
<1>4. \A c \in KeyCodes :
        /\ Has(buffer', PressOf(c)) <=>
             Has(buffer, PressOf(c)) \/ e = PressOf(c)
        /\ Twice(buffer', PressOf(c)) <=>
             \/ Twice(buffer, PressOf(c))
             \/ Has(buffer, PressOf(c)) /\ e = PressOf(c)
  BY <1>2, <1>3
<1>5. \A c \in KeyCodes :
        /\ e # ReleaseOf(c)
        /\ Renewed(buffer, ReleaseOf(c), PressOf(c)) \/ e = PressOf(c)
        => Renewed(buffer', ReleaseOf(c), PressOf(c))
  BY <1>2, <1>3
<1>6. Doomed(buffer, at) /\ at' = at => Doomed(buffer', at')
  BY <1>4, Toggles DEF Doomed
<1> QED BY <1>4, <1>5, <1>6

(* A parity of held keys when one is pressed or let go.                    *)
LEMMA HeldChanges ==
  ASSUME Types, NEW k \in Keys, NEW C
  PROVE  /\ Parity({j \in down : j.code \in C}) \in {0, 1}
         /\ k \notin down /\ down' = down \cup {k} =>
              /\ Parity({j \in down' : j.code \in C})
                   = IF k.code \in C
                     THEN 1 - Parity({j \in down : j.code \in C})
                     ELSE Parity({j \in down : j.code \in C})
              /\ MediaDue' = IF k.extended THEN 1 - MediaDue ELSE MediaDue
         /\ k \in down /\ down' = down \ {k} =>
              /\ Parity({j \in down' : j.code \in C})
                   = IF k.code \in C
                     THEN 1 - Parity({j \in down : j.code \in C})
                     ELSE Parity({j \in down : j.code \in C})
              /\ MediaDue' = IF k.extended THEN 1 - MediaDue ELSE MediaDue
<1> DEFINE H == {j \in down : j.code \in C}
           X == {j \in down : j.extended}
<1>1. IsFiniteSet(H) /\ IsFiniteSet(X)
  BY FS_Subset DEF Types, DeviceTypes
<1>2. CASE k \notin down /\ down' = down \cup {k}
  <2>1. /\ k \notin H /\ k \notin X
        /\ k.code \in C => {j \in down' : j.code \in C} = H \cup {k}
        /\ k.code \notin C => {j \in down' : j.code \in C} = H
        /\ k.extended => {j \in down' : j.extended} = X \cup {k}
        /\ ~k.extended => {j \in down' : j.extended} = X
    BY <1>2
  <2> QED BY <1>1, <1>2, <2>1, ParityChanges DEF MediaDue
<1>3. CASE k \in down /\ down' = down \ {k}
  <2>1. /\ k.code \in C =>
             k \in H /\ {j \in down' : j.code \in C} = H \ {k}
        /\ k.code \notin C => {j \in down' : j.code \in C} = H
        /\ k.extended => k \in X /\ {j \in down' : j.extended} = X \ {k}
        /\ ~k.extended => {j \in down' : j.extended} = X
    BY <1>3
  <2> QED BY <1>1, <1>3, <2>1, ParityChanges DEF MediaDue
<1> QED BY <1>1, <1>2, <1>3, ParityChanges

(* A press adds its toggle to what is due and to what is on its way.       *)
LEMMA PressFollows ==
  ASSUME FInv, NEW k \in Keys, Press(k)
  PROVE  Follow'
<1> SUFFICES ASSUME Good' PROVE Foreseen' /\ LocksSeen' /\ ShiftRepeats'
  BY DEF Follow
<1> DEFINE e == PressOf(k.code)
<1>1. Types /\ k.code \in KeyCodes BY CodesOfKey DEF FInv, KInv
<1>2. /\ toggled # Unseen /\ toggled \in SUBSET Locks
      /\ Send("keyboard", Bytes(k, Make(k.code)))
      /\ toggled' = SymDiff(toggled, Locks \cap {k.code})
      /\ UNCHANGED <<flags, at>>
      /\ k \notin down /\ down' = down \cup {k} /\ repeating' = k
  BY <1>1 DEF Good, Press, Report, Shown, Types, DriverTypes
<1>3. e = From("keyboard", Make(k.code)) BY DEF PressOf
<1>4. Good
  BY <1>1, <1>2, <1>3, KeyKeeps DEF Good
<1>5. Foreseen /\ LocksSeen /\ ShiftRepeats BY <1>4 DEF FInv, Follow
<1>6. /\ \A c \in KeyCodes :
           /\ Has(buffer', PressOf(c)) <=>
                Has(buffer, PressOf(c)) \/ e = PressOf(c)
           /\ Twice(buffer', PressOf(c)) <=>
                \/ Twice(buffer, PressOf(c))
                \/ Has(buffer, PressOf(c)) /\ e = PressOf(c)
      /\ \A c \in KeyCodes :
           /\ e # ReleaseOf(c)
           /\ \/ Renewed(buffer, ReleaseOf(c), PressOf(c))
              \/ e = PressOf(c)
           => Renewed(buffer', ReleaseOf(c), PressOf(c))
  BY <1>1, <1>2, <1>3, KeyKeeps
<1>7. Foreseen'
  <2>1. UpperDue' = IF e \in UpperFlips THEN 1 - UpperDue ELSE UpperDue
    <3>1. /\ Parity(Held(Shifts)) \in {0, 1}
          /\ Parity(Held(Shifts)') = IF k.code \in Shifts
                                     THEN 1 - Parity(Held(Shifts))
                                     ELSE Parity(Held(Shifts))
      BY <1>1, <1>2, HeldChanges DEF Held
    <3>2. /\ k.code = "caps_lock" =>
               ("caps_lock" \in toggled' <=> "caps_lock" \notin toggled)
          /\ k.code # "caps_lock" =>
               ("caps_lock" \in toggled' <=> "caps_lock" \in toggled)
      BY <1>2 DEF SymDiff, Locks
    <3>3. e \in UpperFlips <=> k.code \in Shifts \cup {"caps_lock"}
      BY <1>1, <1>3, WhatToggles
    <3>4. "caps_lock" \notin Shifts BY DEF Shifts
    <3>5. Parity(Held(Shifts))' = Parity(Held(Shifts)') BY DEF Parity
    <3> HIDE DEF e
    <3>9. 1 - (1 - Parity(Held(Shifts))) = Parity(Held(Shifts)) BY <3>1
    <3>6. CASE k.code \in Shifts
      BY <3>1, <3>2, <3>3, <3>4, <3>5, <3>6 DEF UpperDue
    <3>7. CASE k.code = "caps_lock"
      BY <3>1, <3>2, <3>3, <3>4, <3>5, <3>7, <3>9 DEF UpperDue
    <3>8. CASE k.code \notin Shifts \cup {"caps_lock"}
      BY <3>1, <3>2, <3>3, <3>5, <3>8 DEF UpperDue
    <3> QED BY <3>6, <3>7, <3>8
  <2>2. NumDue' = IF e = PressOf("num_lock") THEN 1 - NumDue ELSE NumDue
    <3>1. /\ k.code = "num_lock" =>
               ("num_lock" \in toggled' <=> "num_lock" \notin toggled)
          /\ k.code # "num_lock" =>
               ("num_lock" \in toggled' <=> "num_lock" \in toggled)
      BY <1>2 DEF SymDiff, Locks
    <3>2. e = PressOf("num_lock") <=> k.code = "num_lock"
      BY <1>1, <1>3, WhatToggles
    <3>3. k.code = "num_lock" => NumDue' = 1 - NumDue BY <3>1 DEF NumDue
    <3>4. k.code # "num_lock" => NumDue' = NumDue BY <3>1 DEF NumDue
    <3> HIDE DEF e
    <3> QED BY <3>2, <3>3, <3>4, Zenon
  <2>3. MediaDue' = IF k.extended THEN 1 - MediaDue ELSE MediaDue
    BY <1>1, <1>2, HeldChanges
  <2>4. /\ From("keyboard", Make(k.code))
             \in {PressOf(k.code), ReleaseOf(k.code)}
        /\ UpperDue' = IF From("keyboard", Make(k.code)) \in UpperFlips
                       THEN 1 - UpperDue ELSE UpperDue
        /\ NumDue' = IF From("keyboard", Make(k.code)) = PressOf("num_lock")
                     THEN 1 - NumDue ELSE NumDue
    BY <1>3, <2>1, <2>2
  <2> QED BY <1>1, <1>2, <1>5, <2>3, <2>4, KeyForeseen
<1>8. ASSUME k.code \in Locks, NEW j \in down, j.code = k.code PROVE FALSE
  <2>1. Has(buffer, e) \/ at = k.code BY <1>5, <1>8 DEF LocksSeen
  <2>2. Has(buffer', e) /\ (Has(buffer, e) => Twice(buffer', e))
    BY <1>1, <1>6
  <2>3. k.code \in Toggling /\ k.code # "idle"
    BY <1>8, Toggles DEF Toggling
  <2>4. Doomed(buffer', at') BY <1>2, <2>1, <2>2, <2>3 DEF Doomed
  <2> QED BY <2>4 DEF Good
<1>9. LocksSeen'
  <2> SUFFICES ASSUME NEW j \in down', j.code \in Locks
               PROVE  /\ Has(buffer', PressOf(j.code)) \/ at' = j.code
                      /\ Renewed(buffer', ReleaseOf(j.code), PressOf(j.code))
                      /\ \A l \in down' : l.code = j.code => l = j
    BY DEF LocksSeen
  <2>1. j \in Keys /\ j.code \in KeyCodes
    BY <1>1, <1>2, CodesOfKey DEF Types, DeviceTypes
  <2>2. e # ReleaseOf(j.code) BY <1>1, <1>3, <2>1, Toggles
  <2>3. CASE j = k
    <3>1. Has(buffer', PressOf(j.code))
          /\ Renewed(buffer', ReleaseOf(j.code), PressOf(j.code))
      BY <1>6, <2>1, <2>2, <2>3
    <3> QED BY <1>2, <1>8, <2>3, <3>1
  <2>4. CASE j # k
    <3>1. j \in down BY <1>2, <2>4
    <3>2. /\ Has(buffer, PressOf(j.code)) \/ at = j.code
          /\ Renewed(buffer, ReleaseOf(j.code), PressOf(j.code))
          /\ \A l \in down : l.code = j.code => l = j
      BY <1>5, <3>1 DEF LocksSeen
    <3>3. k.code # j.code BY <1>8, <3>1
    <3> QED BY <1>2, <1>6, <2>1, <2>2, <3>2, <3>3
  <2> QED BY <2>3, <2>4
<1>10. ShiftRepeats' BY <1>1, <1>2, <1>6 DEF ShiftRepeats
<1> QED BY <1>7, <1>9, <1>10

(* So does a release.                                                      *)
LEMMA ReleaseFollows ==
  ASSUME FInv, NEW k \in Keys, Release(k)
  PROVE  Follow'
<1> SUFFICES ASSUME Good' PROVE Foreseen' /\ LocksSeen' /\ ShiftRepeats'
  BY DEF Follow
<1> DEFINE e == ReleaseOf(k.code)
<1>1. Types /\ k.code \in KeyCodes BY CodesOfKey DEF FInv, KInv
<1>2. /\ toggled # Unseen /\ toggled' = toggled
      /\ Send("keyboard", Bytes(k, Break(k.code)))
      /\ UNCHANGED <<flags, at>>
      /\ k \in down /\ down' = down \ {k} /\ repeating' \in {repeating, NoKey}
  BY <1>1 DEF Good, Release, Report, Shown
<1>3. e = From("keyboard", Break(k.code)) BY DEF ReleaseOf
<1>4. Good
  BY <1>1, <1>2, <1>3, KeyKeeps DEF Good
<1>5. Foreseen /\ LocksSeen /\ ShiftRepeats BY <1>4 DEF FInv, Follow
<1>6. /\ \A c \in KeyCodes :
           Has(buffer, PressOf(c)) => Has(buffer', PressOf(c))
      /\ \A c \in KeyCodes :
           /\ e # ReleaseOf(c)
           /\ Renewed(buffer, ReleaseOf(c), PressOf(c))
           => Renewed(buffer', ReleaseOf(c), PressOf(c))
  BY <1>1, <1>2, <1>3, KeyKeeps
<1>7. Foreseen'
  <2>1. UpperDue' = IF e \in UpperFlips THEN 1 - UpperDue ELSE UpperDue
    <3>1. /\ Parity(Held(Shifts)) \in {0, 1}
          /\ Parity(Held(Shifts)') = IF k.code \in Shifts
                                     THEN 1 - Parity(Held(Shifts))
                                     ELSE Parity(Held(Shifts))
      BY <1>1, <1>2, HeldChanges DEF Held
    <3>2. e \in UpperFlips <=> k.code \in Shifts BY <1>1, <1>3, WhatToggles
    <3>3. Parity(Held(Shifts))' = Parity(Held(Shifts)') BY DEF Parity
    <3> QED BY <1>2, <3>1, <3>2, <3>3 DEF UpperDue
  <2>2. NumDue' = IF e = PressOf("num_lock") THEN 1 - NumDue ELSE NumDue
    BY <1>1, <1>2, <1>3, WhatToggles DEF NumDue
  <2>3. MediaDue' = IF k.extended THEN 1 - MediaDue ELSE MediaDue
    BY <1>1, <1>2, HeldChanges
  <2>4. /\ From("keyboard", Break(k.code))
             \in {PressOf(k.code), ReleaseOf(k.code)}
        /\ UpperDue' = IF From("keyboard", Break(k.code)) \in UpperFlips
                       THEN 1 - UpperDue ELSE UpperDue
        /\ NumDue' = IF From("keyboard", Break(k.code)) = PressOf("num_lock")
                     THEN 1 - NumDue ELSE NumDue
    BY <1>3, <2>1, <2>2
  <2> QED BY <1>1, <1>2, <1>5, <2>3, <2>4, KeyForeseen
<1>8. LocksSeen'
  <2> SUFFICES ASSUME NEW j \in down', j.code \in Locks
               PROVE  /\ Has(buffer', PressOf(j.code)) \/ at' = j.code
                      /\ Renewed(buffer', ReleaseOf(j.code), PressOf(j.code))
                      /\ \A l \in down' : l.code = j.code => l = j
    BY DEF LocksSeen
  <2>1. j \in down /\ j # k BY <1>2
  <2>2. j.code \in KeyCodes
    BY <1>1, <2>1, CodesOfKey DEF Types, DeviceTypes
  <2>3. /\ Has(buffer, PressOf(j.code)) \/ at = j.code
        /\ Renewed(buffer, ReleaseOf(j.code), PressOf(j.code))
        /\ \A l \in down : l.code = j.code => l = j
    BY <1>5, <2>1 DEF LocksSeen
  <2>4. e # ReleaseOf(j.code)
    BY <1>1, <1>2, <1>3, <2>1, <2>2, <2>3, Toggles
  <2> QED BY <1>2, <1>6, <2>2, <2>3, <2>4
<1>9. ShiftRepeats'
  BY <1>2, <1>5, <1>6, Toggles DEF ShiftRepeats, Toggling
<1> QED BY <1>7, <1>8, <1>9

(* A key that toggles repeats only where the second press is lost.         *)
LEMMA RepeatFollows == ASSUME FInv, Repeat PROVE Follow'
<1> SUFFICES ASSUME Good' PROVE Foreseen' /\ LocksSeen' /\ ShiftRepeats'
  BY DEF Follow
<1> DEFINE k == repeating
           e == PressOf(k.code)
<1>1. Types /\ k \in Keys
  BY DEF FInv, KInv, Types, DeviceTypes, Repeat
<1>2. /\ toggled # Unseen /\ toggled' = toggled /\ ~k.extended
      /\ Send("keyboard", Bytes(k, Make(k.code)))
      /\ UNCHANGED <<flags, at, down, repeating>> /\ k # NoKey
  BY DEF Good, Repeat, Shown, device
<1>3. k.code \in KeyCodes /\ k \in down
  BY <1>1, <1>2, CodesOfKey DEF Types, DeviceTypes
<1>4. e = From("keyboard", Make(k.code)) BY DEF PressOf
<1> HIDE DEF k
<1>5. Good BY <1>1, <1>2, <1>3, <1>4, KeyKeeps DEF Good
<1>6. Foreseen /\ LocksSeen /\ ShiftRepeats BY <1>5 DEF FInv, Follow
<1>7. /\ \A c \in KeyCodes :
           /\ Has(buffer', PressOf(c)) <=>
                Has(buffer, PressOf(c)) \/ e = PressOf(c)
           /\ Twice(buffer', PressOf(c)) <=>
                \/ Twice(buffer, PressOf(c))
                \/ Has(buffer, PressOf(c)) /\ e = PressOf(c)
      /\ \A c \in KeyCodes :
           /\ e # ReleaseOf(c)
           /\ \/ Renewed(buffer, ReleaseOf(c), PressOf(c))
              \/ e = PressOf(c)
           => Renewed(buffer', ReleaseOf(c), PressOf(c))
  BY <1>1, <1>2, <1>3, <1>4, KeyKeeps
<1>8. k.code \notin Toggling
  <2> SUFFICES ASSUME k.code \in Toggling PROVE FALSE OBVIOUS
  <2>1. Has(buffer, e) \/ at # "idle"
    <3>1. CASE k.code \in Locks
      BY <1>3, <1>6, <3>1, Toggles DEF LocksSeen
    <3>2. CASE k.code \in Shifts
      BY <1>2, <1>6, <3>2 DEF ShiftRepeats, k
    <3> QED BY <3>1, <3>2 DEF Toggling
  <2>2. Has(buffer', e) /\ (Has(buffer, e) => Twice(buffer', e))
    BY <1>3, <1>7
  <2>3. Doomed(buffer', at') BY <1>2, <2>1, <2>2 DEF Doomed
  <2> QED BY <2>3 DEF Good
<1>9. Foreseen'
  <2>1. UpperDue' = UpperDue /\ NumDue' = NumDue /\ MediaDue' = MediaDue
    BY <1>2 DEF UpperDue, NumDue, MediaDue, Held
  <2>2. e \notin UpperFlips /\ e # PressOf("num_lock")
    BY <1>3, <1>8, WhatToggles DEF Toggling, Locks
  <2>3. /\ From("keyboard", Make(k.code))
             \in {PressOf(k.code), ReleaseOf(k.code)}
        /\ UpperDue' = IF From("keyboard", Make(k.code)) \in UpperFlips
                       THEN 1 - UpperDue ELSE UpperDue
        /\ NumDue' = IF From("keyboard", Make(k.code)) = PressOf("num_lock")
                     THEN 1 - NumDue ELSE NumDue
        /\ MediaDue' = IF k.extended THEN 1 - MediaDue ELSE MediaDue
    BY <1>2, <1>4, <2>1, <2>2
  <2> QED BY <1>1, <1>2, <1>6, <2>3, KeyForeseen
<1>10. LocksSeen'
  <2> SUFFICES ASSUME NEW j \in down', j.code \in Locks
               PROVE  /\ Has(buffer', PressOf(j.code)) \/ at' = j.code
                      /\ Renewed(buffer', ReleaseOf(j.code), PressOf(j.code))
                      /\ \A l \in down' : l.code = j.code => l = j
    BY DEF LocksSeen
  <2>1. j \in down /\ j.code \in KeyCodes
    BY <1>1, <1>2, CodesOfKey DEF Types, DeviceTypes
  <2>2. /\ Has(buffer, PressOf(j.code)) \/ at = j.code
        /\ Renewed(buffer, ReleaseOf(j.code), PressOf(j.code))
        /\ \A l \in down : l.code = j.code => l = j
    BY <1>6, <2>1 DEF LocksSeen
  <2>3. e # ReleaseOf(j.code) BY <1>3, <2>1, Toggles
  <2> QED BY <1>2, <1>7, <2>1, <2>2, <2>3
<1>11. ShiftRepeats'
  BY <1>2, <1>3, <1>6, <1>7 DEF ShiftRepeats, k
<1> QED BY <1>9, <1>10, <1>11

(* Bytes of the mouse and answers toggle nothing.                          *)
Inert(e) == e.from = "mouse" \/ e.byte = Ack

(* They are none of the entries that toggle.                               *)
LEMMA InertEntries ==
  ASSUME NEW e, Inert(e)
  PROVE  /\ e \notin UpperFlips /\ e # PressOf("num_lock") /\ e # PrefixEntry
         /\ \A c : e # PressOf(c) /\ e # ReleaseOf(c)
<1>1. \A c : /\ PressOf(c).from = "keyboard" /\ ReleaseOf(c).from = "keyboard"
             /\ PressOf(c).byte.kind = "make"
             /\ ReleaseOf(c).byte.kind = "break"
  BY DEF PressOf, ReleaseOf, From, Make, Break
<1>2. Ack.kind = "ack" BY DEF Ack
<1> QED BY <1>1, <1>2, WhatToggles DEF Inert

(* What is foreseen stays when one is added,                               *)
LEMMA InertAdded ==
  ASSUME Types, Follow, NEW e \in Entries, Inert(e),
         buffer' = Append(buffer, e), UNCHANGED <<flags, at, down, toggled>>,
         repeating' \in {repeating, NoKey}
  PROVE  Follow'
<1> SUFFICES ASSUME Good' PROVE Foreseen' /\ LocksSeen' /\ ShiftRepeats'
  BY DEF Follow
<1>1. buffer \in Seq(Entries) BY DEF Types, ControllerTypes
<1>2. \A c : e # PressOf(c) /\ e # ReleaseOf(c) BY InertEntries
<1>3. \A c : /\ Has(buffer', PressOf(c)) <=> Has(buffer, PressOf(c))
             /\ Twice(buffer', PressOf(c)) <=> Twice(buffer, PressOf(c))
  BY <1>1, <1>2, AppendHas
<1>4. \A c : Renewed(buffer, ReleaseOf(c), PressOf(c)) =>
               Renewed(buffer', ReleaseOf(c), PressOf(c))
  BY <1>1, <1>2, AppendRenewed
<1>5. Good BY <1>3 DEF Good, Doomed
<1>6. Foreseen /\ LocksSeen /\ ShiftRepeats BY <1>5 DEF Follow
<1>7. Foreseen'
  <2>1. \A F, x, y : e \notin F /\ Flips(buffer, F, x, y) =>
          Flips(buffer', F, x, y)
    BY <1>1, AppendFlips
  <2>2. /\ UpperNow' = UpperNow /\ NumNow' = NumNow /\ MediaNow' = MediaNow
        /\ UpperDue' = UpperDue /\ NumDue' = NumDue /\ MediaDue' = MediaDue
    BY DEF UpperNow, NumNow, MediaNow, UpperDue, NumDue, MediaDue, Held, flags
  <2>3. /\ e \notin UpperFlips /\ e \notin {PressOf("num_lock")}
        /\ e \notin {PrefixEntry}
    BY InertEntries
  <2> QED BY <1>6, <2>1, <2>2, <2>3 DEF Foreseen
<1>8. LocksSeen' BY <1>3, <1>4, <1>6 DEF LocksSeen
<1>9. ShiftRepeats' BY <1>3, <1>6 DEF ShiftRepeats
<1> QED BY <1>7, <1>8, <1>9

(* The answer to a command toggles nothing.                                *)
LEMMA ObeyFollows == ASSUME FInv, Obey PROVE Follow'
<1> SUFFICES ASSUME toggled' # Unseen PROVE Follow' BY DEF Follow, Good
<1> DEFINE e == From("keyboard", Ack)
<1>1. Types /\ Follow BY DEF FInv, KInv
<1>2. toggled' = toggled /\ buffer' = Append(buffer, e)
  BY DEF Obey, Shown
<1>3. e \in Entries /\ Inert(e) BY DEF From, Entries, Codes, Inert
<1>4. UNCHANGED <<flags, at, down, toggled>>
      /\ repeating' \in {repeating, NoKey}
  BY <1>2 DEF Obey
<1> HIDE DEF e
<1> QED BY <1>1, <1>2, <1>3, <1>4, InertAdded

(* The head of the queue when it is taken.                                 *)
LEMMA HeadTaken ==
  ASSUME Types, buffer # <<>>, buffer' = Tail(buffer),
         UNCHANGED <<down, toggled>>
  PROVE  /\ \A c : /\ Has(buffer, PressOf(c)) <=>
                        Head(buffer) = PressOf(c) \/ Has(buffer', PressOf(c))
                   /\ Twice(buffer, PressOf(c)) <=>
                        \/ Twice(buffer', PressOf(c))
                        \/ /\ Head(buffer) = PressOf(c)
                           /\ Has(buffer', PressOf(c))
         /\ \A c : Renewed(buffer, ReleaseOf(c), PressOf(c)) =>
              /\ Renewed(buffer', ReleaseOf(c), PressOf(c))
              /\ Head(buffer) = ReleaseOf(c) => Has(buffer', PressOf(c))
         /\ /\ Foreseen
            /\ UpperNow' = IF Head(buffer) \in UpperFlips THEN 1 - UpperNow
                           ELSE UpperNow
            /\ NumNow' = IF Head(buffer) = PressOf("num_lock") THEN 1 - NumNow
                         ELSE NumNow
            /\ MediaNow' = IF Head(buffer) = PrefixEntry THEN 1 - MediaNow
                           ELSE MediaNow
            => Foreseen'
<1>1. buffer \in Seq(Entries) BY DEF Types, ControllerTypes
<1>2. UpperDue' = UpperDue /\ NumDue' = NumDue /\ MediaDue' = MediaDue
  BY DEF UpperDue, NumDue, MediaDue, Held
<1>3. \A F, x, y : Flips(buffer, F, x, y) =>
        Flips(buffer', F, IF Head(buffer) \in F THEN 1 - x ELSE x, y)
  BY <1>1, TailFlips
<1>4. ASSUME Foreseen,
             UpperNow' = IF Head(buffer) \in UpperFlips THEN 1 - UpperNow
                         ELSE UpperNow,
             NumNow' = IF Head(buffer) = PressOf("num_lock") THEN 1 - NumNow
                       ELSE NumNow,
             MediaNow' = IF Head(buffer) = PrefixEntry THEN 1 - MediaNow
                         ELSE MediaNow
      PROVE  Foreseen'
  <2>1. Flips(buffer', UpperFlips, UpperNow', UpperDue)
    BY <1>3, <1>4 DEF Foreseen
  <2>2. Flips(buffer', {PressOf("num_lock")},
              IF Head(buffer) \in {PressOf("num_lock")} THEN 1 - NumNow
              ELSE NumNow, NumDue)
    BY <1>3, <1>4 DEF Foreseen
  <2>3. Flips(buffer', {PrefixEntry},
              IF Head(buffer) \in {PrefixEntry} THEN 1 - MediaNow
              ELSE MediaNow, MediaDue)
    BY <1>3, <1>4 DEF Foreseen
  <2>4. Flips(buffer', {PressOf("num_lock")}, NumNow', NumDue)
        /\ Flips(buffer', {PrefixEntry}, MediaNow', MediaDue)
    BY <1>4, <2>2, <2>3
  <2> QED BY <1>2, <2>1, <2>4 DEF Foreseen
<1>5. \A c : /\ Has(buffer, PressOf(c)) <=>
                  Head(buffer) = PressOf(c) \/ Has(buffer', PressOf(c))
             /\ Twice(buffer, PressOf(c)) <=>
                  \/ Twice(buffer', PressOf(c))
                  \/ Head(buffer) = PressOf(c) /\ Has(buffer', PressOf(c))
  BY <1>1, TailHas
<1>6. \A c : Renewed(buffer, ReleaseOf(c), PressOf(c)) =>
        /\ Renewed(buffer', ReleaseOf(c), PressOf(c))
        /\ Head(buffer) = ReleaseOf(c) => Has(buffer', PressOf(c))
  BY <1>1, TailRenewed
<1> QED BY <1>4, <1>5, <1>6

(* ... and when one is taken.                                              *)
LEMMA InertTaken ==
  ASSUME Types, Follow, buffer # <<>>, Inert(Head(buffer)),
         buffer' = Tail(buffer),
         UNCHANGED <<flags, at, down, toggled, repeating>>
  PROVE  Follow'
<1> SUFFICES ASSUME Good' PROVE Foreseen' /\ LocksSeen' /\ ShiftRepeats'
  BY DEF Follow
<1>1. /\ Head(buffer) \notin UpperFlips /\ Head(buffer) # PressOf("num_lock")
      /\ Head(buffer) # PrefixEntry
      /\ \A c : Head(buffer) # PressOf(c)
  BY InertEntries
<1>2. /\ \A c : /\ Has(buffer, PressOf(c)) <=> Has(buffer', PressOf(c))
                /\ Twice(buffer, PressOf(c)) <=> Twice(buffer', PressOf(c))
      /\ \A c : Renewed(buffer, ReleaseOf(c), PressOf(c)) =>
                  Renewed(buffer', ReleaseOf(c), PressOf(c))
  BY <1>1, HeadTaken
<1>3. Good BY <1>2 DEF Good, Doomed
<1>4. Foreseen /\ LocksSeen /\ ShiftRepeats BY <1>3 DEF Follow
<1>5. UpperNow' = UpperNow /\ NumNow' = NumNow /\ MediaNow' = MediaNow
  BY DEF UpperNow, NumNow, MediaNow, flags
<1>6. Foreseen' BY <1>1, <1>4, <1>5, HeadTaken
<1>7. LocksSeen' BY <1>2, <1>4 DEF LocksSeen
<1>8. ShiftRepeats' BY <1>2, <1>4 DEF ShiftRepeats
<1> QED BY <1>6, <1>7, <1>8

(* Nothing of all this has changed.                                        *)
LEMMA FollowStays ==
  ASSUME Follow, UNCHANGED <<flags, at, buffer, down, toggled, repeating>>
  PROVE  Follow'
BY DEF Follow, Good, Foreseen, LocksSeen, ShiftRepeats, UpperNow, NumNow,
       MediaNow, UpperDue, NumDue, MediaDue, Held, flags

(* The mouse's bytes come and go.                                          *)
LEMMA MouseFollows ==
  ASSUME FInv, MouseHandles \/ \E byte \in MouseBytes : MouseSends(byte)
  PROVE  Follow'
<1>1. Types /\ Follow /\ buffer \in Seq(Entries)
  BY DEF FInv, KInv, Types, ControllerTypes
<1>2. UNCHANGED <<flags, at, down, toggled, repeating>>
  BY DEF MouseHandles, MouseSends, device, user
<1>3. CASE MouseHandles
  <2>1. CASE ReadsMouse
    <3>1. buffer # <<>> /\ buffer' = Tail(buffer) /\ Inert(Head(buffer))
      BY <1>3, <2>1 DEF MouseHandles, Read, ReadsMouse, OfMouse, Inert
    <3> QED BY <1>1, <1>2, <3>1, InertTaken
  <2>2. CASE ~ReadsMouse
    BY <1>1, <1>2, <1>3, <2>2, FollowStays DEF MouseHandles
  <2> QED BY <2>1, <2>2
<1>4. ASSUME NEW byte \in MouseBytes, MouseSends(byte) PROVE Follow'
  <2>1. Send("mouse", <<byte>>) BY <1>4 DEF MouseSends
  <2>2. From("mouse", byte) \in Entries
    BY KeyboardAssumption DEF From, Entries, Codes, Ack
  <2>3. Inert(From("mouse", byte)) BY DEF From, Inert
  <2>4. buffer' = Append(buffer, From("mouse", byte))
    BY <1>1, <2>1, SentOne
  <2> QED BY <1>1, <1>2, <2>2, <2>3, <2>4, InertAdded
<1> QED BY <1>3, <1>4

(* A flag that is toggled.                                                 *)
LEMMA BitFlips ==
  ASSUME NEW u \in BOOLEAN, NEW v, v = ~u
  PROVE  Bit(v) = 1 - Bit(u) /\ 1 - Bit(v) = Bit(u)
<1>1. CASE u = TRUE
  <2>1. v = FALSE BY <1>1
  <2>2. Bit(u) = 1 /\ Bit(v) = 0 BY <1>1, <2>1 DEF Bit
  <2> QED BY <2>2
<1>2. CASE u = FALSE
  <2>1. v = TRUE BY <1>2
  <2>2. Bit(u) = 0 /\ Bit(v) = 1 BY <1>2, <2>1 DEF Bit
  <2> QED BY <2>2
<1> QED BY <1>1, <1>2

(* The handler toggles what it reads, or begins to wait and is going to.   *)
LEMMA HandlerFollows == ASSUME FInv, HandleInterrupt PROVE Follow'
<1> SUFFICES ASSUME Good' PROVE Foreseen' /\ LocksSeen' /\ ShiftRepeats'
  BY DEF Follow
<1>1. /\ Types /\ Read(latched \ {"keyboard"}) /\ "keyboard" \in latched
      /\ at = "idle" /\ LeftOver
      /\ UNCHANGED <<down, repeating>>
  BY DEF FInv, KInv, HandleInterrupt, device
<1>2. ~ReadsMouse /\ toggled # Unseen /\ toggled' = toggled
  BY DEF Good, HandleInterrupt, Mistake, Shown
<1>3. CASE buffer = <<>>
  <2>1. DataPort = Ack /\ buffer' = buffer
    BY <1>1, <1>3, DriverReads DEF LeftOver
  <2>2. UNCHANGED <<flags, at>>
    BY <2>1 DEF HandleInterrupt, PrefixCase, ShiftPressed, ShiftReleased,
                LockPressed, OtherCase, Ack, Prefix
  <2>3. Follow' BY <1>1, <1>2, <2>1, <2>2, FollowStays DEF FInv
  <2> QED BY <2>3 DEF Follow
<1>4. CASE buffer # <<>>
  <2> DEFINE a == DataPort
             e == Head(buffer)
  <2>1. /\ buffer' = Tail(buffer) /\ a \in Codes
        /\ e \in Entries /\ e.from = "keyboard" /\ e.byte = a
    <3>1. e \in Entries BY <1>1, <1>4 DEF Types, ControllerTypes
    <3>2. buffer' = Tail(buffer) /\ a = e.byte /\ FromKeys(e)
      BY <1>1, <1>2, <1>4, DriverReads
    <3> QED BY <3>1, <3>2 DEF FromKeys, Entries
  <2>2. e = From("keyboard", a) BY <2>1 DEF From, Entries
  <2>3. \/ PrefixCase(a) \/ ShiftPressed(a) \/ ShiftReleased(a)
        \/ LockPressed(a) \/ OtherCase(a)
    BY DEF HandleInterrupt
  <2>4. /\ \A c : /\ Has(buffer, PressOf(c)) <=>
                       e = PressOf(c) \/ Has(buffer', PressOf(c))
                  /\ Twice(buffer, PressOf(c)) <=>
                       \/ Twice(buffer', PressOf(c))
                       \/ e = PressOf(c) /\ Has(buffer', PressOf(c))
        /\ \A c : Renewed(buffer, ReleaseOf(c), PressOf(c)) =>
                    Renewed(buffer', ReleaseOf(c), PressOf(c))
    BY <1>1, <1>2, <1>4, <2>1, HeadTaken
  <2> HIDE DEF a, e
  <2>5. /\ \A c : a = Make(c) <=> e = PressOf(c)
        /\ \A c : a = Break(c) <=> e = ReleaseOf(c)
        /\ a = Prefix <=> e = PrefixEntry
    BY <2>2 DEF PressOf, ReleaseOf, PrefixEntry, From
  <2>6. /\ a.kind = "make" /\ a \in Codes =>
             a = Make(a.code) /\ a.code \in KeyCodes
        /\ a.kind = "break" /\ a \in Codes =>
             a = Break(a.code) /\ a.code \in KeyCodes
    BY DEF Make, Break, Codes, Prefix, Ack
  <2>7. /\ \A c \in Shifts : a = Make(c) => at' = "shift"
        /\ \A c \in Locks : a = Make(c) => at' = c
    BY <2>3 DEF PrefixCase, ShiftPressed, ShiftReleased, LockPressed,
                OtherCase, Make, Prefix, Shifts, Locks
  <2>8. Good
    <3> SUFFICES ASSUME NEW c \in Toggling, Twice(buffer, PressOf(c))
                 PROVE  Doomed(buffer', at')
      BY <1>1, <1>2 DEF Good, Doomed
    <3>1. CASE Twice(buffer', PressOf(c)) BY <3>1 DEF Doomed
    <3>2. CASE e = PressOf(c) /\ Has(buffer', PressOf(c))
      <4>1. at' # "idle"
        BY <2>5, <2>7, <3>2, Toggles DEF Toggling
      <4> QED BY <3>2, <4>1 DEF Doomed
    <3> QED BY <2>4, <3>1, <3>2
  <2>9. Foreseen /\ LocksSeen /\ ShiftRepeats BY <2>8 DEF FInv, Follow
  <2>10. LocksSeen'
    <3> SUFFICES ASSUME NEW j \in down', j.code \in Locks
                 PROVE  /\ Has(buffer', PressOf(j.code)) \/ at' = j.code
                        /\ Renewed(buffer', ReleaseOf(j.code), PressOf(j.code))
                        /\ \A l \in down' : l.code = j.code => l = j
      BY DEF LocksSeen
    <3>1. j \in down BY <1>1
    <3>2. /\ Has(buffer, PressOf(j.code))
          /\ Renewed(buffer, ReleaseOf(j.code), PressOf(j.code))
          /\ \A l \in down : l.code = j.code => l = j
      BY <1>1, <2>9, <3>1, Toggles DEF LocksSeen
    <3> QED BY <1>1, <2>4, <2>5, <2>7, <3>2
  <2>11. ShiftRepeats'
    BY <1>1, <2>4, <2>5, <2>7, <2>9 DEF ShiftRepeats
  <2>12. Foreseen'
    <3>1. /\ UpperNow = Bit(Uppercase) /\ NumNow = Bit(NumLock)
          /\ MediaNow = Bit(MediaKey)
      BY <1>1 DEF UpperNow, NumNow, MediaNow
    <3>2. Uppercase \in BOOLEAN /\ NumLock \in BOOLEAN /\ MediaKey \in BOOLEAN
      BY <1>1 DEF Types, DriverTypes
    <3> SUFFICES /\ UpperNow' = IF e \in UpperFlips THEN 1 - UpperNow
                                ELSE UpperNow
                 /\ NumNow' = IF e = PressOf("num_lock") THEN 1 - NumNow
                              ELSE NumNow
                 /\ MediaNow' = IF e = PrefixEntry THEN 1 - MediaNow
                                ELSE MediaNow
      BY <1>1, <1>2, <1>4, <2>1, <2>9, HeadTaken DEF e
    <3>3. CASE PrefixCase(a)
      <4>1. e = PrefixEntry BY <2>5, <3>3 DEF PrefixCase
      <4>2. /\ Uppercase' = Uppercase /\ NumLock' = NumLock
            /\ MediaKey' = ~MediaKey /\ at' = "idle"
        BY <1>1, <3>3 DEF PrefixCase
      <4>3. UpperNow' = UpperNow /\ NumNow' = NumNow
        BY <3>1, <4>2 DEF UpperNow, NumNow
      <4>4. MediaNow' = 1 - MediaNow
        <5>1. Bit(MediaKey') = 1 - Bit(MediaKey) BY <3>2, <4>2, BitFlips
        <5> QED BY <5>1 DEF MediaNow, Bit
      <4> QED BY <4>1, <4>3, <4>4, WhatToggles
    <3>4. CASE ShiftPressed(a)
      <4>1. a.code \in Shifts /\ e = PressOf(a.code) /\ a.code \in KeyCodes
        BY <2>1, <2>5, <2>6, <3>4 DEF ShiftPressed, a
      <4>2. UNCHANGED flags /\ at' = "shift" BY <3>4 DEF ShiftPressed
      <4>3. /\ UpperNow' = 1 - UpperNow /\ NumNow' = NumNow
            /\ MediaNow' = MediaNow
        BY <3>1, <4>2 DEF UpperNow, NumNow, MediaNow, flags
      <4>4. /\ e \in UpperFlips /\ e # PressOf("num_lock") /\ e # PrefixEntry
        BY <4>1, WhatToggles DEF Shifts
      <4> QED BY <4>3, <4>4
    <3>5. CASE ShiftReleased(a)
      <4>1. a.code \in Shifts /\ e = ReleaseOf(a.code) /\ a.code \in KeyCodes
        BY <2>1, <2>5, <2>6, <3>5 DEF ShiftReleased, a
      <4>2. /\ Uppercase' = ~Uppercase /\ at' = "idle"
            /\ NumLock' = NumLock /\ MediaKey' = MediaKey
        BY <1>1, <3>5 DEF ShiftReleased
      <4>3. NumNow' = NumNow /\ MediaNow' = MediaNow
        BY <3>1, <4>2 DEF NumNow, MediaNow
      <4>4. UpperNow' = 1 - UpperNow
        <5>1. Bit(Uppercase') = 1 - Bit(Uppercase) BY <3>2, <4>2, BitFlips
        <5>2. UpperNow' = Bit(Uppercase') BY <4>2 DEF UpperNow, Bit
        <5> QED BY <3>1, <5>1, <5>2
      <4>5. /\ e \in UpperFlips /\ e # PressOf("num_lock") /\ e # PrefixEntry
        BY <4>1, WhatToggles
      <4> QED BY <4>3, <4>4, <4>5
    <3>6. CASE LockPressed(a)
      <4>1. a.code \in Locks /\ e = PressOf(a.code) /\ a.code \in KeyCodes
        BY <2>1, <2>5, <2>6, <3>6 DEF LockPressed, a
      <4>2. UNCHANGED flags /\ at' = a.code BY <3>6 DEF LockPressed
      <4>3. MediaNow' = MediaNow /\ e # PrefixEntry
        BY <4>1, <4>2, WhatToggles DEF MediaNow, flags
      <4>4. CASE a.code = "caps_lock"
        <5>1. UpperNow' = 1 - UpperNow /\ NumNow' = NumNow
          BY <3>1, <4>2, <4>4 DEF UpperNow, NumNow, flags
        <5>2. e \in UpperFlips /\ e # PressOf("num_lock")
          BY <4>1, <4>4, WhatToggles
        <5> QED BY <4>3, <5>1, <5>2
      <4>5. CASE a.code = "num_lock"
        <5>1. UpperNow' = UpperNow /\ NumNow' = 1 - NumNow
          BY <3>1, <4>2, <4>5 DEF UpperNow, NumNow, flags
        <5>2. e \notin UpperFlips /\ e = PressOf("num_lock")
          BY <4>1, <4>5, WhatToggles DEF Shifts
        <5> QED BY <4>3, <5>1, <5>2
      <4> QED BY <4>1, <4>4, <4>5 DEF Locks
    <3>7. CASE OtherCase(a)
      <4>1. UNCHANGED <<flags, at>> BY <3>7 DEF OtherCase
      <4>2. /\ UpperNow' = UpperNow /\ NumNow' = NumNow
            /\ MediaNow' = MediaNow
        BY <4>1 DEF UpperNow, NumNow, MediaNow, flags
      <4>3. e # PrefixEntry BY <2>5, <3>7 DEF OtherCase
      <4>4. \A c \in Toggling : e # PressOf(c)
        BY <2>5, <3>7 DEF OtherCase, Toggling, Make
      <4>5. \A c \in Shifts : e # ReleaseOf(c)
        BY <2>5, <3>7 DEF OtherCase, Break
      <4>6. e \notin UpperFlips /\ e # PressOf("num_lock")
        BY <4>4, <4>5 DEF UpperFlips, Toggling, Locks
      <4> QED BY <4>2, <4>3, <4>6
    <3> QED BY <2>3, <3>3, <3>4, <3>5, <3>6, <3>7
  <2> QED BY <2>10, <2>11, <2>12
<1> QED BY <1>3, <1>4

(* A wait that is over toggles what it was going to.                       *)
LEMMA WaitingFollows == ASSUME FInv, Waiting PROVE Follow'
<1> SUFFICES ASSUME Good' PROVE Follow' BY DEF Follow
<1>1. /\ Types /\ Read(latched) /\ Follow
      /\ UNCHANGED <<down, repeating, mode>>
  BY DEF FInv, KInv, Waiting, Spin, ShiftAcked, LockReleased, LedsAcked,
         Wait, device
<1>2. toggled # Unseen /\ toggled' = toggled
  BY DEF Good, Waiting, Spin, ShiftAcked, LockReleased, LedsAcked, Over,
         Mistake, Shown
<1>3. ~mistaken /\ (IdleTurn \/ LockTurn \/ ShiftTurn \/ LedsTurn)
  BY <1>2 DEF FInv, KInv, Turn
<1>4. ASSUME NEW place \in {"shift", "leds"} \cup Locks, Spin(place)
      PROVE  Follow'
  <2>1. UNCHANGED <<flags, at>> /\ (buffer = <<>> \/ ReadsMouse)
    BY <1>4 DEF Spin, Shown, Good
  <2>2. CASE buffer = <<>>
    BY <1>1, <1>2, <2>1, <2>2, FollowStays DEF Read
  <2>3. CASE buffer # <<>>
    <3>1. buffer' = Tail(buffer) /\ Inert(Head(buffer))
      BY <1>1, <2>1, <2>3 DEF Read, ReadsMouse, OfMouse, Inert
    <3> QED BY <1>1, <1>2, <2>1, <2>3, <3>1, InertTaken
  <2> QED BY <2>2, <2>3
<1>5. ASSUME Over
      PROVE  ~ReadsMouse /\ (at \notin Locks => DataPort = Ack)
             /\ (at \in Locks => DataPort = Break(at))
  BY <1>5 DEF Over, Awaited, Mistake, Shown, Good
<1>6. CASE ShiftAcked \/ LedsAcked
  <2>1. /\ Over /\ at \in {"shift", "leds"} /\ at' = "idle"
        /\ NumLock' = NumLock /\ MediaKey' = MediaKey
        /\ Uppercase' = IF at = "shift" THEN ~Uppercase ELSE Uppercase
    BY <1>6 DEF ShiftAcked, LedsAcked, Wait, flags
  <2>2. (ShiftTurn \/ LedsTurn) /\ last # Ack
    BY <1>3, <2>1 DEF IdleTurn, LockTurn, ShiftTurn, LedsTurn, Locks
  <2>3. DataPort = Ack /\ ~ReadsMouse BY <1>5, <2>1 DEF Locks
  <2>4. /\ buffer # <<>> /\ Head(buffer).byte = Ack /\ FromKeys(Head(buffer))
        /\ buffer' = Tail(buffer)
    BY <1>1, <2>2, <2>3, DriverReads
  <2>5. Acknowledges(Head(buffer)) /\ Inert(Head(buffer))
    BY <2>4 DEF FromKeys, Acknowledges, Inert
  <2>6. NoKeys(buffer') /\ mode \in {"off", "option"}
        /\ (at = "shift" => mode = "off")
    BY <1>1, <2>2, <2>4, <2>5, AcksInTail
       DEF ShiftTurn, LedsTurn, Types, ControllerTypes
  <2>7. \A c : ~Has(buffer', PressOf(c)) /\ ~Has(buffer, PressOf(c))
    <3>1. \A c : ~Has(buffer', PressOf(c))
      BY <2>6 DEF NoKeys, FromKeys, Has, PressOf, From
    <3> QED BY <1>1, <1>2, <2>4, <2>5, <3>1, HeadTaken, InertEntries
  <2>8. \A c : ~Twice(buffer, PressOf(c)) BY <2>7 DEF Twice, Has
  <2>9. Good BY <1>2, <2>7, <2>8 DEF Good, Doomed
  <2>10. Foreseen /\ LocksSeen /\ ShiftRepeats BY <1>1, <2>9 DEF Follow
  <2>11. LocksSeen'
    <3>1. \A j \in down : j.code \notin Locks
      BY <2>1, <2>7, <2>10, Toggles DEF LocksSeen
    <3> QED BY <1>1, <3>1 DEF LocksSeen
  <2>12. ShiftRepeats'
    BY <1>1, <2>1, <2>6, <2>7, <2>10 DEF ShiftRepeats, FInv
  <2>13. Foreseen'
    <3>1. UpperNow' = UpperNow /\ NumNow' = NumNow /\ MediaNow' = MediaNow
      <4>1. Uppercase \in BOOLEAN BY <1>1 DEF Types, DriverTypes
      <4>2. UpperNow' = UpperNow
        <5>1. UpperNow' = Bit(Uppercase') BY <2>1 DEF UpperNow, Bit
        <5>2. CASE at = "shift"
          <6>1. 1 - Bit(Uppercase) = Bit(Uppercase')
            BY <2>1, <4>1, <5>2, BitFlips
          <6> QED BY <5>1, <5>2, <6>1 DEF UpperNow
        <5>3. CASE at = "leds"
          BY <2>1, <5>1, <5>3 DEF UpperNow
        <5> QED BY <2>1, <5>2, <5>3
      <4> QED BY <2>1, <4>2 DEF NumNow, MediaNow
    <3> QED BY <1>1, <1>2, <2>4, <2>5, <2>10, <3>1, HeadTaken, InertEntries
  <2> QED BY <2>11, <2>12, <2>13 DEF Follow
<1>7. ASSUME NEW lock \in Locks, LockReleased(lock) PROVE Follow'
  <2>1. /\ Over /\ at = lock /\ at' = "leds" /\ MediaKey' = MediaKey
        /\ Uppercase' = (Uppercase # (lock = "caps_lock"))
        /\ NumLock' = (NumLock # (lock = "num_lock"))
    BY <1>7 DEF LockReleased, Wait
  <2>2. LockTurn
    BY <1>3, <2>1, Toggles DEF IdleTurn, ShiftTurn, LedsTurn
  <2>3. DataPort = Break(lock) /\ ~ReadsMouse /\ last # Break(lock)
    BY <1>5, <2>1, <2>2 DEF LockTurn
  <2>4. /\ buffer # <<>> /\ Head(buffer).byte = Break(lock)
        /\ FromKeys(Head(buffer)) /\ buffer' = Tail(buffer)
    BY <1>1, <2>3, DriverReads
  <2>5. Head(buffer) = ReleaseOf(lock)
    <3>1. Head(buffer) \in Entries
      BY <1>1, <2>4 DEF Types, ControllerTypes
    <3> QED BY <2>4, <3>1 DEF FromKeys, Entries, ReleaseOf, From
  <2>6. /\ \A c : Head(buffer) # PressOf(c)
        /\ Head(buffer) \notin UpperFlips
        /\ Head(buffer) # PressOf("num_lock") /\ Head(buffer) # PrefixEntry
    <3>1. lock \in KeyCodes /\ lock \notin Shifts
      BY Toggles DEF Toggling
    <3>2. \A c : Head(buffer) # PressOf(c)
      BY <2>5 DEF PressOf, ReleaseOf, From, Make, Break
    <3> QED BY <2>5, <3>1, <3>2, WhatToggles
  <2>7. /\ \A c : /\ Has(buffer, PressOf(c)) <=> Has(buffer', PressOf(c))
                  /\ Twice(buffer, PressOf(c)) <=> Twice(buffer', PressOf(c))
        /\ \A c : Renewed(buffer, ReleaseOf(c), PressOf(c)) =>
             /\ Renewed(buffer', ReleaseOf(c), PressOf(c))
             /\ Head(buffer) = ReleaseOf(c) => Has(buffer', PressOf(c))
    BY <1>1, <1>2, <2>4, <2>6, HeadTaken
  <2>8. at # "idle" BY <2>1, Toggles
  <2>9. Good BY <1>2, <2>1, <2>7, <2>8 DEF Good, Doomed
  <2>10. Foreseen /\ LocksSeen /\ ShiftRepeats BY <1>1, <2>9 DEF Follow
  <2>11. LocksSeen'
    <3> SUFFICES ASSUME NEW j \in down', j.code \in Locks
                 PROVE  /\ Has(buffer', PressOf(j.code)) \/ at' = j.code
                        /\ Renewed(buffer', ReleaseOf(j.code), PressOf(j.code))
                        /\ \A l \in down' : l.code = j.code => l = j
      BY DEF LocksSeen
    <3>1. j \in down BY <1>1
    <3>2. /\ Has(buffer, PressOf(j.code)) \/ lock = j.code
          /\ Renewed(buffer, ReleaseOf(j.code), PressOf(j.code))
          /\ \A l \in down : l.code = j.code => l = j
      BY <2>1, <2>10, <3>1 DEF LocksSeen
    <3>3. lock = j.code => Has(buffer', PressOf(j.code))
      BY <2>5, <2>7, <3>2
    <3> QED BY <1>1, <2>7, <3>2, <3>3
  <2>12. ShiftRepeats'
    BY <1>1, <2>1, <2>7, <2>10, Toggles DEF ShiftRepeats
  <2>13. Foreseen'
    <3>1. Uppercase \in BOOLEAN /\ NumLock \in BOOLEAN
      BY <1>1 DEF Types, DriverTypes
    <3>2. UpperNow' = Bit(Uppercase') /\ NumNow' = Bit(NumLock')
      BY <2>1 DEF UpperNow, NumNow, Bit
    <3>3. MediaNow' = MediaNow BY <2>1 DEF MediaNow
    <3>4. UpperNow' = UpperNow
      <4>1. CASE lock = "caps_lock"
        <5>1. Uppercase' = ~Uppercase BY <2>1, <3>1, <4>1
        <5>2. UpperNow = 1 - Bit(Uppercase) BY <2>1, <4>1 DEF UpperNow
        <5> QED BY <3>1, <3>2, <5>1, <5>2, BitFlips
      <4>2. CASE lock = "num_lock"
        <5>1. Uppercase' = Uppercase BY <2>1, <3>1, <4>2
        <5> QED BY <2>1, <3>2, <4>2, <5>1 DEF UpperNow
      <4> QED BY <4>1, <4>2 DEF Locks
    <3>5. NumNow' = NumNow
      <4>1. CASE lock = "num_lock"
        <5>1. NumLock' = ~NumLock BY <2>1, <3>1, <4>1
        <5>2. NumNow = 1 - Bit(NumLock) BY <2>1, <4>1 DEF NumNow
        <5> QED BY <3>1, <3>2, <5>1, <5>2, BitFlips
      <4>2. CASE lock = "caps_lock"
        <5>1. NumLock' = NumLock BY <2>1, <3>1, <4>2
        <5> QED BY <2>1, <3>2, <4>2, <5>1 DEF NumNow
      <4> QED BY <4>1, <4>2 DEF Locks
    <3> QED BY <1>1, <1>2, <2>4, <2>6, <2>10, <3>3, <3>4, <3>5, HeadTaken
  <2> QED BY <2>11, <2>12, <2>13 DEF Follow
<1> QED BY <1>4, <1>6, <1>7 DEF Waiting

(* Nothing is held and no flag set as Activate leaves the driver.          *)
LEMMA FollowInit == Init => FInv
<1> SUFFICES ASSUME Init PROVE FInv OBVIOUS
<1>1. KInv BY KeyboardInit
<1>2. Inert(From("keyboard", Ack)) /\ From("keyboard", Ack) \in Entries
  BY DEF Inert, From, Entries, Codes
<1>3. /\ UpperNow = 0 /\ NumNow = 0 /\ MediaNow = 0
      /\ UpperDue = 0 /\ NumDue = 0 /\ MediaDue = 0
  <2>1. Held(Shifts) = {} /\ {k \in down : k.extended} = {}
    BY DEF Init, Held
  <2>2. Parity({}) = 0
    <3>1. Cardinality({}) = 0 BY FS_EmptySet
    <3> QED BY <3>1 DEF Parity
  <2> QED
    BY <2>1, <2>2
       DEF Init, UpperNow, NumNow, MediaNow, UpperDue, NumDue, MediaDue, Bit
<1>4. Foreseen
  <2>1. \A F : Flips(<<>>, F, 0, 0) BY EmptyFlips
  <2>2. CASE buffer = <<>> BY <1>3, <2>1, <2>2 DEF Foreseen
  <2>3. CASE buffer = <<From("keyboard", Ack)>>
    <3>1. buffer = Append(<<>>, From("keyboard", Ack)) BY <2>3
    <3>2. \A F : From("keyboard", Ack) \notin F => Flips(buffer, F, 0, 0)
      <4>1. <<>> \in Seq(Entries) OBVIOUS
      <4> QED BY <1>2, <2>1, <3>1, <4>1, AppendFlips
    <3> QED BY <1>2, <1>3, <3>2, InertEntries DEF Foreseen
  <2> QED BY <2>2, <2>3 DEF Init
<1>5. LocksSeen /\ ShiftRepeats BY DEF Init, LocksSeen, ShiftRepeats
<1> QED BY <1>1, <1>4, <1>5 DEF Init, FInv, Follow

(* Every step keeps the invariant.                                         *)
LEMMA FollowStep == FInv /\ [Next]_vars => FInv'
<1> SUFFICES ASSUME FInv, [Next]_vars PROVE FInv' OBVIOUS
<1>1. KInv' BY KeyboardStep DEF FInv
<1>2. CASE UNCHANGED vars
  <2>1. UNCHANGED <<flags, at, buffer, down, toggled, repeating, mode,
                    mistaken>>
    BY <1>2 DEF vars, controller, device, user
  <2> QED BY <1>1, <2>1, FollowStays DEF FInv
<1>3. CASE Next
  <2>1. (toggled # Unseen => ~mistaken)'
    BY <1>3 DEF FInv, KInv, Types, DriverTypes, Next, Driver, Press, Release,
         Repeat, Obey, MouseSends, MouseHandles, HandleInterrupt, Waiting,
         Spin, ShiftAcked, LockReleased, LedsAcked, Over, Mistake, Shown,
         ReadsMouse, OfMouse, user
  <2>2. (mode = "off" => repeating = NoKey)'
    BY <1>3 DEF FInv, Next, Driver, Press, Release, Repeat, Obey, MouseSends,
         MouseHandles, HandleInterrupt, Waiting, Spin, ShiftAcked,
         LockReleased, LedsAcked, Wait, Report, device
  <2>3. Follow'
    BY <1>3, PressFollows, ReleaseFollows, RepeatFollows, ObeyFollows,
       MouseFollows, HandlerFollows, WaitingFollows DEF Next, Driver
  <2> QED BY <1>1, <2>1, <2>2, <2>3 DEF FInv
<1> QED BY <1>2, <1>3

(* Whenever nothing is on its way, the flags agree with the keys: as long  *)
(* as the driver was shown every key as it is, it has not lost a toggle.   *)
THEOREM KeyboardFlagsFollowKeys == Spec => []FlagsFollowKeys
<1>1. FInv => FlagsFollowKeys
  <2> SUFFICES ASSUME FInv, Quiet, toggled # Unseen
               PROVE  /\ Uppercase = (("caps_lock" \in toggled)
                                        # Odd(Held(Shifts)))
                      /\ NumLock = ("num_lock" \in toggled)
                      /\ MediaKey = Odd({k \in down : k.extended})
    BY DEF FlagsFollowKeys
  <2>1. at = "idle" /\ buffer = <<>> BY DEF Quiet
  <2>2. Good
    <3>1. DOMAIN buffer = {} BY <2>1
    <3> QED BY <2>1, <3>1 DEF Good, Doomed, Twice
  <2>3. Bit(Uppercase) = UpperDue /\ Bit(NumLock) = NumDue
        /\ Bit(MediaKey) = MediaDue
    <3>1. Foreseen BY <2>2 DEF FInv, Follow
    <3>2. UpperNow = UpperDue /\ NumNow = NumDue /\ MediaNow = MediaDue
      BY <2>1, <3>1, EmptyFlips DEF Foreseen
    <3> QED BY <2>1, <3>2 DEF UpperNow, NumNow, MediaNow
  <2>4. Types BY DEF FInv, KInv
  <2>5. ASSUME NEW S, IsFiniteSet(S)
        PROVE  Parity(S) = IF Odd(S) THEN 1 ELSE 0
    BY <2>5, ParityChanges DEF Parity, Odd
  <2>6. /\ Parity(Held(Shifts)) = IF Odd(Held(Shifts)) THEN 1 ELSE 0
        /\ MediaDue = IF Odd({k \in down : k.extended}) THEN 1 ELSE 0
    <3>1. IsFiniteSet(Held(Shifts)) /\ IsFiniteSet({k \in down : k.extended})
      BY <2>4, FS_Subset DEF Types, DeviceTypes, Held
    <3> QED BY <2>5, <3>1 DEF MediaDue
  <2>7. Uppercase \in BOOLEAN /\ NumLock \in BOOLEAN /\ MediaKey \in BOOLEAN
    BY <2>4 DEF Types, DriverTypes
  <2>8. Odd(Held(Shifts)) \in BOOLEAN
        /\ Odd({k \in down : k.extended}) \in BOOLEAN
    BY DEF Odd
  <2>9. Uppercase = (("caps_lock" \in toggled) # Odd(Held(Shifts)))
    BY <2>3, <2>6, <2>7, <2>8 DEF Bit, UpperDue
  <2>10. NumLock = ("num_lock" \in toggled) BY <2>3, <2>7 DEF Bit, NumDue
  <2>11. MediaKey = Odd({k \in down : k.extended})
    BY <2>3, <2>6, <2>7, <2>8 DEF Bit
  <2> QED BY <2>9, <2>10, <2>11
<1> QED BY <1>1, FollowInit, FollowStep, PTL DEF Spec
=============================================================================
