------------------------------ MODULE Keyboard ------------------------------
(***************************************************************************)
(* The keyboard driver: HandleInterrupt of alsrc/drivers/keyboard.cpp and  *)
(* the functions it waits in, with the keyboard at the other end.          *)
(*                                                                         *)
(* A handler runs with interrupts disabled, but reads port 0x60 in loops   *)
(* until the byte comes that it waits for; what it reads meanwhile is      *)
(* gone.  The bytes on their way, those of the mouse among them, are one   *)
(* queue: its head is in the controller's output register.  A read of the  *)
(* empty register returns the last byte again, and a byte that a loop has  *)
(* read has still latched its interrupt.  Nothing here asks whose byte it  *)
(* is; only the mouse's handler does (Mouse.tla).                          *)
(*                                                                         *)
(* Scan codes are abstracted to the classes that the switch treats alike.  *)
(* The handler of characters is never null, as in kernelMain.              *)
(***************************************************************************)
EXTENDS Integers, Sequences, FiniteSetsExt

CONSTANTS
  Keys,      \* keys of the keyboard: a code, and whether 0xE0 precedes it
  NoKey,
  MouseBytes, \* what the mouse's bytes look like to the keyboard's driver
  MaxBytes   \* bound: bytes of key codes on their way

Characters == {"letter"}                \* a character, another with shift
MediaCharacters == {"media_letter"}     \* ... and with 0xE0 a media key
Spaces == {"space"}                     \* enter, tab, space, backspace
PadSigns == {"sign"}                    \* * - + and 5 of the number pad
PadDigits == {"digit"}                  \* ... and with 0xE0 an arrow key
Slash == "slash"                        \* / here, with 0xE0 on the pad
Silent == {"silent"}                    \* escape, F1, control, ...
Shifts == {"left_shift", "right_shift"}
Locks == {"caps_lock", "num_lock"}
Unknown == "unknown"                    \* a code the switch does not know

KeyCodes ==
  Characters \cup MediaCharacters \cup Spaces \cup PadSigns \cup PadDigits
    \cup {Slash, Unknown} \cup Silent \cup Shifts \cup Locks

ASSUME KeyboardAssumption ==
  /\ Keys \subseteq [code : KeyCodes, extended : BOOLEAN]
  /\ MouseBytes \subseteq [kind : {"make", "break"}, code : KeyCodes]
                   \cup {[kind |-> "ack", code |-> "none"]}
  /\ NoKey \notin Keys
  /\ MaxBytes \in Nat

VARIABLES
  Uppercase, NumLock, MediaKey,  \* the statics of keyboard.cpp
  at,        \* where HandleInterrupt waits, "idle" if it is not running
  buffer,    \* bytes on their way and whose they are, see above
  last,      \* the byte that port 0x60 returned last
  latched,   \* the devices whose interrupt, 1 or 12, is latched
  command,   \* the byte written to port 0x60 that the keyboard has not taken
  mode,      \* of the keyboard: "scan", "off", "option"
  down,      \* keys held down
  repeating, \* the key that the keyboard repeats
  typed,     \* history: what the last run of the handler printed
  prefixed,  \* history: the last byte the handler was run for is 0xE0
  toggled,   \* history: the lock keys pressed an odd number of times, or
             \* Unseen: the driver was not shown a key as it is, see below
  mistaken   \* history: the driver has acted on a byte of the mouse

flags == <<Uppercase, NumLock, MediaKey>>
controller == <<buffer, last, latched>>
device == <<mode, down, repeating>>
seen == <<typed, prefixed>>
user == <<toggled, mistaken>>
vars == <<flags, at, controller, command, device, seen, user>>

-----------------------------------------------------------------------------
Make(code) == [kind |-> "make", code |-> code]
Break(code) == [kind |-> "break", code |-> code]
Prefix == [kind |-> "prefix", code |-> "none"]      \* 0xE0
Ack == [kind |-> "ack", code |-> "none"]            \* 0xFA

Unseen == {"unseen"}

From(origin, byte) == [from |-> origin, byte |-> byte]

Nothing == [code |-> "none", upper |-> FALSE, prefixed |-> FALSE]

(* As Activate leaves it: the answer to its 0xF4 may not have been read.   *)
Init ==
  /\ Uppercase = FALSE /\ NumLock = FALSE /\ MediaKey = FALSE
  /\ at = "idle"
  /\ \/ buffer = <<>> /\ latched = {}
     \/ buffer = <<From("keyboard", Ack)>> /\ latched = {"keyboard"}
  /\ last = Ack
  /\ command = "none"
  /\ mode = "scan" /\ down = {} /\ repeating = NoKey
  /\ typed = Nothing /\ prefixed = FALSE
  /\ toggled = {} /\ mistaken = FALSE

-----------------------------------------------------------------------------
(* The devices and their controller.                                       *)

Bytes(k, byte) == IF k.extended THEN <<Prefix, byte>> ELSE <<byte>>

OfMouse(entry) == entry.from = "mouse"

(* A byte that enters the empty output register latches an interrupt.      *)
Latch(origin) ==
  latched' = IF buffer = <<>> THEN latched \cup {origin} ELSE latched

Send(origin, bytes) ==
  /\ buffer' = buffer \o [i \in DOMAIN bytes |-> From(origin, bytes[i])]
  /\ Latch(origin)
  /\ UNCHANGED last

(* The code of a key that moved.  With scanning disabled there is none.    *)
Report(k, byte) ==
  \/ /\ mode = "scan"
     /\ Len(buffer) + 2 <= MaxBytes
     /\ Send("keyboard", Bytes(k, byte))
  \/ /\ mode = "off"
     /\ UNCHANGED controller

(* Whether the driver is shown what happens, and what it ought to do.      *)
Shown(really, locks) ==
  toggled' = IF really /\ toggled # Unseen THEN locks ELSE Unseen

Press(k) ==
  /\ k \notin down
  /\ Report(k, Make(k.code))
  /\ down' = down \cup {k}
  /\ repeating' = IF mode = "scan" THEN k ELSE NoKey
  /\ Shown(mode # "off", SymDiff(toggled, Locks \cap {k.code}))
  /\ UNCHANGED <<flags, at, command, mode, seen, mistaken>>

Release(k) ==
  /\ k \in down
  /\ Report(k, Break(k.code))
  /\ down' = down \ {k}
  /\ repeating' = IF repeating = k THEN NoKey ELSE repeating
  /\ Shown(mode # "off", toggled)
  /\ UNCHANGED <<flags, at, command, mode, seen, mistaken>>

(* The key pressed last repeats its code while it is held down.            *)
Repeat ==
  /\ repeating # NoKey
  /\ mode = "scan"
  /\ Len(buffer) + 2 <= MaxBytes
  /\ Send("keyboard", Bytes(repeating, Make(repeating.code)))
  /\ Shown(~repeating.extended, toggled)
  /\ UNCHANGED <<flags, at, command, device, seen, mistaken>>

(* The mouse's packets, byte by byte.  Bounds: at most one byte is on its  *)
(* way, and there are no more after one that was mistaken.                 *)
MouseSends(byte) ==
  /\ ~mistaken
  /\ \A i \in DOMAIN buffer : ~OfMouse(buffer[i])
  /\ Send("mouse", <<byte>>)
  /\ UNCHANGED <<flags, at, command, device, seen, user>>

(* Disabling and enabling (0xF5, 0xF4) clear the keyboard's own buffer:    *)
(* what is in the controller stays, and the byte of the mouse, if any.     *)
Behind == {i \in 2 .. Len(buffer) : OfMouse(buffer[i])}

Cleared ==
  IF buffer = <<>> THEN <<>>
  ELSE IF Behind = {} THEN <<Head(buffer)>>
  ELSE <<Head(buffer), buffer[CHOOSE i \in Behind : TRUE]>>

(* The keyboard takes a command and acknowledges it.  0xED announces an    *)
(* option byte; until it comes, the codes of moved keys are held back.     *)
Obey ==
  /\ command # "none"
  /\ command' = "none"
  /\ IF command \in {"disable", "enable"}
     THEN /\ buffer' = Append(Cleared, From("keyboard", Ack))
          /\ repeating' = NoKey
          /\ Shown(Cleared = buffer, toggled)
     ELSE /\ buffer' = Append(buffer, From("keyboard", Ack))
          /\ UNCHANGED <<repeating, toggled>>
  /\ mode' = CASE command = "disable" -> "off"
               [] command = "leds" -> "option"
               [] OTHER -> "scan"
  /\ Latch("keyboard")
  /\ UNCHANGED <<flags, at, last, down, seen, mistaken>>

-----------------------------------------------------------------------------
(* The driver.                                                             *)

(* inb(0x60), dataport.Read()                                              *)
DataPort == IF buffer = <<>> THEN last ELSE Head(buffer).byte

(* The byte behind enters the register.                                    *)
Read(still) ==
  /\ last' = DataPort
  /\ buffer' = IF buffer = <<>> THEN <<>> ELSE Tail(buffer)
  /\ latched' = still \cup (IF Len(buffer) > 1 THEN {buffer[2].from} ELSE {})

ReadsMouse == buffer # <<>> /\ OfMouse(Head(buffer))

(* What is read is acted upon, even if it is the mouse's.                  *)
Mistake ==
  /\ mistaken' = (mistaken \/ ReadsMouse)
  /\ Shown(~ReadsMouse, toggled)

(* Whether the press of a key prints, and whether its other character.     *)
Prints(code) ==
  \/ code \in Characters \cup Spaces
  \/ code \in MediaCharacters /\ ~MediaKey
  \/ code \in PadSigns /\ NumLock
  \/ code \in PadDigits /\ ~MediaKey /\ NumLock
  \/ code = Slash /\ (MediaKey => NumLock)

BadShiftedAll(code) == Uppercase

Shifted(code) ==
  /\ Uppercase
  /\ \/ code \in Characters \cup MediaCharacters
     \/ code = Slash /\ ~MediaKey

Typed(key) ==
  IF key.code = Unknown \/ (key.kind = "make" /\ Prints(key.code))
  THEN [code |-> key.code, upper |-> Shifted(key.code), prefixed |-> prefixed]
  ELSE Nothing

(* 0xE0: MediaKey = !MediaKey                                              *)
PrefixCase(key) ==
  /\ key = Prefix
  /\ MediaKey' = ~MediaKey
  /\ UNCHANGED <<Uppercase, NumLock, at, command>>

(* A shift key is pressed: shift_force_toggle writes 0xF5.  The left one   *)
(* with MediaKey set falls through to the right one.                       *)
ShiftPressed(key) ==
  /\ key.kind = "make" /\ key.code \in Shifts
  /\ command' = "disable"
  /\ at' = "shift"
  /\ UNCHANGED flags

BadShiftReleasedRightOnly(key) ==
  /\ key.kind = "break" /\ key.code \in Shifts
  /\ Uppercase' = (Uppercase # (key.code = "right_shift"))
  /\ UNCHANGED <<NumLock, MediaKey, at, command>>

ShiftReleased(key) ==
  /\ key.kind = "break" /\ key.code \in Shifts
  /\ Uppercase' = ~Uppercase
  /\ UNCHANGED <<NumLock, MediaKey, at, command>>

BadLockPressedCaps(key) ==
  /\ key.kind = "make" /\ key.code \in Locks
  /\ at' = "caps_lock"
  /\ UNCHANGED <<flags, command>>

(* A lock key is pressed: key_toggle waits for its release.                *)
LockPressed(key) ==
  /\ key.kind = "make" /\ key.code \in Locks
  /\ at' = key.code
  /\ UNCHANGED <<flags, command>>

(* Every other case prints at most.                                        *)
OtherCase(key) ==
  /\ key # Prefix
  /\ key.code \notin Shifts
  /\ ~(key.kind = "make" /\ key.code \in Locks)
  /\ UNCHANGED <<flags, at, command>>

(* KeyboardDriver::HandleInterrupt, up to its first wait if it has one.    *)
HandleInterrupt ==
  /\ at = "idle"
  /\ "keyboard" \in latched
  /\ Read(latched \ {"keyboard"})
  /\ \/ PrefixCase(DataPort)
     \/ ShiftPressed(DataPort)
     \/ ShiftReleased(DataPort)
     \/ LockPressed(DataPort)
     \/ OtherCase(DataPort)
  /\ typed' = Typed(DataPort)
  /\ prefixed' = (DataPort = Prefix)
  /\ Mistake
  /\ UNCHANGED device

(* MouseDriver::HandleInterrupt takes the byte in the register if it is    *)
(* the mouse's.  Its interrupt waits for the keyboard's, which is more     *)
(* urgent, and for the end of the keyboard's handler.                      *)
MouseHandles ==
  /\ at = "idle"
  /\ latched = {"mouse"}
  /\ IF ReadsMouse
     THEN Read({})
     ELSE latched' = {} /\ UNCHANGED <<buffer, last>>
  /\ UNCHANGED <<flags, at, command, device, seen, user>>

BadAwaitedNotAck(place, byte) ==
  \/ place \in Locks /\ byte = Break(place)
  \/ place \notin Locks /\ byte # Ack

BadAwaitedRelease(place, byte) ==
  \/ place \in Locks /\ byte = Break(place)
  \/ place = "shift" /\ byte = Break("left_shift")
  \/ place = "leds" /\ byte = Ack

(* key_toggle waits for the release of the lock key, kbd_ack for 0xFA.     *)
Awaited(place, byte) ==
  \/ place \in Locks /\ byte = Break(place)
  \/ place \notin Locks /\ byte = Ack

(* A wait reads once more, and is over or goes on; then the byte is lost.  *)
Wait(place) ==
  /\ at = place
  /\ Read(latched)
  /\ UNCHANGED <<device, seen>>

Over ==
  /\ Awaited(at, DataPort)
  /\ Mistake

Spin(place) ==
  /\ Wait(place)
  /\ ~Awaited(place, DataPort)
  /\ Shown(buffer = <<>> \/ ReadsMouse, toggled)
  /\ UNCHANGED <<flags, at, command, mistaken>>

(* shift_force_toggle has its answer: 0xF4, and Uppercase = !Uppercase.    *)
ShiftAcked ==
  /\ Wait("shift") /\ Over
  /\ command' = "enable"
  /\ Uppercase' = ~Uppercase
  /\ at' = "idle"
  /\ UNCHANGED <<NumLock, MediaKey>>

(* key_toggle has seen the release: the flag, and kbd_handle_led's 0xED.   *)
LockReleased(lock) ==
  /\ Wait(lock) /\ Over
  /\ Uppercase' = (Uppercase # (lock = "caps_lock"))
  /\ NumLock' = (NumLock # (lock = "num_lock"))
  /\ command' = "leds"
  /\ at' = "leds"
  /\ UNCHANGED MediaKey

(* kbd_handle_led has its answer: the option byte.                         *)
LedsAcked ==
  /\ Wait("leds") /\ Over
  /\ command' = "option"
  /\ at' = "idle"
  /\ UNCHANGED flags

Waiting ==
  \/ \E place \in {"shift", "leds"} \cup Locks : Spin(place)
  \/ ShiftAcked
  \/ \E lock \in Locks : LockReleased(lock)
  \/ LedsAcked

Driver == HandleInterrupt \/ Waiting

Next ==
  \/ \E k \in Keys : Press(k) \/ Release(k)
  \/ Repeat
  \/ Obey
  \/ \E byte \in MouseBytes : MouseSends(byte)
  \/ MouseHandles
  \/ Driver

Spec == Init /\ [][Next]_vars

(* The processor runs, the keyboard obeys, and lock keys are let go.       *)
FairSpec ==
  /\ Spec
  /\ WF_vars(Driver)
  /\ WF_vars(Obey)
  /\ \A k \in Keys : k.code \in Locks => SF_vars(Release(k))

-----------------------------------------------------------------------------
(* Every variable has its type; only characters have an upper case.        *)
TypeOK ==
  /\ flags \in BOOLEAN \X BOOLEAN \X BOOLEAN
  /\ at \in {"idle", "shift", "leds"} \cup Locks
  /\ {buffer[i].byte : i \in 1 .. Len(buffer)} \cup {last}
       \subseteq [kind : {"make", "break"}, code : KeyCodes] \cup {Prefix, Ack}
  /\ latched \subseteq {"keyboard", "mouse"}
  /\ command \in {"none", "disable", "enable", "leds", "option"}
  /\ mode \in {"scan", "off", "option"}
  /\ down \subseteq Keys
  /\ repeating \in down \cup {NoKey}
  /\ typed.code \in KeyCodes \cup {"none"}
  /\ typed.upper =>
       typed.code \in Characters \cup MediaCharacters \cup {Slash}
  /\ {prefixed, mistaken} \subseteq BOOLEAN
  /\ toggled \in (SUBSET Locks) \cup {Unseen}

Quiet == at = "idle" /\ buffer = <<>> /\ command = "none"

Odd(keys) == Cardinality(keys) % 2 = 1

Held(codes) == {k \in down : k.code \in codes}

(* The flags are only ever toggled, never set: one toggle too many or too  *)
(* few inverts every character from then on.  Whenever nothing is on its   *)
(* way, they agree with the keys: Uppercase with the parity of the held    *)
(* shift keys and caps lock, NumLock with num lock, MediaKey with the      *)
(* parity of the held keys with prefix.  The driver loses track only if a  *)
(* wait swallowed a byte, a command cleared the keyboard's buffer, a key   *)
(* moved while scanning was disabled, a key with prefix was repeated, or   *)
(* a byte of the mouse was taken for a code or an answer.                  *)
FlagsFollowKeys ==
  Quiet /\ toggled # Unseen =>
    /\ Uppercase = (("caps_lock" \in toggled) # Odd(Held(Shifts)))
    /\ NumLock = ("num_lock" \in toggled)
    /\ MediaKey = Odd({k \in down : k.extended})

(* The digits of the number pad with 0xE0 are arrow keys: they print       *)
(* nothing.                                                                *)
ArrowsPrintNothing == ~(typed.code \in PadDigits /\ typed.prefixed)

(* The driver never tests whether the keyboard has taken the last byte     *)
(* before it writes the next.  Still no command is written over, unless a  *)
(* byte of the mouse with the value 0xFA ended the wait for the answer to  *)
(* the one before, or one that came upon a left-over interrupt began the   *)
(* next one.                                                               *)
CommandsTaken ==
  [][ command # "none" /\ ~mistaken' => command' \in {command, "none"} ]_vars

(* The bytes that a wait reads have latched IRQ 1 and the handler is run   *)
(* once more for them.  If there is nothing to read it reads the last byte *)
(* again, which changes no flag, prints nothing and waits for nothing: not *)
(* even if the mouse has sent in between, since its handler comes second.  *)
SpuriousHarmless ==
  [][ at = "idle" /\ buffer = <<>> /\ "keyboard" \in latched \ latched' =>
        typed' = Nothing /\ UNCHANGED <<flags, at, command>> ]_vars

(* Every wait comes to an end: the byte it waits for is neither lost in    *)
(* another wait nor cleared by a command, whatever the mouse sends.  (Only *)
(* if the mouse's byte was taken for a lock key's, nobody need let it go.) *)
WaitsEnd == at # "idle" ~> at = "idle" \/ mistaken

=============================================================================
