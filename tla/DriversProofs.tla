---------------------------- MODULE DriversProofs ----------------------------
(***************************************************************************)
(* Theorems about Drivers.tla: for every configuration that the BIOS may   *)
(* leave, and any number of keys and movements, ActivateAll arms both      *)
(* devices, and the mouse's acknowledgement is not lost.                   *)
(***************************************************************************)
EXTENDS Drivers, SequenceTheorems, TLAPS

-----------------------------------------------------------------------------
(* The inductive invariant.                                                *)

(* The k-th statement of the n-th driver has been executed.                *)
Past(n, k) == i > n \/ (i = n /\ line > k)

(* Where kernelMain is.                                                    *)
MainPlace ==
  \/ i = 0 /\ line = 1 /\ drivers \in {<<>>, <<"keyboard">>, Added}
  \/ i = 1 /\ line \in 1 .. 7 /\ drivers = Added
  \/ i = 2 /\ line \in 1 .. 8 /\ drivers = Added
  \/ i = 3 /\ line = 1 /\ drivers = Added

Kinds == Devices \cup {"nobody", "nothing", "current", "stale"}

DriversTypes ==
  /\ status \subseteq Bits /\ config \subseteq Bits /\ bios \subseteq Bits
  /\ register \in [full : BOOLEAN, byte : SUBSET Bits,
                   from : Devices \cup {"controller", "nobody"}]
  /\ outbox \in [Devices -> Seq(SUBSET Bits)]
  /\ ordered \subseteq Devices /\ reporting \subseteq Devices
  /\ "keyboard" \in reporting
  /\ got \in [Devices -> Kinds]
  /\ acked \in BOOLEAN /\ overwrites \in BOOLEAN

(* The controller expects what the last announcement said.                 *)
Announced ==
  expecting = IF (i = 1 /\ line = 6) \/ (i = 2 /\ line = 5) THEN "config"
              ELSE IF i = 2 /\ line = 7 THEN "mouse" ELSE "keyboard"

(* An answer waits only between the question and the read, and then there  *)
(* is something to read.                                                   *)
AnswerWaits ==
  LET asked == (i = 1 /\ line = 4) \/ (i = 2 /\ line = 3)
  IN  /\ asked => register.full
      /\ answer = <<>> \/ (asked /\ answer = <<config>>)

(* What the keyboard's driver makes of the configuration,                  *)
ForKeyboard(c) == 0 \in c /\ 4 \notin c

(* and what that is if it was given the current one.                       *)
KeyboardsOf(c) == (c \cup {0}) \ {4}

(* How the configuration, and the drivers' copy of it, come about.         *)
ConfigInTurn ==
  /\ ~Past(1, 2) => config = bios
  /\ Past(1, 2) /\ ~Past(1, 6) => config = bios \ {4}
  /\ Past(1, 4) /\ ~Past(1, 6) =>
       ForKeyboard(status)
       /\ (got.keyboard = "current" => status = KeyboardsOf(bios))
  /\ Past(1, 6) /\ ~Past(2, 5) => ForKeyboard(config)
  /\ Past(1, 6) /\ ~Past(2, 1) /\ got.keyboard = "current" =>
       config = KeyboardsOf(bios)
  /\ Past(2, 1) /\ ~Past(2, 5) =>
       5 \notin config
       /\ (got.keyboard = "current" => config = KeyboardsOf(bios) \ {5})
  /\ Past(2, 3) /\ ~Past(2, 5) /\ got.mouse = "current" =>
       status = config \cup {1}
  /\ Past(2, 5) /\ got.mouse = "current" =>
       /\ ForKeyboard(config) /\ 1 \in config /\ 5 \notin config
       /\ got.keyboard = "current" =>
            config = (KeyboardsOf(bios) \ {5}) \cup {1}

(* The mouse is told to report once, and is silent until it has obeyed.    *)
MouseOrdered ==
  /\ Past(2, 7) <=> "mouse" \in ordered \cup reporting
  /\ ~("mouse" \in ordered /\ "mouse" \in reporting)
  /\ "mouse" \notin reporting =>
       outbox.mouse = <<>> /\ ~(register.full /\ register.from = "mouse")

(* The first of the mouse's bytes that have not been read.                 *)
AckComesFirst ==
  ~acked /\ "mouse" \in reporting =>
    IF register.full /\ register.from = "mouse"
    THEN register.byte = AckByte
    ELSE outbox.mouse # <<>> /\ Head(outbox.mouse) = AckByte

DInv ==
  /\ MainPlace /\ DriversTypes /\ Announced /\ AnswerWaits /\ ConfigInTurn
  /\ MouseOrdered /\ AckComesFirst

-----------------------------------------------------------------------------
(* Lemmas about the statements.                                            *)

(* Two elements.                                                           *)
LEMMA AppendOne == ASSUME NEW a, NEW b PROVE Append(<<a>>, b) = <<a, b>>
<1> DEFINE S == {a, b}
           s == <<a>>
<1>1. s \in Seq(S) /\ Len(s) = 1 /\ s[1] = a OBVIOUS
<1>2. <<a, b>> \in Seq(S) /\ Len(<<a, b>>) = 2 OBVIOUS
<1> HIDE DEF S, s
<1>3. /\ Append(s, b) \in Seq(S) /\ Len(Append(s, b)) = 2
      /\ Append(s, b)[1] = a /\ Append(s, b)[2] = b
  <2>1. b \in S BY DEF S
  <2>2. /\ Append(s, b) \in Seq(S) /\ Len(Append(s, b)) = Len(s) + 1
        /\ \A k \in 1 .. Len(s) : Append(s, b)[k] = s[k]
        /\ Append(s, b)[Len(s) + 1] = b
    BY <1>1, <2>1, AppendProperties
  <2>3. Len(s) + 1 = 2 /\ 1 \in 1 .. Len(s) BY <1>1
  <2> QED BY <1>1, <2>2, <2>3
<1>4. \A k \in 1 .. 2 : Append(s, b)[k] = <<a, b>>[k]
  BY <1>3, SMT
<1>5. Append(s, b) = <<a, b>>
  BY <1>2, <1>3, <1>4, SeqEqual
<1> QED BY <1>5 DEF s

(* Which place is before which statement.                                  *)
LEMMA Places ==
  ASSUME MainPlace
  PROVE  /\ Activating <=> i \in {1, 2}
         /\ Done <=> i = 3
         /\ i = 1 => Driver = "keyboard"
         /\ i = 2 => Driver = "mouse"
         /\ At("drain") <=> i = 1 /\ line = 1
         /\ At("enable") <=> (i = 1 /\ line = 2) \/ (i = 2 /\ line = 1)
         /\ At("ask") <=> (i = 1 /\ line = 3) \/ (i = 2 /\ line = 2)
         /\ At("get") <=> (i = 1 /\ line = 4) \/ (i = 2 /\ line = 3)
         /\ At("announce") <=> (i = 1 /\ line = 5) \/ (i = 2 /\ line = 4)
         /\ At("set") <=> (i = 1 /\ line = 6) \/ (i = 2 /\ line = 5)
         /\ At("address") <=> i = 2 /\ line = 6
         /\ At("command") <=> (i = 1 /\ line = 7) \/ (i = 2 /\ line = 7)
         /\ At("ack") <=> i = 2 /\ line = 8
<1>1. Len(Added) = 2 /\ Added[1] = "keyboard" /\ Added[2] = "mouse"
  BY DEF Added
<1>2. Activating <=> i \in {1, 2}
  <2>1. i = 0 \/ (i \in {1, 2, 3} /\ drivers = Added)
    BY DEF MainPlace
  <2>2. Len(drivers) \in Nat
    <3>1. Len(<<>>) = 0 /\ Len(<<"keyboard">>) = 1 OBVIOUS
    <3> QED BY <1>1, <3>1 DEF MainPlace
  <2>3. i = 0 => ~Activating BY <2>2, SMT DEF Activating
  <2>4. drivers = Added => (Activating <=> i \in 1 .. 2)
    BY <1>1, Zenon DEF Activating
  <2>5. i \in 1 .. 2 <=> i \in {1, 2} BY SMT
  <2> QED BY <2>1, <2>3, <2>4, <2>5
<1>3. Done <=> i = 3
  BY <1>1, SMT DEF Done, MainPlace
<1>4. i \in {1, 2} => drivers = Added
  BY DEF MainPlace
<1>5. i = 1 => Driver = "keyboard" /\ line \in 1 .. 7
  BY <1>1, <1>4 DEF Driver, MainPlace
<1>6. i = 2 => Driver = "mouse" /\ line \in 1 .. 8
  BY <1>1, <1>4 DEF Driver, MainPlace
<1>7. ASSUME NEW statement
      PROVE  At(statement) <=>
               \/ i = 1 /\ Activate.keyboard[line] = statement
               \/ i = 2 /\ Activate.mouse[line] = statement
  BY <1>2, <1>5, <1>6 DEF At, Activate
<1> DEFINE K == <<"drain", "enable", "ask", "get", "announce", "set",
                  "command">>
           M == <<"enable", "ask", "get", "announce", "set", "address",
                  "command", "ack">>
<1>8. Activate.keyboard = K /\ Activate.mouse = M BY DEF Activate
<1>9. i = 1 => K[line] = CASE line = 1 -> "drain" [] line = 2 -> "enable"
                           [] line = 3 -> "ask" [] line = 4 -> "get"
                           [] line = 5 -> "announce" [] line = 6 -> "set"
                           [] line = 7 -> "command"
  BY <1>5, SMT
<1>10. i = 2 => M[line] = CASE line = 1 -> "enable" [] line = 2 -> "ask"
                            [] line = 3 -> "get" [] line = 4 -> "announce"
                            [] line = 5 -> "set" [] line = 6 -> "address"
                            [] line = 7 -> "command" [] line = 8 -> "ack"
  BY <1>6, SMT
<1> HIDE DEF K, M
<1>11. At("drain") <=> i = 1 /\ line = 1
  BY <1>5, <1>6, <1>7, <1>8, <1>9, <1>10, SMT
<1>12. At("enable") <=> (i = 1 /\ line = 2) \/ (i = 2 /\ line = 1)
  BY <1>5, <1>6, <1>7, <1>8, <1>9, <1>10, SMT
<1>13. At("ask") <=> (i = 1 /\ line = 3) \/ (i = 2 /\ line = 2)
  BY <1>5, <1>6, <1>7, <1>8, <1>9, <1>10, SMT
<1>14. At("get") <=> (i = 1 /\ line = 4) \/ (i = 2 /\ line = 3)
  BY <1>5, <1>6, <1>7, <1>8, <1>9, <1>10, SMT
<1>15. At("announce") <=> (i = 1 /\ line = 5) \/ (i = 2 /\ line = 4)
  BY <1>5, <1>6, <1>7, <1>8, <1>9, <1>10, SMT
<1>16. At("set") <=> (i = 1 /\ line = 6) \/ (i = 2 /\ line = 5)
  BY <1>5, <1>6, <1>7, <1>8, <1>9, <1>10, SMT
<1>17. At("address") <=> i = 2 /\ line = 6
  BY <1>5, <1>6, <1>7, <1>8, <1>9, <1>10, SMT
<1>18. At("command") <=> (i = 1 /\ line = 7) \/ (i = 2 /\ line = 7)
  BY <1>5, <1>6, <1>7, <1>8, <1>9, <1>10, SMT
<1>19. At("ack") <=> i = 2 /\ line = 8
  BY <1>5, <1>6, <1>7, <1>8, <1>9, <1>10, SMT
<1> QED BY <1>2, <1>3, <1>5, <1>6, <1>11, <1>12, <1>13, <1>14, <1>15, <1>16,
           <1>17, <1>18, <1>19

(* Which place Advance leads to.                                           *)
LEMMA Advances ==
  ASSUME MainPlace, i \in {1, 2}, Advance
  PROVE  /\ MainPlace'
         /\ i = 1 /\ line < 7 => i' = 1 /\ line' = line + 1
         /\ i = 1 /\ line = 7 => i' = 2 /\ line' = 1
         /\ i = 2 /\ line < 8 => i' = 2 /\ line' = line + 1
         /\ i = 2 /\ line = 8 => i' = 3 /\ line' = 1
<1>1. /\ i = 1 => Driver = "keyboard"
      /\ i = 2 => Driver = "mouse"
  BY Places
<1>2. Len(Activate.keyboard) = 7 /\ Len(Activate.mouse) = 8
  BY DEF Activate
<1>3. /\ i = 1 => Len(Activate[Driver]) = 7
      /\ i = 2 => Len(Activate[Driver]) = 8
  BY <1>1, <1>2
<1>4. drivers' = Added /\ drivers = Added
  BY DEF Advance, MainPlace
<1>5. CASE i = 1
  <2>1. line \in 1 .. 7 BY <1>5 DEF MainPlace
  <2>2. IF line < 7 THEN line' = line + 1 /\ i' = i ELSE line' = 1 /\ i' = i + 1
    BY <1>3, <1>5, Zenon DEF Advance
  <2> QED BY <1>4, <1>5, <2>1, <2>2, SMT DEF MainPlace
<1>6. CASE i = 2
  <2>1. line \in 1 .. 8 BY <1>6 DEF MainPlace
  <2>2. IF line < 8 THEN line' = line + 1 /\ i' = i ELSE line' = 1 /\ i' = i + 1
    BY <1>3, <1>6, Zenon DEF Advance
  <2> QED BY <1>4, <1>6, <2>1, <2>2, SMT DEF MainPlace
<1> QED BY <1>5, <1>6

-----------------------------------------------------------------------------
(* Every step keeps the invariant.                                         *)


(* The invariant holds at the beginning.                                   *)
LEMMA DriversInit == ASSUME DriversAssumption, Init PROVE DInv
<1>1. MainPlace BY DEF Init, MainPlace
<1>2. config \subseteq Bits BY DEF Init, DriversAssumption
<1>3. register \in [full : BOOLEAN, byte : SUBSET Bits,
                    from : Devices \cup {"controller", "nobody"}]
      /\ ~(register.full /\ register.from = "mouse")
  <2>1. CASE register = Empty BY <2>1 DEF Empty, Devices
  <2>2. CASE \E byte \in KeyBytes : register = Full(byte, "keyboard")
    BY <2>2 DEF Full, Devices, DriversAssumption
  <2> QED BY <2>1, <2>2 DEF Init
<1>4. outbox \in [Devices -> Seq(SUBSET Bits)] /\ outbox.mouse = <<>>
  BY DEF Init, Devices
<1>5. DriversTypes
  BY <1>2, <1>3, <1>4 DEF Init, DriversTypes, Devices, Kinds
<1>6. \A m \in 1 .. 3, k \in 1 .. 8 : ~Past(m, k)
  BY SMT DEF Init, Past
<1>7. Announced /\ AnswerWaits BY DEF Init, Announced, AnswerWaits
<1>8. ConfigInTurn BY <1>6 DEF Init, ConfigInTurn
<1>9. MouseOrdered /\ AckComesFirst
  BY <1>3, <1>4, <1>6 DEF Init, MouseOrdered, AckComesFirst
<1> QED BY <1>1, <1>5, <1>7, <1>8, <1>9 DEF DInv

(* Adding a driver and starting to activate.                               *)
LEMMA DriversStart ==
  ASSUME DInv, AddDriver \/ ActivateAll
  PROVE  DInv'
<1>1. Len(Added) = 2 /\ Added[1] = "keyboard" /\ Added[2] = "mouse"
  BY DEF Added
<1>2. i = 0 /\ line = 1 /\ line' = 1 /\ i' \in {0, 1}
      /\ drivers \in {<<>>, <<"keyboard">>, Added}
  BY SMT DEF AddDriver, ActivateAll, DInv, MainPlace
<1>3. MainPlace'
  <2>1. CASE AddDriver
    <3>1. Len(drivers) < 2 BY <1>1, <2>1 DEF AddDriver
    <3>2. drivers = <<>> \/ drivers = <<"keyboard">>
      BY <1>1, <1>2, <3>1, SMT
    <3>3. drivers' = Append(drivers, Added[Len(drivers) + 1])
      BY <2>1 DEF AddDriver
    <3>4. drivers = <<>> => drivers' = <<"keyboard">>
      BY <1>1, <3>3, SMT
    <3>5. ASSUME drivers = <<"keyboard">>
          PROVE  drivers' = <<"keyboard", "mouse">>
      <4>1. drivers' = Append(<<"keyboard">>, Added[2])
        <5>1. Len(drivers) + 1 = 2 BY <3>5
        <5> QED BY <3>3, <3>5, <5>1
      <4>2. Append(<<"keyboard">>, "mouse") = <<"keyboard", "mouse">>
        BY AppendOne
      <4> QED BY <1>1, <4>1, <4>2
    <3> QED BY <1>2, <2>1, <3>2, <3>4, <3>5 DEF AddDriver, MainPlace, Added
  <2>2. CASE ActivateAll
    <3>1. Len(drivers) = 2 BY <1>1, <2>2 DEF ActivateAll
    <3>2. drivers = Added BY <1>2, <3>1, SMT
    <3> QED BY <1>2, <2>2, <3>2, SMT DEF ActivateAll, MainPlace
  <2> QED BY <2>1, <2>2
<1>4. UNCHANGED <<controller, device, user, machine, got, acked, status>>
  BY DEF AddDriver, ActivateAll
<1>5. DriversTypes'
  BY <1>4 DEF DInv, DriversTypes, controller, device, machine
<1>6. (Announced /\ AnswerWaits)'
  BY <1>2, <1>4, SMT DEF DInv, Announced, AnswerWaits, controller
<1>7. \A m \in 1 .. 3, k \in 1 .. 8 : ~Past(m, k) /\ ~Past(m, k)'
  BY <1>2, SMT DEF Past
<1>8. ConfigInTurn'
  BY <1>4, <1>7 DEF DInv, ConfigInTurn, controller, machine
<1>9. (MouseOrdered /\ AckComesFirst)'
  BY <1>4, <1>7 DEF DInv, MouseOrdered, AckComesFirst, controller, device
<1> QED BY <1>3, <1>5, <1>6, <1>8, <1>9 DEF DInv

(* Reading a byte leaves none of the mouse's in the register, and does not *)
(* lose the acknowledgement.                                               *)
LEMMA ReadKeeps ==
  ASSUME DriversTypes, answer = <<>> \/ answer = <<config>>, Read
  PROVE  /\ register' \in [full : BOOLEAN, byte : SUBSET Bits,
                           from : Devices \cup {"controller", "nobody"}]
         /\ ~(register'.full /\ register'.from = "mouse")
         /\ register.full => answer' = <<>>
         /\ answer = <<>> => answer' = <<>>
         /\ answer' = <<>> \/ answer' = <<config>>
         /\ acked' \in BOOLEAN
         /\ AckComesFirst /\ UNCHANGED <<outbox, reporting>> => AckComesFirst'
<1> DEFINE R == [full : BOOLEAN, byte : SUBSET Bits,
                 from : Devices \cup {"controller", "nobody"}]
<1>1. register \in R /\ config \subseteq Bits /\ acked \in BOOLEAN
  BY DEF DriversTypes
<1>2. acked' \in BOOLEAN BY DEF Read
<1>3. CASE register.full /\ answer # <<>>
  <2>1. answer = <<config>> /\ Head(answer) = config /\ Tail(answer) = <<>>
    <3>1. Head(<<config>>) = config /\ Tail(<<config>>) = <<>> OBVIOUS
    <3> QED BY <1>3, <3>1
  <2>2. register' = [full |-> TRUE, byte |-> config, from |-> "controller"]
        /\ answer' = <<>>
    BY <1>3, <2>1 DEF Read, Full
  <2>3. register' \in R BY <1>1, <2>2
  <2>4. AckComesFirst /\ UNCHANGED <<outbox, reporting>> => AckComesFirst'
    <3> SUFFICES ASSUME AckComesFirst, UNCHANGED <<outbox, reporting>>,
                        ~acked', "mouse" \in reporting
                 PROVE  outbox.mouse # <<>> /\ Head(outbox.mouse) = AckByte
      BY <2>2 DEF AckComesFirst
    <3>1. ~acked /\ register # Full(AckByte, "mouse")
      BY <1>1 DEF Read
    <3>2. CASE register.from = "mouse"
      <4>1. register.byte = AckByte
        BY <1>3, <3>1, <3>2 DEF AckComesFirst
      <4>2. register = Full(AckByte, "mouse")
        BY <1>1, <1>3, <3>2, <4>1 DEF Full
      <4> QED BY <3>1, <4>2
    <3>3. CASE register.from # "mouse"
      BY <3>1, <3>3 DEF AckComesFirst
    <3> QED BY <3>2, <3>3
  <2> QED BY <1>2, <2>2, <2>3, <2>4
<1>4. CASE ~(register.full /\ answer # <<>>)
  <2>1. register' = [register EXCEPT !.full = FALSE] /\ answer' = answer
    BY <1>4 DEF Read
  <2>2. register' \in R /\ ~register'.full BY <1>1, <2>1
  <2>3. AckComesFirst /\ UNCHANGED <<outbox, reporting>> => AckComesFirst'
    <3> SUFFICES ASSUME AckComesFirst, UNCHANGED <<outbox, reporting>>,
                        ~acked', "mouse" \in reporting
                 PROVE  outbox.mouse # <<>> /\ Head(outbox.mouse) = AckByte
      BY <2>2 DEF AckComesFirst
    <3>1. ~acked /\ register # Full(AckByte, "mouse")
      BY <1>1 DEF Read
    <3>2. CASE register.full /\ register.from = "mouse"
      <4>1. register.byte = AckByte
        BY <3>1, <3>2 DEF AckComesFirst
      <4>2. register = Full(AckByte, "mouse")
        BY <1>1, <3>2, <4>1 DEF Full
      <4> QED BY <3>1, <4>2
    <3>3. CASE ~(register.full /\ register.from = "mouse")
      BY <3>1, <3>3 DEF AckComesFirst
    <3> QED BY <3>2, <3>3
  <2> QED BY <1>2, <1>4, <2>1, <2>2, <2>3
<1> QED BY <1>3, <1>4

(* The devices, the controller and the handlers.                           *)
LEMMA DevicesKeep ==
  ASSUME DriversAssumption, DInv,
         \/ \E byte \in KeyBytes : Strike(byte)
         \/ Move
         \/ \E d \in Devices : Obey(d) \/ Arrive(d)
         \/ Handle \/ UNCHANGED vars
  PROVE  DInv'
<1> DEFINE R == [full : BOOLEAN, byte : SUBSET Bits,
                 from : Devices \cup {"controller", "nobody"}]
<1> USE DEF DInv
<1>1. UNCHANGED <<drivers, i, line, status, config, expecting, bios,
                  overwrites, got>>
  BY DEF Strike, Move, Obey, Arrive, Handle, vars, manager, controller,
         machine, user, device
<1>2. \A m \in 1 .. 3, k \in 1 .. 8 : Past(m, k)' <=> Past(m, k)
  BY <1>1 DEF Past
<1>3. (MainPlace /\ Announced /\ ConfigInTurn)'
  <2>1. MainPlace' BY <1>1 DEF MainPlace
  <2>2. Announced' BY <1>1 DEF Announced
  <2>3. ConfigInTurn' BY <1>1, <1>2 DEF ConfigInTurn
  <2> QED BY <2>1, <2>2, <2>3
<1>4. \A d \in Devices : outbox[d] \in Seq(SUBSET Bits)
  BY DEF DriversTypes
<1>5. ASSUME NEW byte \in KeyBytes, Strike(byte) PROVE DInv'
  <2>1. byte \in SUBSET Bits BY DEF DriversAssumption
  <2>2. Append(outbox.keyboard, byte) \in Seq(SUBSET Bits)
    BY <1>4, <2>1 DEF Devices
  <2>3. outbox' = [outbox EXCEPT !.keyboard = Append(@, byte)]
        /\ UNCHANGED <<register, answer, ordered, reporting, acked>>
    BY <1>5 DEF Strike, controller
  <2>4. outbox' \in [Devices -> Seq(SUBSET Bits)]
        /\ outbox'.mouse = outbox.mouse
    BY <2>2, <2>3 DEF DriversTypes, Devices
  <2>5. DriversTypes' BY <1>1, <2>3, <2>4 DEF DriversTypes
  <2>6. AnswerWaits' BY <1>1, <2>3 DEF AnswerWaits
  <2>7. MouseOrdered' BY <1>2, <2>3, <2>4 DEF MouseOrdered
  <2>8. AckComesFirst' BY <2>3, <2>4 DEF AckComesFirst
  <2> QED BY <1>3, <2>5, <2>6, <2>7, <2>8
<1>6. ASSUME Move PROVE DInv'
  <2>1. MouseByte \in SUBSET Bits BY DEF MouseByte, Bits
  <2>2. Append(outbox.mouse, MouseByte) \in Seq(SUBSET Bits)
    BY <1>4, <2>1 DEF Devices
  <2>3. /\ outbox' = [outbox EXCEPT !.mouse = Append(@, MouseByte)]
        /\ UNCHANGED <<register, answer, ordered, reporting, acked>>
        /\ "mouse" \in reporting
    BY <1>6 DEF Move, controller
  <2>4. outbox' \in [Devices -> Seq(SUBSET Bits)]
        /\ outbox'.mouse = Append(outbox.mouse, MouseByte)
    BY <2>2, <2>3 DEF DriversTypes, Devices
  <2>5. /\ Append(outbox.mouse, MouseByte) # <<>>
        /\ outbox.mouse # <<>> =>
             Head(Append(outbox.mouse, MouseByte)) = Head(outbox.mouse)
    <3>1. outbox.mouse \in Seq(SUBSET Bits) BY <1>4 DEF Devices
    <3>2. Append(outbox.mouse, MouseByte) # <<>>
      BY <2>1, <3>1, AppendProperties
    <3>3. Head(Append(outbox.mouse, MouseByte)) =
            IF outbox.mouse = <<>> THEN MouseByte ELSE Head(outbox.mouse)
      BY <3>1, HeadTailAppend
    <3> QED BY <3>2, <3>3
  <2>6. DriversTypes' BY <1>1, <2>3, <2>4 DEF DriversTypes
  <2>7. AnswerWaits' BY <1>1, <2>3 DEF AnswerWaits
  <2>8. MouseOrdered' BY <1>2, <2>3 DEF MouseOrdered
  <2>9. AckComesFirst' BY <2>3, <2>4, <2>5 DEF AckComesFirst
  <2> QED BY <1>3, <2>6, <2>7, <2>8, <2>9
<1>7. ASSUME NEW d \in Devices, Obey(d) PROVE DInv'
  <2>1. /\ d \in ordered /\ ordered' = ordered \ {d}
        /\ reporting' = reporting \cup {d}
        /\ outbox' = [outbox EXCEPT ![d] = <<AckByte>>]
        /\ UNCHANGED <<register, answer, acked>>
    BY <1>7 DEF Obey, controller
  <2>2. outbox' \in [Devices -> Seq(SUBSET Bits)]
    <3>1. <<AckByte>> \in Seq(SUBSET Bits) BY DEF AckByte, Bits
    <3> QED BY <2>1, <3>1 DEF DriversTypes
  <2>3. d # "mouse" => outbox'.mouse = outbox.mouse
    BY <2>1 DEF DriversTypes, Devices
  <2>4. d = "mouse" => outbox'.mouse = <<AckByte>>
    BY <2>1 DEF DriversTypes, Devices
  <2>5. DriversTypes' BY <1>1, <2>1, <2>2 DEF DriversTypes
  <2>6. AnswerWaits' BY <1>1, <2>1 DEF AnswerWaits
  <2>7. MouseOrdered' BY <1>2, <2>1, <2>3 DEF MouseOrdered
  <2>8. AckComesFirst'
    <3>1. CASE d = "mouse"
      <4>1. ~(register.full /\ register.from = "mouse")
        BY <2>1, <3>1 DEF MouseOrdered
      <4>2. <<AckByte>> # <<>> /\ Head(<<AckByte>>) = AckByte OBVIOUS
      <4> QED BY <2>1, <2>4, <3>1, <4>1, <4>2 DEF AckComesFirst
    <3>2. CASE d # "mouse"
      BY <2>1, <2>3, <3>2 DEF AckComesFirst
    <3> QED BY <3>1, <3>2
  <2> QED BY <1>3, <2>5, <2>6, <2>7, <2>8
<1>8. ASSUME NEW d \in Devices, Arrive(d) PROVE DInv'
  <2>1. /\ outbox[d] # <<>> /\ ~register.full
        /\ register' = [full |-> TRUE, byte |-> Head(outbox[d]), from |-> d]
        /\ outbox' = [outbox EXCEPT ![d] = Tail(@)]
        /\ UNCHANGED <<answer, ordered, reporting, acked>>
    BY <1>8 DEF Arrive, Full
  <2>2. Head(outbox[d]) \in SUBSET Bits /\ Tail(outbox[d]) \in Seq(SUBSET Bits)
    BY <1>4, <2>1
  <2>3. outbox' \in [Devices -> Seq(SUBSET Bits)]
    BY <2>1, <2>2 DEF DriversTypes
  <2>4. register' \in R BY <2>1, <2>2
  <2>5. d # "mouse" => outbox'.mouse = outbox.mouse
    BY <2>1 DEF DriversTypes, Devices
  <2>6. DriversTypes' BY <1>1, <2>1, <2>3, <2>4 DEF DriversTypes
  <2>7. AnswerWaits' BY <1>1, <2>1 DEF AnswerWaits
  <2>8. d = "mouse" => "mouse" \in reporting
    BY <2>1 DEF MouseOrdered
  <2>9. MouseOrdered' BY <1>2, <2>1, <2>5, <2>8 DEF MouseOrdered
  <2>10. AckComesFirst' BY <2>1, <2>5 DEF AckComesFirst
  <2> QED BY <1>3, <2>6, <2>7, <2>9, <2>10
<1>9. ASSUME Handle PROVE DInv'
  <2>1. i = 3 BY <1>9, Places DEF Handle
  <2>2. answer = <<>> BY <2>1, SMT DEF AnswerWaits
  <2>3. Read /\ UNCHANGED <<outbox, ordered, reporting>>
    BY <1>9 DEF Handle, device
  <2>4. /\ register' \in R
        /\ ~(register'.full /\ register'.from = "mouse")
        /\ answer' = <<>> /\ acked' \in BOOLEAN
        /\ AckComesFirst'
    BY <2>2, <2>3, ReadKeeps
  <2>5. DriversTypes' BY <1>1, <2>3, <2>4 DEF DriversTypes
  <2>6. AnswerWaits' BY <1>1, <2>1, <2>4, SMT DEF AnswerWaits
  <2>7. MouseOrdered' BY <1>2, <2>3, <2>4 DEF MouseOrdered
  <2> QED BY <1>3, <2>4, <2>5, <2>6, <2>7
<1>10. ASSUME UNCHANGED vars PROVE DInv'
  <2>1. UNCHANGED <<register, answer, outbox, ordered, reporting, acked>>
    BY <1>10 DEF vars, controller, device
  <2>2. DriversTypes' BY <1>1, <2>1 DEF DriversTypes
  <2>3. AnswerWaits' BY <1>1, <2>1 DEF AnswerWaits
  <2>4. MouseOrdered' BY <1>2, <2>1 DEF MouseOrdered
  <2>5. AckComesFirst' BY <2>1 DEF AckComesFirst
  <2> QED BY <1>3, <2>2, <2>3, <2>4, <2>5
<1> QED BY <1>5, <1>6, <1>7, <1>8, <1>9, <1>10

(* What a step of a driver that reads nothing from the register leaves to  *)
(* be shown.                                                               *)
LEMMA StepKeeps ==
  ASSUME DInv, i \in {1, 2}, Advance,
         UNCHANGED <<register, answer, outbox, reporting, machine, got, acked>>,
         answer = <<>>,
         status' \subseteq Bits, config' \subseteq Bits,
         ordered' \subseteq Devices,
         Announced', ConfigInTurn',
         ~((i = 1 /\ line = 3) \/ (i = 2 /\ line = 2)),
         Past(2, 7)' <=> "mouse" \in ordered' \cup reporting,
         "mouse" \in ordered' \ ordered => "mouse" \notin reporting
  PROVE  DInv'
<1> USE DEF DInv
<1>1. MainPlace' /\ UNCHANGED <<bios, overwrites>>
  BY Advances DEF machine
<1>2. DriversTypes' BY <1>1 DEF DriversTypes
<1>3. AnswerWaits'
  <2>1. ~((i' = 1 /\ line' = 4) \/ (i' = 2 /\ line' = 3))
    BY Advances, SMT DEF MainPlace
  <2> QED BY <2>1 DEF AnswerWaits
<1>4. MouseOrdered' BY DEF MouseOrdered
<1>5. AckComesFirst' BY DEF AckComesFirst
<1> QED BY <1>1, <1>2, <1>3, <1>4, <1>5

(* The statements that neither ask nor read.                               *)
LEMMA SilentStatementsKeep ==
  ASSUME DInv, Enable \/ Announce \/ Set \/ Command
  PROVE  DInv'
<1> USE DEF DInv
<1>1. UNCHANGED <<register, answer, outbox, reporting, machine, got, acked>>
  BY DEF Enable, Announce, Set, Command, device
<1>2. Advance /\ i \in {1, 2}
  BY Places DEF Enable, Announce, Set, Command
<1>3. /\ i = 1 => Driver = "keyboard" /\ line \in 1 .. 7
      /\ i = 2 => Driver = "mouse" /\ line \in 1 .. 8
  BY Places, SMT DEF MainPlace
<1>4. /\ i = 1 /\ line < 7 => i' = 1 /\ line' = line + 1
      /\ i = 1 /\ line = 7 => i' = 2 /\ line' = 1
      /\ i = 2 /\ line < 8 => i' = 2 /\ line' = line + 1
      /\ i = 2 /\ line = 8 => i' = 3 /\ line' = 1
  BY <1>2, Advances
<1>5. bios' = bios /\ got' = got BY <1>1 DEF machine
<1>6. /\ status \subseteq Bits /\ config \subseteq Bits
      /\ ordered \subseteq Devices
  BY DEF DriversTypes
<1>7. ASSUME Enable PROVE DInv'
  <2>1. (i = 1 /\ line = 2) \/ (i = 2 /\ line = 1)
    BY <1>7, Places DEF Enable
  <2>2. answer = <<>> BY <2>1, SMT DEF AnswerWaits
  <2>3. /\ i = 1 => config' = config \ {4}
        /\ i = 2 => config' = config \ {5}
    BY <1>2, <1>3, <1>7 DEF Enable, OffBit
  <2>4. UNCHANGED <<status, expecting, ordered>> BY <1>7 DEF Enable, device
  <2>5. config' \subseteq Bits BY <1>6, <1>7 DEF Enable
  <2>6. Announced' BY <1>4, <2>1, <2>4, SMT DEF Announced
  <2>7. CASE i = 1
    <3>1. i' = 1 /\ line' = 3 /\ line = 2 BY <1>4, <2>1, <2>7, SMT
    <3>2. ConfigInTurn' BY <1>5, <2>3, <2>7, <3>1, SMT DEF ConfigInTurn, Past
    <3>3. ~Past(2, 7)' /\ ~Past(2, 7) BY <2>7, <3>1, SMT DEF Past
    <3> QED BY <1>1, <1>2, <1>6, <2>2, <2>4, <2>5, <2>6, <2>7, <3>1, <3>2,
               <3>3, StepKeeps DEF MouseOrdered
  <2>8. CASE i = 2
    <3>1. i' = 2 /\ line' = 2 /\ line = 1 BY <1>4, <2>1, <2>8, SMT
    <3>2. /\ Past(1, 6) /\ ~Past(2, 1) /\ ~Past(2, 5)
          /\ \A k \in 1 .. 8 : Past(1, k)'
          /\ Past(2, 1)' /\ \A k \in 2 .. 8 : ~Past(2, k)'
      BY <2>8, <3>1, SMT DEF Past
    <3>3. /\ ForKeyboard(config)
          /\ got.keyboard = "current" => config = KeyboardsOf(bios)
      BY <3>2 DEF ConfigInTurn
    <3>4. /\ ForKeyboard(config') /\ 5 \notin config'
          /\ got.keyboard = "current" => config' = KeyboardsOf(bios) \ {5}
      BY <2>3, <2>8, <3>3 DEF ForKeyboard
    <3>5. ConfigInTurn' BY <1>5, <3>2, <3>4 DEF ConfigInTurn
    <3>6. ~Past(2, 7)' /\ ~Past(2, 7) BY <2>8, <3>1, SMT DEF Past
    <3> QED BY <1>1, <1>2, <1>6, <2>2, <2>4, <2>5, <2>6, <2>8, <3>1, <3>5,
               <3>6, StepKeeps DEF MouseOrdered
  <2> QED BY <1>2, <2>7, <2>8
<1>8. ASSUME Announce PROVE DInv'
  <2>1. \/ i = 1 /\ line = 5 /\ expecting' = "config"
        \/ i = 2 /\ line = 4 /\ expecting' = "config"
        \/ i = 2 /\ line = 6 /\ expecting' = "mouse"
    BY <1>8, Places DEF Announce
  <2>2. answer = <<>> BY <2>1, SMT DEF AnswerWaits
  <2>3. UNCHANGED <<status, config, ordered>> BY <1>8 DEF Announce, device
  <2>4. i' = i /\ line' = line + 1 BY <1>4, <2>1, SMT
  <2>5. Announced' BY <2>1, <2>4, SMT DEF Announced
  <2>6. /\ Past(1, 2)' <=> Past(1, 2)
        /\ Past(1, 4)' <=> Past(1, 4)
        /\ Past(1, 6)' <=> Past(1, 6)
        /\ Past(2, 1)' <=> Past(2, 1)
        /\ Past(2, 3)' <=> Past(2, 3)
        /\ Past(2, 5)' <=> Past(2, 5)
        /\ ~Past(2, 7)' /\ ~Past(2, 7)
    BY <2>1, <2>4, SMT DEF Past
  <2>7. ConfigInTurn' BY <1>5, <2>3, <2>6 DEF ConfigInTurn
  <2>8. ~((i = 1 /\ line = 3) \/ (i = 2 /\ line = 2)) BY <2>1, SMT
  <2> QED BY <1>1, <1>2, <1>6, <2>2, <2>3, <2>5, <2>6, <2>7, <2>8, StepKeeps
             DEF MouseOrdered
<1>9. ASSUME Set PROVE DInv'
  <2>1. (i = 1 /\ line = 6) \/ (i = 2 /\ line = 5)
    BY <1>9, Places DEF Set
  <2>2. answer = <<>> BY <2>1, SMT DEF AnswerWaits
  <2>3. expecting = "config" BY <2>1, SMT DEF Announced
  <2>4. /\ config' = status /\ expecting' = "keyboard"
        /\ UNCHANGED <<status, ordered>>
    BY <1>9, <2>3 DEF Set, WriteData
  <2>5. i' = i /\ line' = line + 1 BY <1>4, <2>1, SMT
  <2>6. Announced' BY <2>1, <2>4, <2>5, SMT DEF Announced
  <2>7. ~Past(2, 7)' /\ ~Past(2, 7) BY <2>1, <2>5, SMT DEF Past
  <2>8. ConfigInTurn'
    <3>1. CASE i = 1
      <4>1. line = 6 /\ i' = 1 /\ line' = 7 BY <2>1, <2>5, <3>1, SMT
      <4>2. /\ Past(1, 4) /\ ~Past(1, 6)
            /\ \A k \in 1 .. 6 : Past(1, k)'
            /\ \A k \in 1 .. 8 : ~Past(2, k)'
        BY <3>1, <4>1, SMT DEF Past
      <4>3. /\ ForKeyboard(status)
            /\ got.keyboard = "current" => status = KeyboardsOf(bios)
        BY <4>2 DEF ConfigInTurn
      <4> QED BY <1>5, <2>4, <4>2, <4>3 DEF ConfigInTurn
    <3>2. CASE i = 2
      <4>1. line = 5 /\ i' = 2 /\ line' = 6 BY <2>1, <2>5, <3>2, SMT
      <4>2. /\ Past(1, 6) /\ Past(2, 1) /\ Past(2, 3) /\ ~Past(2, 5)
            /\ \A k \in 1 .. 8 : Past(1, k)'
            /\ \A k \in 1 .. 5 : Past(2, k)'
        BY <3>2, <4>1, SMT DEF Past
      <4>3. /\ ForKeyboard(config) /\ 5 \notin config
            /\ got.keyboard = "current" => config = KeyboardsOf(bios) \ {5}
            /\ got.mouse = "current" => status = config \cup {1}
        BY <4>2 DEF ConfigInTurn
      <4>4. got.mouse = "current" =>
              /\ ForKeyboard(status) /\ 1 \in status /\ 5 \notin status
              /\ got.keyboard = "current" =>
                   status = (KeyboardsOf(bios) \ {5}) \cup {1}
        BY <4>3 DEF ForKeyboard
      <4> QED BY <1>5, <2>4, <4>2, <4>4 DEF ConfigInTurn
    <3> QED BY <1>2, <3>1, <3>2
  <2>9. ~((i = 1 /\ line = 3) \/ (i = 2 /\ line = 2)) BY <2>1, SMT
  <2> QED BY <1>1, <1>2, <1>6, <2>2, <2>4, <2>6, <2>7, <2>8, <2>9, StepKeeps
             DEF MouseOrdered
<1>10. ASSUME Command PROVE DInv'
  <2>1. (i = 1 /\ line = 7) \/ (i = 2 /\ line = 7)
    BY <1>10, Places DEF Command
  <2>2. answer = <<>> BY <2>1, SMT DEF AnswerWaits
  <2>3. expecting = IF i = 1 THEN "keyboard" ELSE "mouse"
    BY <2>1, SMT DEF Announced
  <2>4. /\ config' = config /\ expecting' = "keyboard" /\ status' = status
        /\ ordered' = ordered \cup {expecting}
    BY <1>10, <2>3 DEF Command, WriteData
  <2>5. /\ i = 1 => i' = 2 /\ line' = 1
        /\ i = 2 => i' = 2 /\ line' = 8
    BY <1>4, <2>1, SMT
  <2>6. Announced' BY <2>1, <2>4, <2>5, SMT DEF Announced
  <2>7. /\ Past(1, 2)' <=> Past(1, 2)
        /\ Past(1, 4)' <=> Past(1, 4)
        /\ Past(1, 6)' <=> Past(1, 6)
        /\ Past(2, 1)' <=> Past(2, 1)
        /\ Past(2, 3)' <=> Past(2, 3)
        /\ Past(2, 5)' <=> Past(2, 5)
        /\ Past(2, 7)' <=> i = 2
        /\ ~Past(2, 7)
    BY <2>1, <2>5, SMT DEF Past
  <2>8. ConfigInTurn' BY <1>5, <2>4, <2>7 DEF ConfigInTurn
  <2>9. ~((i = 1 /\ line = 3) \/ (i = 2 /\ line = 2)) BY <2>1, SMT
  <2>10. "mouse" \notin ordered /\ "mouse" \notin reporting
    BY <2>7 DEF MouseOrdered
  <2>11. ordered' \subseteq Devices /\ ("mouse" \in ordered' <=> i = 2)
    BY <1>2, <1>6, <2>3, <2>4, <2>10 DEF Devices
  <2> QED BY <1>1, <1>2, <1>6, <2>2, <2>4, <2>6, <2>7, <2>8, <2>9, <2>10,
             <2>11, StepKeeps
<1> QED BY <1>7, <1>8, <1>9, <1>10

(* The statements that ask and read.                                       *)
LEMMA ReadingStatementsKeep ==
  ASSUME DInv, Drain \/ Ask \/ Get \/ AckRead
  PROVE  DInv'
<1> DEFINE R == [full : BOOLEAN, byte : SUBSET Bits,
                 from : Devices \cup {"controller", "nobody"}]
<1> USE DEF DInv
<1>1. /\ UNCHANGED <<config, expecting, outbox, ordered, reporting, bios,
                     overwrites>>
      /\ (~Get => got' = got)
  BY DEF Drain, Ask, Get, AckRead, device, machine
<1>2. i \in {1, 2}
  BY Places DEF Drain, Ask, Get, AckRead
<1>3. /\ i = 1 => Driver = "keyboard" /\ line \in 1 .. 7
      /\ i = 2 => Driver = "mouse" /\ line \in 1 .. 8
  BY Places, SMT DEF MainPlace
<1>4. ASSUME Advance
      PROVE  /\ MainPlace'
             /\ i = 1 /\ line < 7 => i' = 1 /\ line' = line + 1
             /\ i = 1 /\ line = 7 => i' = 2 /\ line' = 1
             /\ i = 2 /\ line < 8 => i' = 2 /\ line' = line + 1
             /\ i = 2 /\ line = 8 => i' = 3 /\ line' = 1
  BY <1>2, <1>4, Advances
<1>5. answer = <<>> \/ answer = <<config>> BY DEF AnswerWaits
<1>6. CASE Drain
  <2>1. i = 1 /\ line = 1 BY <1>6, Places DEF Drain
  <2>2. answer = <<>> BY <2>1, SMT DEF AnswerWaits
  <2>3. status' = status BY <1>6 DEF Drain, manager
  <2>4. CASE register.full
    <3>1. Read /\ UNCHANGED <<drivers, i, line>>
      BY <1>6, <2>4 DEF Drain, manager
    <3>2. /\ register' \in R
          /\ ~(register'.full /\ register'.from = "mouse")
          /\ answer' = <<>> /\ acked' \in BOOLEAN /\ AckComesFirst'
      BY <1>1, <1>5, <2>2, <3>1, ReadKeeps
    <3>3. \A m \in 1 .. 3, k \in 1 .. 8 : Past(m, k)' <=> Past(m, k)
      BY <3>1 DEF Past
    <3>4. MainPlace' BY <3>1 DEF MainPlace
    <3>5. DriversTypes' BY <1>1, <1>6, <2>3, <3>2 DEF DriversTypes, Drain
    <3>6. Announced' BY <1>1, <3>1 DEF Announced
    <3>7. AnswerWaits' BY <2>1, <3>1, <3>2, SMT DEF AnswerWaits
    <3>8. ConfigInTurn'
      BY <1>1, <1>6, <2>3, <3>3 DEF ConfigInTurn, Drain
    <3>9. MouseOrdered' BY <1>1, <3>2, <3>3 DEF MouseOrdered
    <3> QED BY <3>2, <3>4, <3>5, <3>6, <3>7, <3>8, <3>9
  <2>5. CASE ~register.full
    <3>1. Advance /\ UNCHANGED <<register, answer, acked, machine, got>>
      BY <1>6, <2>5 DEF Drain
    <3>2. i' = 1 /\ line' = 2 BY <1>4, <2>1, <3>1, SMT
    <3>3. Announced' BY <1>1, <2>1, <3>2, SMT DEF Announced
    <3>4. \A m \in 1 .. 2, k \in 2 .. 8 : Past(m, k)' <=> Past(m, k)
      BY <2>1, <3>2, SMT DEF Past
    <3>5. ~Past(2, 1)' /\ ~Past(2, 1) BY <2>1, <3>2, SMT DEF Past
    <3>6. ConfigInTurn' BY <1>1, <2>3, <3>1, <3>4, <3>5 DEF ConfigInTurn
    <3>7. ~((i = 1 /\ line = 3) \/ (i = 2 /\ line = 2)) BY <2>1, SMT
    <3>8. Past(2, 7)' <=> "mouse" \in ordered' \cup reporting
      BY <1>1, <3>4 DEF MouseOrdered
    <3>9. status' \subseteq Bits /\ config' \subseteq Bits
          /\ ordered' \subseteq Devices /\ ordered' \ ordered = {}
      BY <1>1, <2>3 DEF DriversTypes
    <3> QED BY <1>1, <1>2, <2>2, <3>1, <3>3, <3>6, <3>7, <3>8, <3>9, StepKeeps
  <2> QED BY <2>4, <2>5
<1>7. CASE Ask
  <2>1. (i = 1 /\ line = 3) \/ (i = 2 /\ line = 2)
    BY <1>7, Places DEF Ask
  <2>2. answer = <<>> BY <2>1, SMT DEF AnswerWaits
  <2>3. Advance /\ UNCHANGED <<status, acked>> BY <1>7 DEF Ask
  <2>4. i' = i /\ line' = line + 1 BY <1>4, <2>1, <2>3, SMT
  <2>5. /\ ~Past(2, 7) /\ ~Past(2, 7)'
        /\ Past(1, 2)' <=> Past(1, 2)
        /\ Past(1, 4)' <=> Past(1, 4)
        /\ Past(1, 6)' <=> Past(1, 6)
        /\ Past(2, 1)' <=> Past(2, 1)
        /\ Past(2, 3)' <=> Past(2, 3)
        /\ Past(2, 5)' <=> Past(2, 5)
    BY <2>1, <2>4, SMT DEF Past
  <2>6. "mouse" \notin reporting
        /\ ~(register.full /\ register.from = "mouse")
    BY <2>5 DEF MouseOrdered
  <2>7. \/ /\ register' = register /\ register.full
           /\ answer' = <<config>>
        \/ register' = Full(config, "controller") /\ answer' = <<>>
    <3>1. Append(<<>>, config) = <<config>> OBVIOUS
    <3> QED BY <1>7, <2>2, <3>1 DEF Ask, Answer
  <2>8. register' \in R /\ register'.full /\ register'.from # "mouse"
    <3>1. register \in R /\ config \in SUBSET Bits BY DEF DriversTypes
    <3>2. CASE register' = register /\ register.full
      BY <2>6, <3>1, <3>2
    <3>3. CASE register' = Full(config, "controller")
      BY <3>1, <3>3 DEF Full
    <3> QED BY <2>7, <3>2, <3>3
  <2>9. MainPlace' BY <1>4, <2>3
  <2>10. DriversTypes' BY <1>1, <1>7, <2>3, <2>8 DEF DriversTypes, Ask
  <2>11. Announced' BY <1>1, <2>1, <2>4, SMT DEF Announced
  <2>12. (i' = 1 /\ line' = 4) \/ (i' = 2 /\ line' = 3)
    BY <2>1, <2>4, SMT
  <2>13. AnswerWaits' BY <1>1, <2>7, <2>8, <2>12 DEF AnswerWaits
  <2>14. ConfigInTurn' BY <1>1, <1>7, <2>3, <2>5 DEF ConfigInTurn, Ask
  <2>15. MouseOrdered' BY <1>1, <2>5, <2>8 DEF MouseOrdered
  <2>16. AckComesFirst' BY <1>1, <2>6 DEF AckComesFirst
  <2> QED BY <2>9, <2>10, <2>11, <2>13, <2>14, <2>15, <2>16
<1>8. CASE Get
  <2>1. (i = 1 /\ line = 4) \/ (i = 2 /\ line = 3)
    BY <1>8, Places DEF Get
  <2>2. register.full BY <2>1 DEF AnswerWaits
  <2>3. /\ Read /\ Advance /\ status' = Status(register.byte)
        /\ got' = [got EXCEPT ![Driver] = Kind]
    BY <1>8 DEF Get
  <2>4. i' = i /\ line' = line + 1 BY <1>4, <2>1, <2>3, SMT
  <2>5. /\ register' \in R
        /\ ~(register'.full /\ register'.from = "mouse")
        /\ answer' = <<>> /\ acked' \in BOOLEAN /\ AckComesFirst'
    BY <1>1, <1>5, <2>2, <2>3, ReadKeeps
  <2>6. register \in R /\ register.byte \subseteq Bits
    BY DEF DriversTypes
  <2>7. Kind \in Kinds /\ (Kind = "current" => register.byte = config)
    BY <2>6 DEF Kind, Kinds, Devices
  <2>8. /\ i = 1 => status' = (register.byte \cup {0}) \ {4}
        /\ i = 2 => status' = register.byte \cup {1}
    BY <1>3, <2>3 DEF Status, IrqBit, OffBit
  <2>9. status' \subseteq Bits BY <1>2, <2>6, <2>8, SMT DEF Bits
  <2>10. /\ got' \in [Devices -> Kinds]
         /\ i = 1 => got'.keyboard = Kind
         /\ i = 2 => got'.keyboard = got.keyboard /\ got'.mouse = Kind
    BY <1>3, <2>3, <2>7 DEF DriversTypes, Devices
  <2>11. MainPlace' BY <1>4, <2>3
  <2>12. DriversTypes' BY <1>1, <2>5, <2>9, <2>10 DEF DriversTypes
  <2>13. Announced' BY <1>1, <2>1, <2>4, SMT DEF Announced
  <2>14. AnswerWaits'
    <3>1. ~((i' = 1 /\ line' = 4) \/ (i' = 2 /\ line' = 3))
      BY <2>1, <2>4, SMT
    <3> QED BY <2>5, <3>1 DEF AnswerWaits
  <2>15. ~Past(2, 7) /\ ~Past(2, 7)' BY <2>1, <2>4, SMT DEF Past
  <2>16. ConfigInTurn'
    <3>1. CASE i = 1
      <4>1. line = 4 /\ i' = 1 /\ line' = 5 BY <2>1, <2>4, <3>1, SMT
      <4>2. /\ Past(1, 2) /\ ~Past(1, 6)
            /\ Past(1, 2)' /\ Past(1, 4)' /\ ~Past(1, 6)'
            /\ \A k \in 1 .. 8 : ~Past(2, k)'
        BY <3>1, <4>1, SMT DEF Past
      <4>3. config = bios \ {4} BY <4>2 DEF ConfigInTurn
      <4>4. /\ ForKeyboard(status')
            /\ got'.keyboard = "current" => status' = KeyboardsOf(bios)
        BY <2>7, <2>8, <2>10, <3>1, <4>3 DEF ForKeyboard, KeyboardsOf
      <4> QED BY <1>1, <4>2, <4>3, <4>4 DEF ConfigInTurn
    <3>2. CASE i = 2
      <4>1. line = 3 /\ i' = 2 /\ line' = 4 BY <2>1, <2>4, <3>2, SMT
      <4>2. /\ Past(1, 6) /\ Past(2, 1) /\ ~Past(2, 5)
            /\ \A k \in 1 .. 8 : Past(1, k)'
            /\ Past(2, 1)' /\ Past(2, 3)' /\ ~Past(2, 5)'
        BY <3>2, <4>1, SMT DEF Past
      <4>3. /\ ForKeyboard(config) /\ 5 \notin config
            /\ got.keyboard = "current" => config = KeyboardsOf(bios) \ {5}
        BY <4>2 DEF ConfigInTurn
      <4>4. got'.mouse = "current" => status' = config \cup {1}
        BY <2>7, <2>8, <2>10, <3>2
      <4> QED BY <1>1, <2>10, <3>2, <4>2, <4>3, <4>4 DEF ConfigInTurn
    <3> QED BY <1>2, <3>1, <3>2
  <2>17. MouseOrdered' BY <1>1, <2>5, <2>15 DEF MouseOrdered
  <2> QED BY <2>5, <2>11, <2>12, <2>13, <2>14, <2>16, <2>17
<1>9. CASE AckRead
  <2>1. i = 2 /\ line = 8 BY <1>9, Places DEF AckRead
  <2>2. answer = <<>> BY <2>1, SMT DEF AnswerWaits
  <2>3. Read /\ Advance /\ UNCHANGED <<status, got>> BY <1>9 DEF AckRead
  <2>4. i' = 3 /\ line' = 1 BY <1>4, <2>1, <2>3
  <2>5. /\ register' \in R
        /\ ~(register'.full /\ register'.from = "mouse")
        /\ answer' = <<>> /\ acked' \in BOOLEAN /\ AckComesFirst'
    BY <1>1, <1>5, <2>2, <2>3, ReadKeeps
  <2>6. MainPlace' BY <1>4, <2>3
  <2>7. DriversTypes' BY <1>1, <2>3, <2>5 DEF DriversTypes
  <2>8. Announced' BY <1>1, <2>1, <2>4, SMT DEF Announced
  <2>9. AnswerWaits' BY <2>4, <2>5, SMT DEF AnswerWaits
  <2>10. \A m \in 1 .. 2, k \in 1 .. 7 : Past(m, k) /\ Past(m, k)'
    BY <2>1, <2>4, SMT DEF Past
  <2>11. ConfigInTurn' BY <1>1, <2>3, <2>10 DEF ConfigInTurn
  <2>12. MouseOrdered' BY <1>1, <2>5, <2>10 DEF MouseOrdered
  <2> QED BY <2>5, <2>6, <2>7, <2>8, <2>9, <2>11, <2>12
<1> QED BY <1>6, <1>7, <1>8, <1>9

-----------------------------------------------------------------------------
(* The theorems.                                                           *)

(* Each step keeps the invariant.                                          *)
LEMMA DriversNext ==
  ASSUME DriversAssumption, DInv, [Next]_vars
  PROVE  DInv'
<1>1. CASE AddDriver \/ ActivateAll BY <1>1, DriversStart
<1>2. CASE Enable \/ Announce \/ Set \/ Command
  BY <1>2, SilentStatementsKeep
<1>3. CASE Drain \/ Ask \/ Get \/ AckRead BY <1>3, ReadingStatementsKeep
<1>4. CASE \/ \E byte \in KeyBytes : Strike(byte)
           \/ Move
           \/ \E d \in Devices : Obey(d) \/ Arrive(d)
           \/ Handle \/ UNCHANGED vars
  BY <1>4, DevicesKeep
<1> QED BY <1>1, <1>2, <1>3, <1>4 DEF Next, Main, Loop

(* Whatever the BIOS left, and whenever the devices send, the statements   *)
(* of the two Activate functions make of the configuration what ConfigIn-  *)
(* Turn says, and the mouse is ordered once.                               *)
THEOREM DriversInvariant == Spec => []DInv
<1>1. Init => DInv BY DriversInit, DriversAssumption
<1>2. DInv /\ [Next]_vars => DInv' BY DriversNext, DriversAssumption
<1> QED BY <1>1, <1>2, PTL DEF Spec

(* What the list of drivers is at each length.                             *)
LEMMA AddedPrefixes ==
  {<<>>, <<"keyboard">>, Added} \subseteq
    {SubSeq(Added, 1, n) : n \in 0 .. Len(Added)}
<1>1. Added \in Seq({"keyboard", "mouse"}) /\ Len(Added) = 2
  BY DEF Added
<1>2. SubSeq(Added, 1, 0) = <<>> BY <1>1, SMT
<1>3. SubSeq(Added, 1, 1) = <<"keyboard">>
  <2>1. /\ SubSeq(Added, 1, 1) \in Seq({"keyboard", "mouse"})
        /\ Len(SubSeq(Added, 1, 1)) = 1
        /\ SubSeq(Added, 1, 1)[1] = "keyboard"
    BY <1>1, SMT DEF Added
  <2>2. <<"keyboard">> \in Seq({"keyboard", "mouse"}) /\ Len(<<"keyboard">>) = 1
        /\ \A k \in 1 .. 1 : <<"keyboard">>[k] = "keyboard"
    BY SMT
  <2>3. \A k \in 1 .. 1 : SubSeq(Added, 1, 1)[k] = <<"keyboard">>[k]
    BY <2>1, <2>2, SMT
  <2> QED BY <2>1, <2>2, <2>3, SeqEqual
<1>4. SubSeq(Added, 1, 2) = Added
  <2>1. /\ SubSeq(Added, 1, 2) \in Seq({"keyboard", "mouse"})
        /\ Len(SubSeq(Added, 1, 2)) = 2
        /\ \A k \in 1 .. 2 : SubSeq(Added, 1, 2)[k] = Added[k]
    BY <1>1, SMT
  <2> QED BY <1>1, <2>1, SeqEqual
<1>5. {0, 1, 2} \subseteq 0 .. Len(Added) BY <1>1, SMT
<1> QED BY <1>2, <1>3, <1>4, <1>5, Zenon

(* The variables have their types, and a driver that takes a byte for the  *)
(* configuration always finds one in the register.                         *)
THEOREM DriversTypeOK == Spec => []TypeOK
<1>1. DInv => TypeOK
  <2> SUFFICES ASSUME DInv PROVE TypeOK OBVIOUS
  <2> USE DEF DInv
  <2>1. drivers \in {SubSeq(Added, 1, n) : n \in 0 .. Len(Added)}
    BY AddedPrefixes DEF MainPlace
  <2>2. i \in 0 .. Len(Added) + 1
    <3>1. Len(Added) = 2 BY DEF Added
    <3> QED BY <3>1, SMT DEF MainPlace
  <2>3. Activating => line \in 1 .. Len(Activate[Driver])
    <3>1. i = 1 => line \in 1 .. 7 /\ Driver = "keyboard"
      BY Places, SMT DEF MainPlace
    <3>2. i = 2 => line \in 1 .. 8 /\ Driver = "mouse"
      BY Places, SMT DEF MainPlace
    <3>3. Len(Activate.keyboard) = 7 /\ Len(Activate.mouse) = 8
      BY DEF Activate
    <3>4. Activating => i \in {1, 2} BY Places
    <3> QED BY <3>1, <3>2, <3>3, <3>4
  <2>4. {status, config, bios, register.byte} \subseteq SUBSET Bits
        /\ register.from \in Devices \cup {"controller", "nobody"}
        /\ ordered \cup reporting \subseteq Devices
    BY DEF DriversTypes
  <2>5. expecting \in Devices \cup {"config"} BY DEF Announced, Devices
  <2>6. Len(answer) <= 1
    <3>1. Len(<<>>) = 0 /\ Len(<<config>>) = 1 OBVIOUS
    <3>2. answer = <<>> \/ answer = <<config>> BY DEF AnswerWaits
    <3>3. \A k \in {0, 1} : k <= 1 BY SMT
    <3> QED BY <3>1, <3>2, <3>3, Zenon
  <2>7. At("get") => register.full BY Places DEF AnswerWaits
  <2> QED BY <2>1, <2>2, <2>3, <2>4, <2>5, <2>6, <2>7 DEF TypeOK
<1> QED BY <1>1, DriversInvariant, PTL

(* For every configuration the BIOS may leave: after ActivateAll both      *)
(* devices have been told to report, and if the mouse's driver was given   *)
(* the current configuration, both can send and interrupt; if the keyboard *)
(* driver was as well, the other bits are as the BIOS left them.           *)
THEOREM BothArmed == Spec => []Armed
<1>1. DInv => Armed
  <2> SUFFICES ASSUME DInv, Done PROVE Armed
    BY DEF Armed
  <2> USE DEF DInv
  <2>1. i = 3 BY Places
  <2>2. Past(2, 7) /\ Past(2, 5) BY <2>1, SMT DEF Past
  <2>3. ordered \cup reporting = Devices
    BY <2>2 DEF MouseOrdered, DriversTypes, Devices
  <2>4. got.mouse = "current" =>
          /\ ForKeyboard(config) /\ 1 \in config /\ 5 \notin config
          /\ got.keyboard = "current" =>
               config = (KeyboardsOf(bios) \ {5}) \cup {1}
    BY <2>2 DEF ConfigInTurn
  <2>5. (KeyboardsOf(bios) \ {5}) \cup {1} = (bios \cup {0, 1}) \ {4, 5}
    <3>1. \A c : c \in (KeyboardsOf(bios) \ {5}) \cup {1}
                   <=> c \in (bios \cup {0, 1}) \ {4, 5}
      <4>1. 0 # 4 /\ 0 # 5 /\ 1 # 4 /\ 1 # 5 OBVIOUS
      <4> QED BY <4>1, Zenon DEF KeyboardsOf
    <3> QED BY <3>1
  <2> QED BY <2>3, <2>4, <2>5 DEF Armed, ForKeyboard
<1> QED BY <1>1, DriversInvariant, PTL

(* The mouse's answer to 0xF4 is either read by Activate or it is the      *)
(* first of the mouse's bytes that its handler gets.                       *)
THEOREM AcknowledgementFirst == Spec => []AckFirst
<1>1. DInv => AckFirst
  <2> SUFFICES ASSUME DInv, ~acked, "mouse" \in reporting
               PROVE  LET unread == (IF register.full
                                        /\ register.from = "mouse"
                                     THEN <<register.byte>> ELSE <<>>)
                                      \o outbox.mouse
                      IN  unread # <<>> /\ Head(unread) = AckByte
    BY DEF AckFirst
  <2> USE DEF DInv
  <2>1. outbox.mouse \in Seq(SUBSET Bits) BY DEF DriversTypes, Devices
  <2>2. CASE register.full /\ register.from = "mouse"
    <3>1. register.byte = AckByte BY <2>2 DEF AckComesFirst
    <3>2. AckByte \in SUBSET Bits BY DEF AckByte, Bits
    <3> DEFINE one == <<register.byte>>
    <3>3. one \in Seq(SUBSET Bits) /\ Len(one) = 1 /\ one[1] = AckByte
      BY <3>1, <3>2
    <3> HIDE DEF one
    <3>4. /\ one \o outbox.mouse \in Seq(SUBSET Bits)
          /\ Len(one \o outbox.mouse) = 1 + Len(outbox.mouse)
          /\ (one \o outbox.mouse)[1] = AckByte
      <4>1. /\ one \o outbox.mouse \in Seq(SUBSET Bits)
            /\ Len(one \o outbox.mouse) = Len(one) + Len(outbox.mouse)
            /\ \A k \in 1 .. Len(one) + Len(outbox.mouse) :
                 (one \o outbox.mouse)[k] =
                   IF k <= Len(one) THEN one[k]
                   ELSE outbox.mouse[k - Len(one)]
        BY <2>1, <3>3, ConcatProperties
      <4>2. Len(outbox.mouse) \in Nat BY <2>1
      <4> QED BY <3>3, <4>1, <4>2, SMT
    <3>5. Len(outbox.mouse) \in Nat BY <2>1
    <3>6. one \o outbox.mouse # <<>> BY <3>4, <3>5, SMT
    <3>7. Head(one \o outbox.mouse) = AckByte BY <3>4, <3>6
    <3> QED BY <2>2, <3>6, <3>7 DEF one
  <2>3. CASE ~(register.full /\ register.from = "mouse")
    <3>1. outbox.mouse # <<>> /\ Head(outbox.mouse) = AckByte
      BY <2>3 DEF AckComesFirst
    <3>2. <<>> \o outbox.mouse = outbox.mouse BY <2>1, ConcatEmptySeq
    <3> QED BY <2>3, <3>1, <3>2
  <2> QED BY <2>2, <2>3
<1> QED BY <1>1, DriversInvariant, PTL

=============================================================================
