----------------------------- MODULE MCKeyboard -----------------------------
(***************************************************************************)
(* Keyboard.tla with the keys that change its flags and keys that depend   *)
(* on them, and bytes of the mouse that can be taken for the keyboard's.   *)
(***************************************************************************)
EXTENDS Keyboard

Plain(code) == [code |-> code, extended |-> FALSE]
Extended(code) == [code |-> code, extended |-> TRUE]

(* A key of every class that changes a flag, and one that depends on two.  *)
MCKeys ==
  {Plain("left_shift"), Plain("caps_lock"), Plain("num_lock"),
   Extended("digit")}

(* Bytes with the value of an answer and of a lock key.                   *)
MCMouseBytes == {Ack, Make("caps_lock")}

(* Num lock and an arrow key.                                              *)
MCArrowsKeys == {Plain("num_lock"), Extended("digit")}

=============================================================================
