----------------------------- MODULE MCConsole -----------------------------
(***************************************************************************)
(* Console.tla on a page of two rows and three columns, whose positions    *)
(* take two digits of base Byte.  Before kernelMain enables interrupts,    *)
(* and whenever it is not printing, a handler's print and a message of     *)
(* main never meet; after that they do.                                    *)
(***************************************************************************)
EXTENDS Console

(* Interrupts while main is not printing.                                  *)
MCBetween == {"idle"}

(* Interrupts at any time.                                                 *)
MCAlways ==
  {"idle", "next", "newline", "newline y", "newline x", "backspace",
   "backspace 0", "backspace x", "backspace x-1", "blank", "blank x",
   "blank cell", "char", "char x", "char cell", "advance", "advance x",
   "check x", "wrap", "wrap y", "wrap x", "check y", "wipe", "wipe rows",
   "wipe row", "wipe cols", "wipe cell", "wipe cell x", "wipe store",
   "col done", "col next", "row done", "row next", "home", "home y",
   "argument y", "argument x", "select low", "low", "select high", "high"}

(* All kinds of characters, alone and in one message.                      *)
MCTexts == {<<"a">>, <<"nl">>, <<"bs">>, <<"b", "nl">>, <<"a", "b", "bs">>}

(* The kernel's own messages contain no backspace.                         *)
MCMessages == {<<"a">>, <<"nl">>, <<"a", "nl", "a">>}

MCKeys == {"a", "nl", "bs"}

=============================================================================
