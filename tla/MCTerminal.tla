----------------------------- MODULE MCTerminal -----------------------------
EXTENDS Terminal

CONSTANTS A, C

(* Two printable keys: "A" alone is an unknown command, "C" stands for   *)
(* the keys of "clear", and "A" "C" for those of "hello".                *)
MCChars == {A, C}
MCHello == <<A, C>>
MCClear == <<C>>
====
