----------------------------- MODULE MCKeyboard -----------------------------
(* Model-checking instance of Keyboard.                                     *)
EXTENDS Keyboard
=============================================================================
