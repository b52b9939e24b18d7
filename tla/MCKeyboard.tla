----------------------------- MODULE MCKeyboard ------------------------------
(* One letter, one key without a character, one shift key and a buffer of    *)
(* four, in which wrapping, a full and an empty buffer all happen.           *)
EXTENDS Keyboard

MCKeymap == [s \in 0..1 |-> [k \in Keys |-> IF k = "F1" THEN "nul" ELSE IF s = 1 THEN "K" ELSE "k"]]

=============================================================================
