----------------------------- MODULE MCEzoTyped -----------------------------
(***************************************************************************)
(* The typed operations on small instances.                                *)
(***************************************************************************)
EXTENDS EzoTypedProps

MCAll == Products

MCEcOnly == {"EC"}

(* Learn the outputs, change them, learn them again, read, and one more;   *)
(* a program that carries on needs two to be out of step, and a third.     *)
MCCommands == [c \in BOOLEAN |-> IF c THEN 5 ELSE 3]

MCOneQuery == [c \in {TRUE} |-> 1]
=============================================================================
