----------------------------- MODULE MCDialogue -----------------------------
(* Dialogue on small instances: see the bounds in README.md. *)
EXTENDS Dialogue

EveryInput == Kinds
FewInput == {"/login", "/bye", "", "EOF"}
SomeStray == {MSG_NUM, CMD_BYE_NUM}
=============================================================================
