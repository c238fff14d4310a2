--------------------------- MODULE MCEncodeProgress ---------------------------
EXTENDS EncodeProgress
(* Two digits: cut short, 91 reads as 9, which is less, and past the       *)
(* duration it reads as more than all.                                      *)
FewDigits == {1, 9}
===============================================================================
