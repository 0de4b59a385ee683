---------------------------- MODULE MCBootLoader ----------------------------
(***************************************************************************)
(* BootLoader with a kernel of seven sectors: three of image, two of .bss  *)
(* that the loader's five sectors reach, and two that they do not.         *)
(***************************************************************************)
EXTENDS BootLoader

Maps == {<< >>, <<"ram">>, <<"ram", "hole", "high">>, <<"low", "ram">>}

=============================================================================
