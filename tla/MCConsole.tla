----------------------------- MODULE MCConsole -----------------------------
(***************************************************************************)
(* Console with a log of seven bytes, panik messages of up to two and a    *)
(* screen of two rows and two columns.  The texts are empty, hold a line   *)
(* break or a NUL, are cut by panik's buffer and by printk's.              *)
(***************************************************************************)
EXTENDS Console

Chars  == {"a", "[", NL, NUL}
Glyphs == {"a", "["}
MsgTexts == {<< >>, <<"a", NL>>, <<"a", NUL, "a">>, <<"a", "a", "a", "a", "a", "a", NL, "a">>}
Colors == {"white", "red"}
Prefixes == [l \in {"EMERG"} |-> <<"[">>]
PrefixColor == [l \in {"EMERG"} |-> "red"]
Tag == <<"[">>
OtherTag == <<"a">>
HaltLine == <<"[", NL>>

=============================================================================
