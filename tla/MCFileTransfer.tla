-------------------------- MODULE MCFileTransfer --------------------------
(* A small instance of FileTransfer: a folder with one item, and one item      *)
(* beside it.                                                                *)
EXTENDS FileTransfer

Paths == {<<"d">>, <<"d", "x">>, <<"e">>}
WithLink == [n \in Paths |-> CASE n = <<"d">> -> "folder"
                               [] n = <<"e">> -> "link"
                               [] OTHER -> "file"]
=============================================================================
