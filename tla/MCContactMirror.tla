-------------------------- MODULE MCContactMirror ---------------------------
(* Small instances of ContactMirror.                                       *)
EXTENDS ContactMirror

CONSTANT c1

OneBook == [h \in Hrefs |-> c1]
=============================================================================
