----------------------------- MODULE MCServerForm -----------------------------
(* ServerForm with both forms.  Ports are 1 and 2; the number 4 wraps to 1,  *)
(* and -1 to 2.                                                              *)
EXTENDS ServerForm

MCTyped == {Plain(-1), Plain(0), Plain(4), Text(1, "padded"), Text(1, "hex")}
=============================================================================
