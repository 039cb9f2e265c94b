---------------------------- MODULE MCQueryChain ----------------------------
(***************************************************************************)
(* Blocks of a form for TLC: a master with two details that are linked by  *)
(* different fields.                                                       *)
(***************************************************************************)
EXTENDS QueryChain, TLC

Siblings == "m" :> <<"d", "e">> @@ "d" :> <<>> @@ "e" :> <<>>
SiblingsField == "d" :> "f" @@ "e" :> "g"
=============================================================================
