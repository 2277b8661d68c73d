--------------------------- MODULE MCMemoryStore ---------------------------
(***************************************************************************)
(* Two files. The first deployment declares both; the others drop one or   *)
(* lower its cap.                                                          *)
(***************************************************************************)
EXTENDS MemoryStore, TLC

MCSeed == "notes" :> <<"x">> @@ "log" :> <<>>
MCDeployments ==
  { "notes" :> 2 @@ "log" :> 2,
    "notes" :> 1 @@ "log" :> 2,
    "notes" :> 2 }

=============================================================================
