----------------------------- MODULE MCResults -----------------------------
(* Two policies, one measured at two loads, two request types. Of the files   *)
(* that may be appended, one puts an entry of each policy between two of the  *)
(* other.                                                                     *)
EXTENDS Results, TLC

MCFolders == {"runs/afp", "runs/psp"}
MCNameOf == ("runs/afp" :> "afp") @@ ("runs/psp" :> "psp")
MCLoads == {<<"runs/afp", 10>>, <<"runs/afp", 20>>, <<"runs/psp", 10>>}
MCTypes == {"type1", "type2"}
MCArgLists == {<<"runs/afp">>, <<"runs/afp", "runs/psp">>}
MCEntry(name) == [name |-> name, data |-> Foreign]
MCOthers == {<<MCEntry("afp")>>, <<MCEntry("psp"), MCEntry("afp"), MCEntry("psp")>>}
=============================================================================
