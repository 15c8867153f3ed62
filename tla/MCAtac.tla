-------------------------------- MODULE MCAtac -------------------------------
(* Two cores whose threads broadcast and receive directly, for TLC. *)
EXTENDS AtacMessages

Ranks == [t \in Cores |-> t]
Direct == {[t \in Cores |-> {"send", "receive"}]}

Spec == Init /\ [][Next]_atacVars
==============================================================================
