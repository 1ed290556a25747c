----------------------------- MODULE MCEquipment -----------------------------
(* Symmetries of EquipmentRegistry, for TLC. *)
EXTENDS EquipmentRegistry, TLC

SymAll == Permutations(Procs) \cup Permutations(Equipment) \cup Permutations(Serials)
            \cup Permutations(Values)
=============================================================================
