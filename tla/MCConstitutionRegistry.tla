----------------------- MODULE MCConstitutionRegistry -----------------------
(* Two owners, of which the first activates and revokes and the second      *)
(* confirms and rolls back, and a system service on a pool of two.          *)
EXTENDS ConstitutionRegistry

CONSTANTS o1, o2, s1

MCUses == [c \in Clients |->
             CASE c = o1 -> {"ACTIVATED", Revoked}
               [] c = o2 -> {"ROLLED_BACK_TO_VERSION", Confirmed}
               [] c = s1 -> {ReadyRecorded}]
=============================================================================
