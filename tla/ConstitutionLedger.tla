------------------------- MODULE ConstitutionLedger -------------------------
(***************************************************************************)
(* What the Constitution registry promises, whatever calls run at once: a  *)
(* payload is confirmed once by the owner, becomes ready with evidence of  *)
(* its enforcement, and only then may be made the active one; an active    *)
(* constitution is replaced and never cleared, and a revocation raises the *)
(* epoch by exactly one and keeps the pointer.                             *)
(***************************************************************************)
EXTENDS Naturals

CONSTANTS Hashes,   \* the SHA-256 identities of constitution payloads
          NoHash,   \* no constitution is active
          Ratified  \* payloads confirmed and ready at the start

VARIABLES confirmed,  \* payloads with a SYSTEM_RATIFICATION_CONFIRMED event
          ready,      \* payloads with enforcement evidence
          active,     \* the active payload, or NoHash
          epoch       \* the revocation epoch

vars == <<confirmed, ready, active, epoch>>

Init == /\ confirmed = Ratified
        /\ ready = Ratified
        /\ active = NoHash
        /\ epoch = 0

Confirm(h) == /\ h \notin confirmed
              /\ confirmed' = confirmed \cup {h}
              /\ UNCHANGED <<ready, active, epoch>>

MakeReady(h) == /\ h \in confirmed
                /\ ready' = ready \cup {h}
                /\ UNCHANGED <<confirmed, active, epoch>>

Activate(h) == /\ h \in confirmed \cap ready
               /\ h # active
               /\ active' = h
               /\ UNCHANGED <<confirmed, ready, epoch>>

Revoke == /\ active # NoHash
          /\ epoch' = epoch + 1
          /\ UNCHANGED <<confirmed, ready, active>>

Next == \/ \E h \in Hashes : Confirm(h) \/ MakeReady(h) \/ Activate(h)
        \/ Revoke

Spec == Init /\ [][Next]_vars
=============================================================================
