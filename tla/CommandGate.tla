---------------------------- MODULE CommandGate ----------------------------
(***************************************************************************)
(* The decision on an owner's or an agent's command: the authority matrix, *)
(* the autonomy controller, the critical-action registry, the policy of    *)
(* the Security Guardian and the way the pipeline reconciles them.  Pure   *)
(* definitions over a request, in the order the code applies its rules.    *)
(***************************************************************************)
EXTENDS Naturals

Environments == {"development", "staging", "production"}

(* Verbs of a parsed command, with the permission each asks for.           *)
VerbPermission ==
    [read |-> "read", plan |-> "read", write |-> "write", delete |-> "write",
     execute |-> "execute", deploy |-> "execute", cancel |-> "execute",
     approve |-> "approve"]

(* What the command is about: the resources that make an action protected, *)
(* a project, and any other.                                               *)
ResourceAction ==
    [money |-> "financial", contract |-> "legal", secret |-> "account_security"]

Policies == {"none", "auto", "notify", "require_approval", "deny"}

(* A request: who asks, whether the agent holds the permission, whether a  *)
(* project was named, the owner's standing policies (autonomy, and an      *)
(* explicit deny), and whether the agent has a strong track record.        *)
RequestSpace ==
    [actor : {"owner", "agent"}, granted : BOOLEAN, project : BOOLEAN,
     verb : DOMAIN VerbPermission,
     resource : DOMAIN ResourceAction \cup {"project", "other"},
     env : Environments, denied : BOOLEAN, policy : Policies,
     trusted : BOOLEAN]

Action(r) == IF r.resource \in DOMAIN ResourceAction
             THEN ResourceAction[r.resource] ELSE r.verb

Permission(r) == VerbPermission[r.verb]

ProtectedActions == {"delete", "deploy", "financial", "legal", "account_security"}

CriticalRisk(r) ==
    \/ Action(r) \in {"financial", "legal", "account_security"}
    \/ Action(r) = "deploy" /\ r.env = "production"

Authorized(r) == IF r.actor = "owner" THEN r.project \/ r.resource = "project"
                 ELSE r.granted

Changes(r) == Permission(r) \in {"write", "execute"}

(* evaluateAuthority: the first rule that matches.                         *)
AuthorityDenies(r) ==
    \/ r.denied
    \/ ~Authorized(r)
    \/ r.actor = "agent" /\ Permission(r) = "approve"

AuthorityGuards(r) ==
    \/ Action(r) \in ProtectedActions
    \/ CriticalRisk(r)
    \/ r.env = "production" /\ Changes(r)

Authority(r) == IF AuthorityDenies(r) THEN "deny"
                ELSE IF AuthorityGuards(r) THEN "require_approval"
                ELSE IF Permission(r) = "read" THEN "auto"
                ELSE "notify"

(***************************************************************************)
(* evaluateAutonomy: a standing policy of the owner other than `deny' is   *)
(* taken as it is; a strong record lifts NOTIFY to AUTO.  An owner counts  *)
(* as having a strong record.                                              *)
(***************************************************************************)
Trusted(r) == r.actor = "owner" \/ r.trusted

Autonomy(r) ==
    IF Authority(r) = "deny" THEN "deny"
    ELSE IF r.policy \notin {"none", "deny"} THEN r.policy
    ELSE IF Authority(r) = "require_approval" THEN "require_approval"
    ELSE IF Authority(r) = "auto" \/ Trusted(r) THEN "auto"
    ELSE "notify"

(* classifyCriticalAction, for the actions the pipeline produces.          *)
Critical(r) ==
    IF \/ Action(r) \in {"financial", "legal"}
       \/ Action(r) = "delete" /\ r.env = "production" THEN "deny"
    ELSE IF Action(r) \in {"account_security", "deploy"} THEN "require_approval"
    ELSE "none"

(***************************************************************************)
(* evaluatePolicy: the registry, the limits (`stopped': a rate or cost      *)
(* limit, or a directive in the text), the floors of the environments, and  *)
(* only then the grant and the owner's explicit deny.  The pipeline passes  *)
(* its own environment as granted and no requested project, so isolation    *)
(* never bites here.                                                        *)
(***************************************************************************)
Policy(r, stopped) ==
    IF Critical(r) = "deny" \/ stopped THEN "deny"
    ELSE IF \/ Critical(r) = "require_approval"
            \/ r.env = "production" /\ Changes(r) THEN "require_approval"
    ELSE IF r.env = "staging" /\ Changes(r) THEN "notify"
    ELSE IF ~Authorized(r) \/ r.denied THEN "deny"
    ELSE "allow"

(* SecurityGuardian.evaluate: the lockdown before everything.               *)
Guardian(r, locked, stopped) == IF locked THEN "lockdown" ELSE Policy(r, stopped)

(* Mutant: a notification replaces whatever the controller selected.       *)
SelectedByNotify(r, security) ==
    IF security \in {"lockdown", "deny"} THEN "deny"
    ELSE IF security \in {"require_approval", "notify"} THEN security
    ELSE Autonomy(r)

(* The reconciliation in the pipeline.                                     *)
Selected(r, security) ==
    IF security \in {"lockdown", "deny"} THEN "deny"
    ELSE IF security = "require_approval" THEN "require_approval"
    ELSE IF security = "notify" /\ Autonomy(r) = "auto" THEN "notify"
    ELSE Autonomy(r)
=============================================================================
