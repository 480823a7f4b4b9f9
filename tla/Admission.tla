------------------------------ MODULE Admission ------------------------------
(***************************************************************************)
(* What the validator promises, stated without its loops: a request is    *)
(* admitted iff it names a pod, every plugin of its plugin map passes      *)
(* every restriction that applies to it (when restrictions are             *)
(* configured), and the RBAC policy grants every plugin in the pod's       *)
(* namespace to the pod's subject.  Each request is decided at once, in   *)
(* one step, with no dependence on any order of plugins, rules or         *)
(* restrictions.                                                           *)
(***************************************************************************)
EXTENDS AdmissionRules

CONSTANTS ConfigChoices, Requests

VARIABLES cfg, req, decision

avars == <<cfg, req, decision>>

AInit ==
    /\ cfg \in {c \in ConfigChoices : ValidateConfig(c)}
    /\ req = None
    /\ decision = "none"

ATake ==
    /\ decision # "pending"
    /\ req' \in Requests
    /\ decision' = "pending"
    /\ UNCHANGED cfg

ADecide ==
    /\ decision = "pending"
    /\ decision' = IF Allowed(cfg, req) THEN "allow" ELSE "deny"
    /\ UNCHANGED <<cfg, req>>

ANext == ATake \/ ADecide

ASpec == AInit /\ [][ANext]_avars /\ WF_avars(ADecide)

=============================================================================
