------------------------------- MODULE Config -------------------------------
(***************************************************************************)
(* The configuration of the plugin (ValidationConfig, validation_config    *)
(* .go) and its structural check ValidateConfig.  A ValidationConfig is    *)
(* [policy, restrictions, enableDefaultValidator]; policy and restrictions *)
(* are pointers, None when the YAML omits them.  defaultValidatorConfig    *)
(* is opaque and passed nowhere, so it is left out.                        *)
(***************************************************************************)
EXTENDS Restrictions, Policy

CONSTANT None

\* The subject kinds validatePolicy accepts.
ValidKinds == {"User", "Group", "ServiceAccount"}

\* validatePolicy: every rule has namespaces, plugins and subjects, and
\* every subject a non-empty kind and name of a known kind.
ValidatePolicy(policy) ==
    \A i \in DOMAIN policy.rules :
        LET rule == policy.rules[i] IN
        /\ rule.namespaces # {}
        /\ rule.plugins # {}
        /\ rule.subjects # {}
        /\ \A s \in rule.subjects :
               /\ s.kind # ""
               /\ s.name # ""
               /\ s.kind \in ValidKinds

\* validateMutationRestriction
ValidateMutationRestriction(restriction) ==
    /\ restriction.action \in {RestrictionAllow, RestrictionDeny}
    /\ restriction.capabilities # {}
    /\ restriction.capabilities \subseteq MutationCapabilities

(***************************************************************************)
(* validateRestrictions: the default action if set, every global mutation *)
(* restriction, and every plugin restriction's pattern and mutation       *)
(* restrictions.  Pod restrictions, global or per plugin, are not looked  *)
(* at.                                                                     *)
(***************************************************************************)
ValidateRestrictions(rc) ==
    /\ rc.defaultAction # "" =>
           rc.defaultAction \in {RestrictionAllow, RestrictionDeny}
    /\ \A i \in DOMAIN rc.globalRestrictions :
           ValidateMutationRestriction(rc.globalRestrictions[i])
    /\ \A j \in DOMAIN rc.pluginRestrictions :
           LET pr == rc.pluginRestrictions[j] IN
           /\ pr.pluginPattern # <<>>
           /\ \A i \in DOMAIN pr.mutationRestrictions :
                  ValidateMutationRestriction(pr.mutationRestrictions[i])

\* ValidateConfig on a loaded (hence non-nil) configuration
ValidateConfig(config) ==
    /\ config.policy # None => ValidatePolicy(config.policy)
    /\ config.restrictions # None => ValidateRestrictions(config.restrictions)

=============================================================================
