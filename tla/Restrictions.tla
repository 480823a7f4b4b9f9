---------------------------- MODULE Restrictions ----------------------------
(***************************************************************************)
(* The technical restrictions layer: RestrictionsValidator of             *)
(* pkg/api/restrictions.go.  The validator keeps no state besides its     *)
(* configuration, so its helpers are operators over a RestrictionsConfig  *)
(* rc; its per-plugin loop is a step of the request process               *)
(* (PolicyValidator).                                                      *)
(*                                                                         *)
(* Configuration records (the YAML structs):                               *)
(*   MutationRestriction  [action, capabilities]                           *)
(*   PodSelector          [namespaces, labels, names]                      *)
(*   PodRestriction       [action, selector]                               *)
(*   PluginRestriction    [pluginPattern, mutationRestrictions,            *)
(*                         podRestrictions]                                *)
(*   RestrictionsConfig   [defaultAction, globalRestrictions,              *)
(*                         pluginRestrictions, globalPodRestrictions]      *)
(* The lists of restrictions, which the code iterates, are sequences.     *)
(* The lists of patterns and capabilities, which the code only searches,  *)
(* are sets.  Labels are functions from label keys to values.  A pod is   *)
(* [namespace, name, labels, annotations].                                 *)
(***************************************************************************)
EXTENDS Glob, Capabilities

RestrictionAllow == "allow"
RestrictionDeny  == "deny"

\* Some pattern of the list matches the value (the loops of podMatches).
AnyPatternMatches(patterns, value) == \E p \in patterns : GlobMatch(p, value)

\* Defective variant: an allowlist passes when it lists any used capability.
CheckMutationRestrictionAnyAllowed(restriction, capabilities) ==
    /\ restriction.action = RestrictionAllow =>
           capabilities \cap restriction.capabilities # {}
    /\ restriction.action = RestrictionDeny =>
           capabilities \cap restriction.capabilities = {}

(***************************************************************************)
(* checkMutationRestriction: an allowlist fails on a capability it does   *)
(* not list, a denylist on one it lists; any other action passes.  TRUE   *)
(* means no error.                                                         *)
(***************************************************************************)
CheckMutationRestriction(restriction, capabilities) ==
    /\ restriction.action = RestrictionAllow =>
           capabilities \subseteq restriction.capabilities
    /\ restriction.action = RestrictionDeny =>
           capabilities \cap restriction.capabilities = {}

\* podMatches: every non-empty part of the selector must match.
PodMatches(selector, pod) ==
    /\ selector.namespaces # {} =>
           AnyPatternMatches(selector.namespaces, pod.namespace)
    /\ \A key \in DOMAIN selector.labels :
           key \in DOMAIN pod.labels /\ pod.labels[key] = selector.labels[key]
    /\ selector.names # {} =>
           AnyPatternMatches(selector.names, pod.name)

\* checkPodRestriction: an allowlist needs the pod to match, a denylist
\* needs it not to; any other action passes.
CheckPodRestriction(restriction, pod) ==
    LET matches == PodMatches(restriction.selector, pod) IN
    /\ restriction.action = RestrictionAllow => matches
    /\ restriction.action = RestrictionDeny => ~matches

\* findPluginRestrictions: the positions of the plugin restrictions whose
\* pattern matches the plugin name.
FindPluginRestrictions(rc, pluginName) ==
    {j \in DOMAIN rc.pluginRestrictions :
        GlobMatch(rc.pluginRestrictions[j].pluginPattern, pluginName)}

\* Defective variant: the global restrictions are skipped.
ValidatePluginMutationsPluginOnly(rc, pluginName, adjust) ==
    LET capabilities == ExtractMutationCapabilities(adjust) IN
    \A j \in FindPluginRestrictions(rc, pluginName) :
        LET mrs == rc.pluginRestrictions[j].mutationRestrictions IN
        \A i \in DOMAIN mrs : CheckMutationRestriction(mrs[i], capabilities)

(***************************************************************************)
(* validatePluginMutations: the capabilities of the WHOLE adjustment      *)
(* (req.Adjust, not the part the plugin owns) against every global        *)
(* restriction, then against every restriction of every matching plugin   *)
(* restriction.  The loops stop at the first failure, which only selects  *)
(* the error message, so the outcome is a conjunction.                     *)
(***************************************************************************)
ValidatePluginMutations(rc, pluginName, adjust) ==
    LET capabilities == ExtractMutationCapabilities(adjust) IN
    /\ \A i \in DOMAIN rc.globalRestrictions :
           CheckMutationRestriction(rc.globalRestrictions[i], capabilities)
    /\ \A j \in FindPluginRestrictions(rc, pluginName) :
           LET mrs == rc.pluginRestrictions[j].mutationRestrictions IN
           \A i \in DOMAIN mrs : CheckMutationRestriction(mrs[i], capabilities)

\* validatePodAccess: the global pod restrictions, then those of every
\* matching plugin restriction.
ValidatePodAccess(rc, pluginName, pod) ==
    /\ \A i \in DOMAIN rc.globalPodRestrictions :
           CheckPodRestriction(rc.globalPodRestrictions[i], pod)
    /\ \A j \in FindPluginRestrictions(rc, pluginName) :
           LET prs == rc.pluginRestrictions[j].podRestrictions IN
           \A i \in DOMAIN prs : CheckPodRestriction(prs[i], pod)

=============================================================================
