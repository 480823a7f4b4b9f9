------------------------------- MODULE Request -------------------------------
(***************************************************************************)
(* What the plugin derives from a request before the engines run: the     *)
(* subject (extractSubjectFromPod of the plugin's main file) and the       *)
(* ValidationContext (ValidationManager.ValidateContainerAdjustment).      *)
(* A pod is [namespace, name, labels, annotations]; annotations map keys   *)
(* to subject names.                                                       *)
(***************************************************************************)
EXTENDS Config

CONSTANT NoPod   \* req.GetPod() = nil

\* the plugin name of a context before the RBAC loop sets it
NoPlugin == <<>>

\* NewValidationManager: a nil policy becomes the zero NRIValidationPolicySpec
PolicyOf(config) ==
    IF config.policy = None THEN [defaultDeny |-> FALSE, rules |-> <<>>]
    ELSE config.policy

\* pod.GetAnnotations() of a nil pod is the empty map
Annotations(pod) == IF pod = NoPod THEN <<>> ELSE pod.annotations

(***************************************************************************)
(* extractSubjectFromPod: the user annotation, else the group annotation, *)
(* else the service-account annotation, else the "default" account.       *)
(***************************************************************************)
ExtractSubjectFromPod(pod) ==
    LET a == Annotations(pod) IN
    IF "nri.io/user" \in DOMAIN a
    THEN [kind |-> "User", name |-> a["nri.io/user"]]
    ELSE IF "nri.io/group" \in DOMAIN a
    THEN [kind |-> "Group", name |-> a["nri.io/group"]]
    ELSE [kind |-> "ServiceAccount",
          name |-> IF "nri.io/service-account" \in DOMAIN a
                   THEN a["nri.io/service-account"] ELSE "default"]

\* ValidationManager.ValidateContainerAdjustment: the context it builds
ContextOf(r) ==
    [subject      |-> ExtractSubjectFromPod(r.pod),
     podNamespace |-> IF r.pod = NoPod THEN <<>> ELSE r.pod.namespace,
     podName      |-> IF r.pod = NoPod THEN <<>> ELSE r.pod.name,
     pluginName   |-> NoPlugin]

\* the RBAC loop's "validationCtx.PluginName = pluginName"
SetPluginName(ctx, p) == [ctx EXCEPT !.pluginName = p]

=============================================================================
