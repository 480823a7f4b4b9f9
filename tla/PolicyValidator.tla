--------------------------- MODULE PolicyValidator ---------------------------
(***************************************************************************)
(* The policy-validator plugin serving ValidateContainerAdjustment         *)
(* requests once its configuration is loaded and validated.  One request  *)
(* is handled at a time; its handling runs through                         *)
(*   the plugin handler (extractSubjectFromPod),                           *)
(*   ValidationManager.ValidateContainerAdjustment (the context),          *)
(*   ExtendedValidator (the default validator, then the policy validator), *)
(*   PolicyBasedValidator (pod check, restrictions layer, RBAC layer),     *)
(*   RestrictionsValidator (one step per plugin of the plugin map),        *)
(*   validatePluginAccess (one step per plugin of the plugin map).         *)
(* Go iterates a map in an unspecified order, so each loop over the       *)
(* plugin map picks its next plugin nondeterministically.                  *)
(*                                                                         *)
(* A request is [pod, plugins, adjust, owner]: the pod or NoPod, the      *)
(* names in the plugin map, the adjustment's fields and, for each field,  *)
(* the plugin that owns it.                                                *)
(***************************************************************************)
EXTENDS AdmissionRules, FiniteSets

CONSTANTS
    ConfigChoices,  \* configurations the loader may produce
    Requests,       \* requests the runtime may send
    NoValidator     \* the nil default validator

\* A request is never the nil request the plugin starts with.
ASSUME RequestsAssumption == None \notin Requests

\* The subjects of a policy rule are PolicySubject values: a kind and a
\* name (the YAML struct has exactly these two string fields).
ASSUME SubjectsAssumption ==
    \A c \in ConfigChoices :
        c.policy # None =>
            \A i \in DOMAIN c.policy.rules :
                c.policy.rules[i].subjects \subseteq [kind : STRING, name : STRING]

\* The runtime records an owner for every field an adjustment sets, and
\* that owner is in the request's plugin map.
ASSUME OwnersAssumption ==
    \A r \in Requests : \A f \in r.adjust : r.owner[f] \in r.plugins

VARIABLES
    cfg,               \* the ValidationConfig the manager was built from
    defaultValidator,  \* ExtendedValidator.defaultValidator
    req,               \* the request being validated
    vctx,              \* the ValidationContext of the request
    pc,                \* where the handling of the request is
    todo,              \* plugins the current map loop has not visited
    verdict            \* the result returned for the last request

vars == <<cfg, defaultValidator, req, vctx, pc, todo, verdict>>

Stages == {"none", "pod", "mutations", "podAccess", "policy"}

\* the value ValidateContainerAdjustment returns: nil or an error
Allow == [result |-> "allow", stage |-> "none", plugin |-> NoPlugin]
Deny(stage, plugin) == [result |-> "deny", stage |-> stage, plugin |-> plugin]
Pending == [result |-> "none", stage |-> "none", plugin |-> NoPlugin]

Init ==
    /\ cfg \in {c \in ConfigChoices : ValidateConfig(c)}
    /\ defaultValidator = NoValidator
    /\ req = None
    /\ vctx = None
    /\ pc = "idle"
    /\ todo = {}
    /\ verdict = Pending

\* an error ends the handling of the request
Reject(stage, plugin) ==
    /\ verdict' = Deny(stage, plugin)
    /\ pc' = "done"
    /\ todo' = {}

\* Defective variant: the context of the first request is kept.
ReceiveKeepContext(r) ==
    /\ pc \in {"idle", "done"}
    /\ req' = r
    /\ vctx' = IF vctx = None THEN ContextOf(r) ELSE vctx
    /\ pc' = "default"
    /\ todo' = {}
    /\ verdict' = Pending
    /\ UNCHANGED <<cfg, defaultValidator>>

(***************************************************************************)
(* The plugin's ValidateContainerAdjustment handler takes a request,       *)
(* extracts the subject, and the manager builds the context.               *)
(***************************************************************************)
Receive(r) ==
    /\ pc \in {"idle", "done"}
    /\ req' = r
    /\ vctx' = ContextOf(r)
    /\ pc' = "default"
    /\ todo' = {}
    /\ verdict' = Pending
    /\ UNCHANGED <<cfg, defaultValidator>>

\* ExtendedValidator: the default validator runs first when there is one;
\* NewValidationManager never installs one, so the step goes straight on.
DefaultValidation ==
    /\ pc = "default"
    /\ defaultValidator = NoValidator
    /\ pc' = "podCheck"
    /\ UNCHANGED <<cfg, defaultValidator, req, vctx, todo, verdict>>

\* Defective variant: a nil pod is not rejected.
PodCheckNoNilCheck ==
    /\ pc = "podCheck"
    /\ todo' = req.plugins
    /\ pc' = IF cfg.restrictions = None THEN "policyPlugins" ELSE "restrictPlugins"
    /\ UNCHANGED <<cfg, defaultValidator, req, vctx, verdict>>

(***************************************************************************)
(* PolicyBasedValidator: a request without a pod fails; otherwise the     *)
(* restrictions layer runs over the plugin map when restrictions are       *)
(* configured, else the RBAC layer starts at once.  (The pod check of      *)
(* RestrictionsValidator is then always passed.)                           *)
(***************************************************************************)
\* Defective variant: the restrictions layer is skipped.
PodCheckSkipRestrictions ==
    /\ pc = "podCheck"
    /\ \/ /\ req.pod = NoPod
          /\ Reject("pod", NoPlugin)
       \/ /\ req.pod # NoPod
          /\ todo' = req.plugins
          /\ pc' = "policyPlugins"
          /\ UNCHANGED verdict
    /\ UNCHANGED <<cfg, defaultValidator, req, vctx>>

PodCheck ==
    /\ pc = "podCheck"
    /\ \/ /\ req.pod = NoPod
          /\ Reject("pod", NoPlugin)
       \/ /\ req.pod # NoPod
          /\ todo' = req.plugins
          /\ pc' = IF cfg.restrictions = None THEN "policyPlugins"
                   ELSE "restrictPlugins"
          /\ UNCHANGED verdict
    /\ UNCHANGED <<cfg, defaultValidator, req, vctx>>

\* Defective variant: a plugin that passes is not marked visited.
RestrictPluginNoAdvance(p) ==
    LET rc == cfg.restrictions IN
    /\ pc = "restrictPlugins"
    /\ p \in todo
    /\ \/ /\ ~ValidatePluginMutations(rc, p, req.adjust)
          /\ Reject("mutations", p)
       \/ /\ ValidatePluginMutations(rc, p, req.adjust)
          /\ ~ValidatePodAccess(rc, p, req.pod)
          /\ Reject("podAccess", p)
       \/ /\ ValidatePluginMutations(rc, p, req.adjust)
          /\ ValidatePodAccess(rc, p, req.pod)
          /\ UNCHANGED <<pc, verdict, todo>>
    /\ UNCHANGED <<cfg, defaultValidator, req, vctx>>

\* Defective variant: pod access is checked before the mutations.
RestrictPluginPodFirst(p) ==
    LET rc         == cfg.restrictions
        mutationsOK == ValidatePluginMutations(rc, p, req.adjust)
        podOK       == ValidatePodAccess(rc, p, req.pod)
    IN
    /\ pc = "restrictPlugins"
    /\ p \in todo
    /\ \/ /\ ~podOK
          /\ Reject("podAccess", p)
       \/ /\ podOK /\ ~mutationsOK
          /\ Reject("mutations", p)
       \/ /\ mutationsOK /\ podOK
          /\ todo' = todo \ {p}
          /\ UNCHANGED <<pc, verdict>>
    /\ UNCHANGED <<cfg, defaultValidator, req, vctx>>

\* One iteration of RestrictionsValidator.ValidateContainerAdjustment.
RestrictPlugin(p) ==
    LET rc         == cfg.restrictions
        mutationsOK == ValidatePluginMutations(rc, p, req.adjust)
        podOK       == ValidatePodAccess(rc, p, req.pod)
    IN
    /\ pc = "restrictPlugins"
    /\ p \in todo
    /\ \/ /\ ~mutationsOK
          /\ Reject("mutations", p)
       \/ /\ mutationsOK /\ ~podOK
          /\ Reject("podAccess", p)
       \/ /\ mutationsOK /\ podOK
          /\ todo' = todo \ {p}
          /\ UNCHANGED <<pc, verdict>>
    /\ UNCHANGED <<cfg, defaultValidator, req, vctx>>

\* Defective variant: the RBAC loop starts over an empty plugin map.
RestrictionsPassedEmptyMap ==
    /\ pc = "restrictPlugins"
    /\ todo = {}
    /\ pc' = "policyPlugins"
    /\ todo' = {}
    /\ UNCHANGED <<cfg, defaultValidator, req, vctx, verdict>>

\* The restrictions layer passed: the RBAC loop starts over the plugin map.
RestrictionsPassed ==
    /\ pc = "restrictPlugins"
    /\ todo = {}
    /\ pc' = "policyPlugins"
    /\ todo' = req.plugins
    /\ UNCHANGED <<cfg, defaultValidator, req, vctx, verdict>>

\* Defective variant: a granted plugin is not marked visited.
PolicyPluginNoAdvance(p) ==
    LET ctx == SetPluginName(vctx, p) IN
    /\ pc = "policyPlugins"
    /\ p \in todo
    /\ vctx' = ctx
    /\ \/ /\ ValidatePluginAccess(PolicyOf(cfg), ctx)
          /\ UNCHANGED <<pc, verdict, todo>>
       \/ /\ ~ValidatePluginAccess(PolicyOf(cfg), ctx)
          /\ Reject("policy", p)
    /\ UNCHANGED <<cfg, defaultValidator, req>>

\* One iteration of the RBAC loop: the plugin's name goes into the shared
\* context, then validatePluginAccess decides.
PolicyPlugin(p) ==
    LET ctx == SetPluginName(vctx, p) IN
    /\ pc = "policyPlugins"
    /\ p \in todo
    /\ vctx' = ctx
    /\ \/ /\ ValidatePluginAccess(PolicyOf(cfg), ctx)
          /\ todo' = todo \ {p}
          /\ UNCHANGED <<pc, verdict>>
       \/ /\ ~ValidatePluginAccess(PolicyOf(cfg), ctx)
          /\ Reject("policy", p)
    /\ UNCHANGED <<cfg, defaultValidator, req>>

\* Every plugin passed both layers: the handler returns nil.
PolicyPassed ==
    /\ pc = "policyPlugins"
    /\ todo = {}
    /\ verdict' = Allow
    /\ pc' = "done"
    /\ UNCHANGED <<cfg, defaultValidator, req, vctx, todo>>

\* The steps of handling one request (everything but taking a new one).
Validate ==
    \/ DefaultValidation
    \/ PodCheck
    \/ \E p \in todo : RestrictPlugin(p)
    \/ RestrictionsPassed
    \/ \E p \in todo : PolicyPlugin(p)
    \/ PolicyPassed

Next == (\E r \in Requests : Receive(r)) \/ Validate

\* The handler is synchronous and never blocks, so once a request is taken
\* its handling runs to the end.
Spec == Init /\ [][Next]_vars /\ WF_vars(Validate)

-----------------------------------------------------------------------------
(***************************************************************************)
(* Invariants and properties                                               *)
(***************************************************************************)
PCs == {"idle", "default", "podCheck", "restrictPlugins", "policyPlugins", "done"}

\* every plugin name some request may carry
PluginNames == UNION {r.plugins : r \in Requests}

\* The plugin's state has its type; the context is the one the manager
\* built for the current request, with at most the RBAC loop's plugin set.
TypeOK ==
    /\ cfg \in ConfigChoices
    /\ defaultValidator = NoValidator
    /\ req \in Requests \cup {None}
    /\ pc \in PCs
    /\ todo \subseteq PluginNames
    /\ verdict \in {Pending, Allow}
                    \cup {Deny(s, p) : s \in Stages \ {"none"},
                                      p \in PluginNames \cup {NoPlugin}}
    /\ \/ req = None /\ vctx = None
       \/ /\ req \in Requests
          /\ \E p \in req.plugins \cup {NoPlugin} :
                 vctx = SetPluginName(ContextOf(req), p)

\* the abstract decision the plugin's state stands for
Decision ==
    IF pc = "idle" THEN "none"
    ELSE IF pc = "done" THEN verdict.result
    ELSE "pending"

A == INSTANCE Admission WITH decision <- Decision

(***************************************************************************)
(* Whatever order Go's map iteration visits the plugins in, in each of    *)
(* the two loops, the handler's final answer is the one the two layers    *)
(* promise: nil exactly when the pod is known, every plugin passes every  *)
(* restriction that applies to it, and the policy grants every plugin.    *)
(***************************************************************************)
VerdictCorrect ==
    pc = "done" => (verdict.result = "allow" <=> Allowed(cfg, req))

(***************************************************************************)
(* The first testable property of the design: an adjustment whose         *)
(* capabilities meet a global deny restriction fails.  The restrictions   *)
(* loop only visits the plugins of the map (RestrictionsValidator's       *)
(* range over GetPluginMap), so this needs every set field to have an     *)
(* owner in the map and every plugin to be checked against the whole      *)
(* adjustment, however the map is ordered.                                *)
(***************************************************************************)
GlobalDenyEnforced ==
    verdict = Allow /\ cfg.restrictions # None =>
        \A r \in Range(cfg.restrictions.globalRestrictions) :
            r.action = RestrictionDeny =>
                ExtractMutationCapabilities(req.adjust) \cap r.capabilities = {}

\* the check of the given stage that plugin p of the current request fails
FailsStage(stage, p) ==
    \/ /\ stage = "pod" /\ p = NoPlugin
       /\ req.pod = NoPod
    \/ /\ stage = "mutations" /\ p \in req.plugins
       /\ ~ValidatePluginMutations(cfg.restrictions, p, req.adjust)
    \/ /\ stage = "podAccess" /\ p \in req.plugins
       /\ ValidatePluginMutations(cfg.restrictions, p, req.adjust)
       /\ ~ValidatePodAccess(cfg.restrictions, p, req.pod)
    \/ /\ stage = "policy" /\ p \in req.plugins
       /\ ~ValidatePluginAccess(PolicyOf(cfg), SetPluginName(ContextOf(req), p))

(***************************************************************************)
(* Every error the handler returns names what really failed: a nil pod,   *)
(* or a plugin of the request's map whose mutations check fails, whose    *)
(* pod-access check fails after its mutations passed (the order           *)
(* RestrictionsValidator checks them in), or whose RBAC check fails on    *)
(* the context the manager built for THIS request with that plugin's name *)
(* in it, not on whatever the shared ValidationContext held before.       *)
(***************************************************************************)
RejectionJustified ==
    [][pc # "done" /\ pc' = "done" /\ verdict'.result = "deny" =>
         FailsStage(verdict'.stage, verdict'.plugin)]_vars

\* Every request the handler takes is answered (the loops terminate).
Answered == (pc \notin {"idle", "done"}) ~> (pc = "done")

\* The stepwise handler implements the one-step admission decision.
ImplementsAdmission == A!ASpec

-----------------------------------------------------------------------------
(***************************************************************************)
(* Claims that comments of the code and the design document make and the  *)
(* code does not keep; the runs that check them expect a violation.       *)
(***************************************************************************)

\* the fields of the adjustment that plugin p owns in the plugin map
OwnedFields(r, p) == {f \in r.adjust : r.owner[f] = p}

(***************************************************************************)
(* validatePluginMutations "validates that a plugin's mutations are       *)
(* allowed": a plugin rejected for its mutations made a change some        *)
(* restriction of that plugin forbids.  The code checks the whole          *)
(* adjustment instead, so the plugin the map loop reaches first is blamed *)
(* for what another plugin did.                                            *)
(***************************************************************************)
BlameOnlyOwnMutations ==
    verdict.stage = "mutations" =>
        ~ValidatePluginMutations(cfg.restrictions, verdict.plugin,
                                 OwnedFields(req, verdict.plugin))

(***************************************************************************)
(* NRIValidationPolicySpec.DefaultDeny "sets the default behavior when no *)
(* rules match": when rules for the pod's namespace exist, they decide,   *)
(* so an admitted request has every plugin granted by some such rule.     *)
(* validatePluginAccess consults DefaultDeny again when rules match and   *)
(* none grants.                                                            *)
(***************************************************************************)
MatchedRulesDecide ==
    verdict = Allow =>
        LET policy == PolicyOf(cfg)
            matching == FindMatchingRules(policy, vctx.podNamespace)
        IN  \A p \in req.plugins :
                matching # {} =>
                    \E i \in matching :
                        /\ PluginAllowed(p, policy.rules[i].plugins)
                        /\ SubjectAllowed(vctx.subject, policy.rules[i].subjects)

(***************************************************************************)
(* RestrictionsConfig.DefaultAction: "If deny, plugins are denied unless   *)
(* explicitly allowed": an admitted request under defaultAction deny has  *)
(* an allow restriction applying to each of its plugins.  No code reads   *)
(* DefaultAction.                                                          *)
(***************************************************************************)
DefaultActionDenyHonoured ==
    /\ verdict = Allow
    /\ cfg.restrictions # None
    /\ cfg.restrictions.defaultAction = RestrictionDeny
    => \A p \in req.plugins :
           \E r \in ApplicableMutationRestrictions(cfg.restrictions, p) :
               r.action = RestrictionAllow

(***************************************************************************)
(* The design document: a RestrictionAction is allow or deny, "no other   *)
(* value is valid".  A served configuration has only valid pod-restriction *)
(* actions.  validateRestrictions never looks at pod restrictions, and     *)
(* checkPodRestriction passes any other action.                            *)
(***************************************************************************)
ServedPodRestrictionActionsValid ==
    cfg.restrictions # None =>
        \A r \in Range(cfg.restrictions.globalPodRestrictions)
                 \cup UNION {Range(pr.podRestrictions) :
                               pr \in Range(cfg.restrictions.pluginRestrictions)} :
            r.action \in {RestrictionAllow, RestrictionDeny}

=============================================================================
