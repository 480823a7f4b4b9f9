---------------------- MODULE PolicyValidatorProofs ----------------------
(***************************************************************************)
(* Proofs about PolicyValidator for every value of the constants.         *)
(*                                                                         *)
(* TypeOK is not inductive by itself: PodCheck reads req.plugins, which    *)
(* needs req to be a request once a request has been taken, and the RBAC  *)
(* step rebuilds the context from the plugin it picks, which needs the     *)
(* loop's plugin set to lie inside the request's plugin map.  TypeInv adds *)
(* these two facts.                                                        *)
(***************************************************************************)
EXTENDS PolicyValidator, TLAPS

\* the handling of a request has started
Busy == pc # "idle"

\* one of the two loops over the plugin map is running
Looping == pc \in {"restrictPlugins", "policyPlugins"}

TypeInv ==
    /\ TypeOK
    /\ Busy => req \in Requests
    /\ Looping => todo \subseteq req.plugins

\* plugin p passes both checks of the restrictions loop
RestrictionsOK(p) ==
    /\ ValidatePluginMutations(cfg.restrictions, p, req.adjust)
    /\ ValidatePodAccess(cfg.restrictions, p, req.pod)

\* the policy grants plugin p in the request's context
PolicyOK(p) == ValidatePluginAccess(PolicyOf(cfg), SetPluginName(ContextOf(req), p))

(***************************************************************************)
(* What each phase of the handling has established: the plugins a loop    *)
(* has visited all passed it (the loop stops at the first that fails),    *)
(* the RBAC loop runs only once the restrictions loop passed every plugin,*)
(* and a finished request carries the order-free answer.                  *)
(***************************************************************************)
PhaseInv ==
    /\ pc = "restrictPlugins" =>
           /\ req.pod # NoPod
           /\ cfg.restrictions # None
           /\ \A p \in req.plugins \ todo : RestrictionsOK(p)
    /\ pc = "policyPlugins" =>
           /\ req.pod # NoPod
           /\ cfg.restrictions # None => \A p \in req.plugins : RestrictionsOK(p)
           /\ \A p \in req.plugins \ todo : PolicyOK(p)
    /\ pc = "done" => (verdict.result = "allow" <=> Allowed(cfg, req))

IInv == TypeInv /\ PhaseInv

\* The context a new request starts from names no plugin yet.
LEMMA ContextOfNoPlugin ==
    ASSUME NEW r
    PROVE  ContextOf(r) = SetPluginName(ContextOf(r), NoPlugin)
BY DEF ContextOf, SetPluginName

\* Writing a plugin's name over the one the context holds.
LEMMA ContextRename ==
    ASSUME NEW r, NEW p, NEW q
    PROVE  SetPluginName(SetPluginName(ContextOf(r), q), p)
             = SetPluginName(ContextOf(r), p)
BY DEF ContextOf, SetPluginName

(***************************************************************************)
(* validatePluginMutations, which walks the restriction lists by index    *)
(* and the plugin restrictions by the positions findPluginRestrictions    *)
(* returns, decides what CapabilitiesAdmitted states over the sets of     *)
(* restrictions that apply.                                                *)
(***************************************************************************)
LEMMA MutationsAdmitted ==
    ASSUME NEW rc, NEW p, NEW adjust
    PROVE  ValidatePluginMutations(rc, p, adjust)
           <=> CapabilitiesAdmitted(rc, p, ExtractMutationCapabilities(adjust))
<1> DEFINE caps == ExtractMutationCapabilities(adjust)
           Ok(r) == CheckMutationRestriction(r, caps)
           Matching == {x \in Range(rc.pluginRestrictions) : GlobMatch(x.pluginPattern, p)}
<1>1. CapabilitiesAdmitted(rc, p, caps)
      <=> \A r \in ApplicableMutationRestrictions(rc, p) : Ok(r)
    BY DEF CapabilitiesAdmitted, CheckMutationRestriction, RestrictionAllow, RestrictionDeny
<1>2. (\A i \in DOMAIN rc.globalRestrictions : Ok(rc.globalRestrictions[i]))
      <=> \A r \in Range(rc.globalRestrictions) : Ok(r)
    BY DEF Range
<1>3. (\A j \in FindPluginRestrictions(rc, p) :
          \A i \in DOMAIN rc.pluginRestrictions[j].mutationRestrictions :
              Ok(rc.pluginRestrictions[j].mutationRestrictions[i]))
      <=> \A r \in UNION {Range(pr.mutationRestrictions) : pr \in Matching} : Ok(r)
    BY DEF FindPluginRestrictions, Range
<1> QED
    BY <1>1, <1>2, <1>3 DEF ValidatePluginMutations, ApplicableMutationRestrictions

\* validatePodAccess decides what PodAdmitted states.
LEMMA PodAccessAdmitted ==
    ASSUME NEW rc, NEW p, NEW pod
    PROVE  ValidatePodAccess(rc, p, pod) <=> PodAdmitted(rc, p, pod)
<1> DEFINE Ok(r) == CheckPodRestriction(r, pod)
           Matching == {x \in Range(rc.pluginRestrictions) : GlobMatch(x.pluginPattern, p)}
<1>1. PodAdmitted(rc, p, pod) <=> \A r \in ApplicablePodRestrictions(rc, p) : Ok(r)
    BY DEF PodAdmitted, CheckPodRestriction, RestrictionAllow, RestrictionDeny
<1>2. (\A i \in DOMAIN rc.globalPodRestrictions : Ok(rc.globalPodRestrictions[i]))
      <=> \A r \in Range(rc.globalPodRestrictions) : Ok(r)
    BY DEF Range
<1>3. (\A j \in FindPluginRestrictions(rc, p) :
          \A i \in DOMAIN rc.pluginRestrictions[j].podRestrictions :
              Ok(rc.pluginRestrictions[j].podRestrictions[i]))
      <=> \A r \in UNION {Range(pr.podRestrictions) : pr \in Matching} : Ok(r)
    BY DEF FindPluginRestrictions, Range
<1> QED
    BY <1>1, <1>2, <1>3 DEF ValidatePodAccess, ApplicablePodRestrictions

\* The subject extractSubjectFromPod returns is a kind and a name.
LEMMA SubjectIsRecord ==
    ASSUME NEW pod
    PROVE  LET s == ExtractSubjectFromPod(pod) IN s = [kind |-> s.kind, name |-> s.name]
BY DEF ExtractSubjectFromPod

\* subjectAllowed's field-wise match is membership for PolicySubject values.
LEMMA SubjectMatch ==
    ASSUME NEW s, s = [kind |-> s.kind, name |-> s.name],
           NEW S, S \subseteq [kind : STRING, name : STRING]
    PROVE  SubjectAllowed(s, S) <=> s \in S
BY DEF SubjectAllowed

(***************************************************************************)
(* validatePluginAccess, with the plugin's name written into the context  *)
(* of a request with a pod, decides what Granted states: a permissive      *)
(* policy, or a rule for the pod's namespace naming the plugin and the    *)
(* subject.                                                                *)
(***************************************************************************)
LEMMA AccessGranted ==
    ASSUME NEW policy, NEW r, NEW p, r.pod # NoPod,
           \A i \in DOMAIN policy.rules :
               policy.rules[i].subjects \subseteq [kind : STRING, name : STRING]
    PROVE  ValidatePluginAccess(policy, SetPluginName(ContextOf(r), p))
           <=> Granted(policy, r.pod.namespace, p, ExtractSubjectFromPod(r.pod))
<1> DEFINE ctx == SetPluginName(ContextOf(r), p)
           s == ExtractSubjectFromPod(r.pod)
           ns == r.pod.namespace
           Grants(i) == /\ PluginAllowed(p, policy.rules[i].plugins)
                        /\ s \in policy.rules[i].subjects
<1>1. ctx.podNamespace = ns /\ ctx.pluginName = p /\ ctx.subject = s
    BY DEF SetPluginName, ContextOf
<1>2. \A i \in DOMAIN policy.rules :
          SubjectAllowed(s, policy.rules[i].subjects) <=> s \in policy.rules[i].subjects
    BY SubjectIsRecord, SubjectMatch
<1>3. ValidatePluginAccess(policy, ctx)
      <=> IF FindMatchingRules(policy, ns) = {} THEN ~policy.defaultDeny
          ELSE (\E i \in FindMatchingRules(policy, ns) : Grants(i)) \/ ~policy.defaultDeny
    <2>1. ValidatePluginAccess(policy, ctx)
          <=> IF FindMatchingRules(policy, ctx.podNamespace) = {} THEN ~policy.defaultDeny
              ELSE \/ \E i \in FindMatchingRules(policy, ctx.podNamespace) :
                        /\ PluginAllowed(ctx.pluginName, policy.rules[i].plugins)
                        /\ SubjectAllowed(ctx.subject, policy.rules[i].subjects)
                   \/ ~policy.defaultDeny
        BY DEF ValidatePluginAccess
    <2>2. FindMatchingRules(policy, ns) \subseteq DOMAIN policy.rules
        BY DEF FindMatchingRules
    <2> QED
        BY <2>1, <2>2, <1>1, <1>2
<1>4. (\E rule \in Range(policy.rules) :
          /\ NamespaceMatches(ns, rule.namespaces)
          /\ PluginAllowed(p, rule.plugins)
          /\ s \in rule.subjects)
      <=> \E i \in FindMatchingRules(policy, ns) : Grants(i)
    BY DEF Range, FindMatchingRules
<1> QED
    BY <1>3, <1>4 DEF Granted

LEMMA InitTypeInv == Init => TypeInv
<1> SUFFICES ASSUME Init PROVE TypeInv
    OBVIOUS
<1>1. cfg \in ConfigChoices /\ defaultValidator = NoValidator
    BY DEF Init
<1>2. req = None /\ vctx = None /\ pc = "idle" /\ todo = {}
    BY DEF Init
<1>3. verdict \in {Pending, Allow}
    BY DEF Init
<1> QED
    BY <1>1, <1>2, <1>3 DEF TypeInv, TypeOK, Busy, Looping, PCs

LEMMA NextTypeInv == TypeInv /\ [Next]_vars => TypeInv'
<1> SUFFICES ASSUME TypeInv, [Next]_vars PROVE TypeInv'
    OBVIOUS
<1> USE RequestsAssumption DEF TypeInv, TypeOK, Busy, Looping, PCs
<1>1. ASSUME NEW r \in Requests, Receive(r) PROVE TypeInv'
    BY <1>1, ContextOfNoPlugin DEF Receive, Pending
<1>2. CASE DefaultValidation
    BY <1>2 DEF DefaultValidation
<1>3. CASE PodCheck
    <2>1. req \in Requests
        BY <1>3 DEF PodCheck
    <2>2. req.plugins \subseteq PluginNames
        BY <2>1 DEF PluginNames
    <2>3. NoPlugin \in PluginNames \cup {NoPlugin} /\ "pod" \in Stages \ {"none"}
        BY DEF Stages
    <2> QED
        BY <1>3, <2>1, <2>2, <2>3 DEF PodCheck, Reject, Deny
<1>4. ASSUME NEW p \in todo, RestrictPlugin(p) PROVE TypeInv'
    <2>1. req \in Requests /\ p \in req.plugins
        BY <1>4 DEF RestrictPlugin
    <2>2. p \in PluginNames
        BY <2>1 DEF PluginNames
    <2>3. {"mutations", "podAccess"} \subseteq Stages \ {"none"}
        BY DEF Stages
    <2> QED
        BY <1>4, <2>2, <2>3 DEF RestrictPlugin, Reject, Deny
<1>5. CASE RestrictionsPassed
    <2>1. req \in Requests
        BY <1>5 DEF RestrictionsPassed
    <2>2. req.plugins \subseteq PluginNames
        BY <2>1 DEF PluginNames
    <2> QED
        BY <1>5, <2>1, <2>2 DEF RestrictionsPassed
<1>6. ASSUME NEW p \in todo, PolicyPlugin(p) PROVE TypeInv'
    <2>1. req \in Requests /\ p \in req.plugins
        BY <1>6 DEF PolicyPlugin
    <2>2. p \in PluginNames
        BY <2>1 DEF PluginNames
    <2>3. PICK q \in req.plugins \cup {NoPlugin} :
                 vctx = SetPluginName(ContextOf(req), q)
        BY <2>1, RequestsAssumption
    <2>4. vctx' = SetPluginName(ContextOf(req), p)
        BY <1>6, <2>3, ContextRename DEF PolicyPlugin
    <2>5. "policy" \in Stages \ {"none"}
        BY DEF Stages
    <2> QED
        BY <1>6, <2>1, <2>2, <2>4, <2>5 DEF PolicyPlugin, Reject, Deny
<1>7. CASE PolicyPassed
    BY <1>7 DEF PolicyPassed, Allow
<1>8. CASE UNCHANGED vars
    BY <1>8 DEF vars
<1> QED
    BY <1>1, <1>2, <1>3, <1>4, <1>5, <1>6, <1>7, <1>8 DEF Next, Validate

(***************************************************************************)
(* The order-free verdict of a request with a pod, in terms of the checks *)
(* the two loops make plugin by plugin.                                    *)
(***************************************************************************)
LEMMA AllowedByChecks ==
    ASSUME cfg \in ConfigChoices, req \in Requests, req.pod # NoPod
    PROVE  Allowed(cfg, req)
           <=> /\ cfg.restrictions # None => \A p \in req.plugins : RestrictionsOK(p)
               /\ \A p \in req.plugins : PolicyOK(p)
<1>1. \A i \in DOMAIN PolicyOf(cfg).rules :
          PolicyOf(cfg).rules[i].subjects \subseteq [kind : STRING, name : STRING]
    BY SubjectsAssumption DEF PolicyOf
<1>2. \A p \in req.plugins :
          PolicyOK(p)
          <=> Granted(PolicyOf(cfg), req.pod.namespace, p, ExtractSubjectFromPod(req.pod))
    BY <1>1, AccessGranted DEF PolicyOK
<1>3. \A p \in req.plugins :
          RestrictionsOK(p)
          <=> /\ CapabilitiesAdmitted(cfg.restrictions, p,
                                      ExtractMutationCapabilities(req.adjust))
              /\ PodAdmitted(cfg.restrictions, p, req.pod)
    BY MutationsAdmitted, PodAccessAdmitted DEF RestrictionsOK
<1> QED
    BY <1>2, <1>3 DEF Allowed

LEMMA InitIInv == Init => IInv
BY InitTypeInv DEF Init, IInv, PhaseInv

LEMMA NextIInv == IInv /\ [Next]_vars => IInv'
<1> SUFFICES ASSUME IInv, [Next]_vars PROVE PhaseInv'
    BY NextTypeInv DEF IInv
<1> USE DEF IInv, TypeInv, TypeOK, Busy, Looping
<1>1. ASSUME NEW r \in Requests, Receive(r) PROVE PhaseInv'
    BY <1>1 DEF Receive, PhaseInv
<1>2. CASE DefaultValidation
    BY <1>2 DEF DefaultValidation, PhaseInv
<1>3. CASE PodCheck
    <2>1. CASE req.pod = NoPod
        <3>1. ~Allowed(cfg, req)
            BY <2>1 DEF Allowed
        <3> QED
            BY <1>3, <2>1, <3>1 DEF PodCheck, Reject, Deny, PhaseInv
    <2>3. CASE req.pod # NoPod
        BY <1>3, <2>3 DEF PodCheck, PhaseInv
    <2> QED
        BY <2>1, <2>3
<1>4. ASSUME NEW p \in todo, RestrictPlugin(p) PROVE PhaseInv'
    <2> pc = "restrictPlugins" /\ p \in req.plugins /\ req \in Requests
        BY <1>4 DEF RestrictPlugin
    <2>1. CASE RestrictionsOK(p)
        <3>1. todo' = todo \ {p} /\ UNCHANGED <<pc, verdict, cfg, req>>
            BY <1>4, <2>1 DEF RestrictPlugin, RestrictionsOK
        <3> QED
            BY <2>1, <3>1 DEF PhaseInv, RestrictionsOK
    <2>3. CASE ~RestrictionsOK(p)
        <3>1. pc' = "done" /\ verdict'.result = "deny" /\ UNCHANGED <<cfg, req>>
            BY <1>4, <2>3 DEF RestrictPlugin, RestrictionsOK, Reject, Deny
        <3>2. ~Allowed(cfg, req)
            BY <2>3, AllowedByChecks DEF PhaseInv
        <3> QED
            BY <3>1, <3>2 DEF PhaseInv
    <2> QED
        BY <2>1, <2>3
<1>5. CASE RestrictionsPassed
    BY <1>5 DEF RestrictionsPassed, PhaseInv, RestrictionsOK, PolicyOK
<1>6. ASSUME NEW p \in todo, PolicyPlugin(p) PROVE PhaseInv'
    <2> pc = "policyPlugins" /\ p \in req.plugins /\ req \in Requests
        BY <1>6 DEF PolicyPlugin
    <2>1. PICK q \in req.plugins \cup {NoPlugin} : vctx = SetPluginName(ContextOf(req), q)
        BY RequestsAssumption
    <2>2. ValidatePluginAccess(PolicyOf(cfg), SetPluginName(vctx, p)) <=> PolicyOK(p)
        BY <2>1, ContextRename DEF PolicyOK
    <2>3. CASE PolicyOK(p)
        <3>1. todo' = todo \ {p} /\ UNCHANGED <<pc, verdict, cfg, req>>
            BY <1>6, <2>2, <2>3 DEF PolicyPlugin
        <3> QED
            BY <2>3, <3>1 DEF PhaseInv, RestrictionsOK, PolicyOK
    <2>5. CASE ~PolicyOK(p)
        <3>1. pc' = "done" /\ verdict'.result = "deny" /\ UNCHANGED <<cfg, req>>
            BY <1>6, <2>2, <2>5 DEF PolicyPlugin, Reject, Deny
        <3>2. ~Allowed(cfg, req)
            BY <2>5, AllowedByChecks DEF PhaseInv
        <3> QED
            BY <3>1, <3>2 DEF PhaseInv
    <2> QED
        BY <2>3, <2>5
<1>7. CASE PolicyPassed
    <2>1. pc = "policyPlugins" /\ todo = {} /\ req \in Requests
        BY <1>7 DEF PolicyPassed
    <2>2. Allowed(cfg, req)
        BY <2>1, AllowedByChecks DEF PhaseInv
    <2> QED
        BY <1>7, <2>2 DEF PolicyPassed, Allow, PhaseInv
<1>8. CASE UNCHANGED vars
    BY <1>8 DEF vars, PhaseInv, RestrictionsOK, PolicyOK
<1> QED
    BY <1>1, <1>2, <1>3, <1>4, <1>5, <1>6, <1>7, <1>8 DEF Next, Validate

(***************************************************************************)
(* Type correctness: in every state the plugin can reach, its state has   *)
(* its type and the context is the one the manager built for the current  *)
(* request (ValidationManager.ValidateContainerAdjustment), with at most  *)
(* a plugin of the request's map written into it by the RBAC loop.        *)
(***************************************************************************)
THEOREM TypeCorrect == Spec => []TypeOK
<1>1. TypeInv => TypeOK
    BY DEF TypeInv
<1> QED
    BY InitTypeInv, NextTypeInv, <1>1, PTL DEF Spec

(***************************************************************************)
(* Whatever order Go's map iteration gives each of the two loops over the *)
(* plugin map, a request the handler has answered is admitted exactly when *)
(* the order-free verdict Allowed admits it.                               *)
(***************************************************************************)
THEOREM VerdictCorrectness == Spec => []VerdictCorrect
<1>1. IInv => VerdictCorrect
    BY DEF IInv, PhaseInv, VerdictCorrect
<1> QED
    BY InitIInv, NextIInv, <1>1, PTL DEF Spec

=============================================================================
