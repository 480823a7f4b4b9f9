------------------- MODULE PolicyValidatorRefinement -------------------
(***************************************************************************)
(* The handler implements the one-step Admission specification under the  *)
(* mapping PolicyValidator!Decision: idle is "none", a request being      *)
(* handled is "pending", a finished one is the result of its verdict.     *)
(* Taking a request is Admission's ATake; the step that ends the handling *)
(* (a Reject of the pod check or of either loop, or PolicyPassed) is its  *)
(* ADecide; every other step of the loops leaves the configuration, the   *)
(* request and the decision alone and is a stutter.                        *)
(*                                                                         *)
(* Admission reaches the order-free operators through INSTANCE, so its    *)
(* copies A!Allowed and A!ValidateConfig are distinct symbols for the     *)
(* provers; the first lemmas show that each equals the operator of        *)
(* AdmissionRules it was instantiated from.                               *)
(***************************************************************************)
EXTENDS PolicyValidatorProofs

LEMMA GlobMatchSame ==
    ASSUME NEW x, NEW y PROVE A!GlobMatch(x, y) = GlobMatch(x, y)
BY DEF A!GlobMatch, GlobMatch, A!EndsWithStar, EndsWithStar,
       A!StartsWithStar, StartsWithStar, A!Star, Star, A!IsPrefix, IsPrefix,
       A!IsSuffix, IsSuffix, A!Front, Front, A!Reverse, Reverse, A!Last, Last

LEMMA PodMatchesSame ==
    ASSUME NEW x, NEW y PROVE A!PodMatches(x, y) = PodMatches(x, y)
BY GlobMatchSame DEF A!PodMatches, PodMatches, A!AnyPatternMatches, AnyPatternMatches

LEMMA CapabilitiesAdmittedSame ==
    ASSUME NEW x, NEW y, NEW z
    PROVE  A!CapabilitiesAdmitted(x, y, z) = CapabilitiesAdmitted(x, y, z)
<1>1. A!ApplicableMutationRestrictions(x, y) = ApplicableMutationRestrictions(x, y)
    BY GlobMatchSame DEF A!ApplicableMutationRestrictions,
                         ApplicableMutationRestrictions, A!Range, Range
<1> QED
    BY <1>1 DEF A!CapabilitiesAdmitted, CapabilitiesAdmitted

LEMMA PodAdmittedSame ==
    ASSUME NEW x, NEW y, NEW z PROVE A!PodAdmitted(x, y, z) = PodAdmitted(x, y, z)
<1>1. A!ApplicablePodRestrictions(x, y) = ApplicablePodRestrictions(x, y)
    BY GlobMatchSame DEF A!ApplicablePodRestrictions, ApplicablePodRestrictions,
                         A!Range, Range
<1> QED
    BY <1>1, PodMatchesSame DEF A!PodAdmitted, PodAdmitted

LEMMA GrantedSame ==
    ASSUME NEW w, NEW x, NEW y, NEW z PROVE A!Granted(w, x, y, z) = Granted(w, x, y, z)
BY GlobMatchSame DEF A!Granted, Granted, A!Range, Range, A!NamespaceMatches,
                     NamespaceMatches, A!PluginAllowed, PluginAllowed

LEMMA AllowedSame ==
    ASSUME NEW c, NEW r PROVE A!Allowed(c, r) = Allowed(c, r)
<1>1. ASSUME NEW x PROVE A!ExtractMutationCapabilities(x) = ExtractMutationCapabilities(x)
    BY DEF A!ExtractMutationCapabilities, ExtractMutationCapabilities,
           A!FieldCapability, FieldCapability, A!ResourceFields, ResourceFields
<1>2. ASSUME NEW x PROVE A!ExtractSubjectFromPod(x) = ExtractSubjectFromPod(x)
    BY DEF A!ExtractSubjectFromPod, ExtractSubjectFromPod, A!Annotations, Annotations
<1>3. A!PolicyOf(c) = PolicyOf(c)
    BY DEF A!PolicyOf, PolicyOf
<1> QED
    BY <1>1, <1>2, <1>3, CapabilitiesAdmittedSame, PodAdmittedSame, GrantedSame
    DEF A!Allowed, Allowed

LEMMA ValidateConfigSame ==
    ASSUME NEW c PROVE A!ValidateConfig(c) = ValidateConfig(c)
BY DEF A!ValidateConfig, ValidateConfig, A!ValidatePolicy, ValidatePolicy,
       A!ValidKinds, ValidKinds, A!ValidateRestrictions, ValidateRestrictions,
       A!ValidateMutationRestriction, ValidateMutationRestriction,
       A!MutationCapabilities, MutationCapabilities,
       A!RestrictionAllow, RestrictionAllow, A!RestrictionDeny, RestrictionDeny

-----------------------------------------------------------------------------
\* the handler is in the middle of a request
Handling == pc \notin {"idle", "done"}

LEMMA InitRefines == Init => A!AInit
BY ValidateConfigSame DEF Init, A!AInit, Decision

\* a step inside the handling leaves what Admission sees alone
LEMMA StutterStep ==
    ASSUME Handling, Handling', UNCHANGED <<cfg, req>>
    PROVE  UNCHANGED A!avars
BY DEF Handling, A!avars, Decision

\* the step that finishes a request is Admission's decision
LEMMA DecideStep ==
    ASSUME IInv', Handling, pc' = "done", verdict'.result \in {"allow", "deny"},
           UNCHANGED <<cfg, req>>
    PROVE  A!ADecide
<1>1. verdict'.result = "allow" <=> A!Allowed(cfg, req)
    BY AllowedSame DEF IInv, PhaseInv
<1> QED
    BY <1>1 DEF A!ADecide, Handling, Decision

LEMMA StepRefines == IInv /\ IInv' /\ [Next]_vars => [A!ANext]_A!avars
<1> SUFFICES ASSUME IInv, IInv', [Next]_vars PROVE [A!ANext]_A!avars
    OBVIOUS
<1> USE DEF IInv, TypeInv, TypeOK
<1>1. ASSUME NEW r \in Requests, Receive(r) PROVE A!ATake
    BY <1>1 DEF Receive, A!ATake, Decision, Pending, Allow, Deny
<1>2. CASE DefaultValidation
    BY <1>2, StutterStep DEF DefaultValidation, Handling
<1>3. CASE PodCheck
    <2>1. CASE req.pod = NoPod
        BY <1>3, <2>1, DecideStep DEF PodCheck, Reject, Deny, Handling, A!ANext
    <2>2. CASE req.pod # NoPod
        BY <1>3, <2>2, StutterStep DEF PodCheck, Handling
    <2> QED
        BY <2>1, <2>2
<1>4. ASSUME NEW p \in todo, RestrictPlugin(p) PROVE [A!ANext]_A!avars
    <2>1. CASE pc' = "done"
        BY <1>4, <2>1, DecideStep DEF RestrictPlugin, Reject, Deny, Handling, A!ANext
    <2>2. CASE pc' # "done"
        BY <1>4, <2>2, StutterStep DEF RestrictPlugin, Reject, Handling
    <2> QED
        BY <2>1, <2>2
<1>5. CASE RestrictionsPassed
    BY <1>5, StutterStep DEF RestrictionsPassed, Handling
<1>6. ASSUME NEW p \in todo, PolicyPlugin(p) PROVE [A!ANext]_A!avars
    <2>1. CASE pc' = "done"
        BY <1>6, <2>1, DecideStep DEF PolicyPlugin, Reject, Deny, Handling, A!ANext
    <2>2. CASE pc' # "done"
        BY <1>6, <2>2, StutterStep DEF PolicyPlugin, Reject, Handling
    <2> QED
        BY <2>1, <2>2
<1>7. CASE PolicyPassed
    BY <1>7, DecideStep DEF PolicyPassed, Allow, Handling, A!ANext
<1>8. CASE UNCHANGED vars
    BY <1>8 DEF vars, A!avars, Decision
<1> QED
    BY <1>1, <1>2, <1>3, <1>4, <1>5, <1>6, <1>7, <1>8 DEF Next, Validate, A!ANext

(***************************************************************************)
(* The safety part of ImplementsAdmission: every behaviour of the handler *)
(* (ValidateContainerAdjustment through both loops over the plugin map,   *)
(* in any map order) starts as Admission starts and takes only Admission's *)
(* steps: one request taken at a time, each answered once, with the       *)
(* order-free verdict.  The fairness conjunct of ASpec needs ENABLED and   *)
(* is checked by TLC.                                                      *)
(***************************************************************************)
THEOREM RefinesAdmission == Spec => A!AInit /\ [][A!ANext]_A!avars
<1>1. Spec => []IInv
    BY InitIInv, NextIInv, PTL DEF Spec
<1> QED
    BY <1>1, InitRefines, StepRefines, PTL DEF Spec

=============================================================================
