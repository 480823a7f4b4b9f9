------------------------ MODULE PolicyValidatorSafety ------------------------
(***************************************************************************)
(* Two more safety results about the handler, for every value of the      *)
(* constants, built on the invariant IInv of PolicyValidatorProofs.        *)
(* GlobalDenyEnforced is about the verdict Allow, which the handler can    *)
(* only hold once a request is finished; VerdictPending adds that to IInv. *)
(***************************************************************************)
EXTENDS PolicyValidatorProofs

\* a request not yet finished has no verdict
VerdictPending == pc # "done" => verdict = Pending

LEMMA InitVerdictPending == Init => VerdictPending
BY DEF Init, VerdictPending

LEMMA NextVerdictPending == VerdictPending /\ [Next]_vars => VerdictPending'
<1> SUFFICES ASSUME VerdictPending, [Next]_vars PROVE VerdictPending'
    OBVIOUS
<1>1. ASSUME NEW r \in Requests, Receive(r) PROVE VerdictPending'
    BY <1>1 DEF Receive, VerdictPending
<1>2. ASSUME NEW p, RestrictPlugin(p) PROVE VerdictPending'
    BY <1>2 DEF RestrictPlugin, Reject, VerdictPending
<1>3. ASSUME NEW p, PolicyPlugin(p) PROVE VerdictPending'
    BY <1>3 DEF PolicyPlugin, Reject, VerdictPending
<1>4. CASE DefaultValidation \/ PodCheck \/ RestrictionsPassed \/ PolicyPassed
    BY <1>4 DEF DefaultValidation, PodCheck, Reject, RestrictionsPassed, PolicyPassed,
                VerdictPending
<1>5. CASE UNCHANGED vars
    BY <1>5 DEF vars, VerdictPending
<1> QED
    BY <1>1, <1>2, <1>3, <1>4, <1>5 DEF Next, Validate

\* an adjustment that sets no field reports no capability
LEMMA NoFieldsNoCapabilities == ExtractMutationCapabilities({}) = {}
BY DEF ExtractMutationCapabilities

(***************************************************************************)
(* The design's first testable property, for every configuration and      *)
(* request set: an admitted adjustment holds no capability a global deny   *)
(* restriction names.  The restrictions loop checks the global            *)
(* restrictions inside each plugin's check, so the argument has two       *)
(* cases: a plugin map with a plugin in it, whose check covered the global *)
(* restrictions, and the empty map, where OwnersAssumption leaves the     *)
(* adjustment with no field.                                               *)
(***************************************************************************)
THEOREM GlobalDenyCorrect == Spec => []GlobalDenyEnforced
<1>1. IInv /\ VerdictPending => GlobalDenyEnforced
    <2> SUFFICES ASSUME IInv, VerdictPending, verdict = Allow, cfg.restrictions # None,
                        NEW r \in Range(cfg.restrictions.globalRestrictions),
                        r.action = RestrictionDeny
                 PROVE  ExtractMutationCapabilities(req.adjust) \cap r.capabilities = {}
        BY DEF GlobalDenyEnforced
    <2>1. pc = "done" /\ req \in Requests
        BY DEF VerdictPending, Allow, Pending, IInv, TypeInv, Busy
    <2>2. Allowed(cfg, req)
        BY <2>1 DEF IInv, PhaseInv, Allow
    <2>3. CASE req.plugins = {}
        <3>1. req.adjust = {}
            BY <2>1, <2>3, OwnersAssumption
        <3> QED
            BY <3>1, NoFieldsNoCapabilities
    <2>4. CASE req.plugins # {}
        <3>1. PICK p \in req.plugins : TRUE
            BY <2>4
        <3>2. CapabilitiesAdmitted(cfg.restrictions, p, ExtractMutationCapabilities(req.adjust))
            BY <2>2, <3>1 DEF Allowed
        <3>3. r \in ApplicableMutationRestrictions(cfg.restrictions, p)
            BY DEF ApplicableMutationRestrictions
        <3> QED
            BY <3>2, <3>3 DEF CapabilitiesAdmitted, RestrictionDeny
    <2> QED
        BY <2>3, <2>4
<1> QED
    BY <1>1, InitIInv, NextIInv, InitVerdictPending, NextVerdictPending, PTL DEF Spec

-----------------------------------------------------------------------------
\* what a step that returns an error must have found
Justified == pc # "done" /\ pc' = "done" /\ verdict'.result = "deny" =>
                 FailsStage(verdict'.stage, verdict'.plugin)

LEMMA StepJustified == IInv /\ [Next]_vars => Justified
<1> SUFFICES ASSUME IInv, [Next]_vars,
                    pc # "done", pc' = "done", verdict'.result = "deny"
             PROVE  FailsStage(verdict'.stage, verdict'.plugin)
    BY DEF Justified
<1> USE DEF IInv, TypeInv, TypeOK, Busy, Looping
<1>1. ASSUME NEW r \in Requests, Receive(r) PROVE FALSE
    BY <1>1 DEF Receive
<1>2. CASE PodCheck
    <2>1. req.pod = NoPod /\ verdict' = Deny("pod", NoPlugin)
        BY <1>2 DEF PodCheck, Reject
    <2> QED
        BY <2>1 DEF Deny, FailsStage
<1>3. ASSUME NEW p \in todo, RestrictPlugin(p)
      PROVE  FailsStage(verdict'.stage, verdict'.plugin)
    <2>1. p \in req.plugins
        BY <1>3 DEF RestrictPlugin
    <2>2. \/ ~ValidatePluginMutations(cfg.restrictions, p, req.adjust)
             /\ verdict' = Deny("mutations", p)
          \/ ValidatePluginMutations(cfg.restrictions, p, req.adjust)
             /\ ~ValidatePodAccess(cfg.restrictions, p, req.pod)
             /\ verdict' = Deny("podAccess", p)
        BY <1>3 DEF RestrictPlugin, Reject
    <2> QED
        BY <2>1, <2>2 DEF Deny, FailsStage
<1>4. ASSUME NEW p \in todo, PolicyPlugin(p)
      PROVE  FailsStage(verdict'.stage, verdict'.plugin)
    <2>1. p \in req.plugins /\ req \in Requests
        BY <1>4 DEF PolicyPlugin
    <2>2. PICK q \in req.plugins \cup {NoPlugin} : vctx = SetPluginName(ContextOf(req), q)
        BY <2>1, RequestsAssumption
    <2>3. SetPluginName(vctx, p) = SetPluginName(ContextOf(req), p)
        BY <2>2, ContextRename
    <2>4. ~ValidatePluginAccess(PolicyOf(cfg), SetPluginName(vctx, p))
          /\ verdict' = Deny("policy", p)
        BY <1>4 DEF PolicyPlugin, Reject
    <2> QED
        BY <2>1, <2>3, <2>4 DEF Deny, FailsStage
<1>5. CASE DefaultValidation \/ RestrictionsPassed \/ PolicyPassed \/ UNCHANGED vars
    BY <1>5 DEF DefaultValidation, RestrictionsPassed, PolicyPassed, Allow, vars
<1> QED
    BY <1>1, <1>2, <1>3, <1>4, <1>5 DEF Next, Validate

(***************************************************************************)
(* For every value of the constants, every error the handler returns      *)
(* names a check the current request really fails; for the RBAC layer,    *)
(* the check on the context of this request with the named plugin in it,  *)
(* whatever plugin name the shared context held before (ContextRename).   *)
(***************************************************************************)
THEOREM RejectionsJustified == Spec => RejectionJustified
<1>1. IInv /\ [Next]_vars => [Justified]_vars
    BY StepJustified
<1> QED
    BY <1>1, InitIInv, NextIInv, PTL DEF Spec, RejectionJustified, Justified

=============================================================================
