---------------------------- MODULE AdmissionRules ----------------------------
(***************************************************************************)
(* The admission decision stated without loops: the sets of restrictions  *)
(* that apply to a plugin, the checks over those sets, the grant of the    *)
(* RBAC policy, and the verdict Allowed(c, r) of configuration c on        *)
(* request r.  Neither the order of the plugin map nor the order of rules  *)
(* or restrictions appears.                                                *)
(***************************************************************************)
EXTENDS Request

\* The mutation restrictions that apply to plugin p: the global ones and
\* those of every plugin restriction whose pattern matches p.
ApplicableMutationRestrictions(rc, p) ==
    Range(rc.globalRestrictions)
    \cup UNION {Range(pr.mutationRestrictions) :
                  pr \in {x \in Range(rc.pluginRestrictions) :
                            GlobMatch(x.pluginPattern, p)}}

\* The pod restrictions that apply to plugin p.
ApplicablePodRestrictions(rc, p) ==
    Range(rc.globalPodRestrictions)
    \cup UNION {Range(pr.podRestrictions) :
                  pr \in {x \in Range(rc.pluginRestrictions) :
                            GlobMatch(x.pluginPattern, p)}}

\* No deny restriction names a used capability, and every allow
\* restriction lists all of them.
CapabilitiesAdmitted(rc, p, caps) ==
    \A r \in ApplicableMutationRestrictions(rc, p) :
        /\ r.action = "deny" => caps \cap r.capabilities = {}
        /\ r.action = "allow" => caps \subseteq r.capabilities

\* The pod is in every allow selector and in no deny selector.
PodAdmitted(rc, p, pod) ==
    \A r \in ApplicablePodRestrictions(rc, p) :
        /\ r.action = "allow" => PodMatches(r.selector, pod)
        /\ r.action = "deny" => ~PodMatches(r.selector, pod)

\* Access is granted when the policy is permissive, or when some rule for
\* the namespace names both the plugin and the subject.
Granted(policy, namespace, p, subject) ==
    \/ ~policy.defaultDeny
    \/ \E rule \in Range(policy.rules) :
           /\ NamespaceMatches(namespace, rule.namespaces)
           /\ PluginAllowed(p, rule.plugins)
           /\ subject \in rule.subjects

Allowed(c, r) ==
    /\ r.pod # NoPod
    /\ c.restrictions # None =>
           \A p \in r.plugins :
               /\ CapabilitiesAdmitted(c.restrictions, p,
                                       ExtractMutationCapabilities(r.adjust))
               /\ PodAdmitted(c.restrictions, p, r.pod)
    /\ \A p \in r.plugins :
           Granted(PolicyOf(c), r.pod.namespace, p, ExtractSubjectFromPod(r.pod))

=============================================================================
