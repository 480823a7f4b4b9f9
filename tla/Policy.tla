------------------------------- MODULE Policy -------------------------------
(***************************************************************************)
(* The RBAC layer: the rule evaluation of PolicyBasedValidator (policy.go).*)
(* NRIValidationPolicySpec is [defaultDeny, rules]; a PolicyRule is        *)
(* [namespaces, plugins, subjects] with the pattern lists as sets; a       *)
(* PolicySubject is [kind, name].  A ValidationContext is [subject,        *)
(* podNamespace, podName, pluginName].  The subject is never nil on the    *)
(* plugin's path (extractSubjectFromPod always returns one), so the nil   *)
(* branch of subjectAllowed is not modelled.                               *)
(***************************************************************************)
EXTENDS Glob

\* namespaceMatches
NamespaceMatches(namespace, patterns) ==
    \E pattern \in patterns : GlobMatch(pattern, namespace)

\* pluginAllowed
PluginAllowed(pluginName, allowedPlugins) ==
    \E allowed \in allowedPlugins : GlobMatch(allowed, pluginName)

\* subjectAllowed: exact match of kind and name
SubjectAllowed(subject, allowedSubjects) ==
    \E allowed \in allowedSubjects :
        subject.kind = allowed.kind /\ subject.name = allowed.name

\* findMatchingRules: positions of the rules that target the namespace
FindMatchingRules(policy, namespace) ==
    {i \in DOMAIN policy.rules :
        NamespaceMatches(namespace, policy.rules[i].namespaces)}

ValidatePluginAccess(policy, ctx) ==
    LET matchingRules == FindMatchingRules(policy, ctx.podNamespace) IN
    IF matchingRules = {}
    THEN ~policy.defaultDeny
    ELSE \/ \E i \in matchingRules :
                /\ PluginAllowed(ctx.pluginName, policy.rules[i].plugins)
                /\ SubjectAllowed(ctx.subject, policy.rules[i].subjects)
         \/ ~policy.defaultDeny

=============================================================================
