------------------------- MODULE MCPolicyValidator -------------------------
(***************************************************************************)
(* Small instances of PolicyValidator for TLC.  Strings that are glob-    *)
(* matched are sequences of the letters "a" and "b" and the star; the      *)
(* patterns are chosen so that each form of globMatch (star, prefix,       *)
(* suffix, exact) decides some request, and both namespaces of the pods   *)
(* fall inside some patterns and outside others.                           *)
(***************************************************************************)
EXTENDS PolicyValidator

\* glob-matched strings
NsA    == <<"a">>            \* namespace or pod name "a"
NsBA   == <<"b", "a">>       \* namespace "ba"
PA     == <<"a">>            \* plugin "a"
PB     == <<"b">>            \* plugin "b"
AStar  == <<"a", Star>>      \* "a*"
StarA  == <<Star, "a">>      \* "*a"
BStar  == <<"b", Star>>      \* "b*"
AnyOne == <<Star>>           \* "*"

\* subjects
Alice     == [kind |-> "User", name |-> "alice"]
Ops       == [kind |-> "Group", name |-> "ops"]
DefaultSA == [kind |-> "ServiceAccount", name |-> "default"]

(***************************************************************************)
(* Requests.  A pod carries labels and annotations; the plugin map names  *)
(* plugins "a" and "b"; the adjustment sets some of env, memory and        *)
(* namespaces, each field owned by one plugin of the map (the first one,  *)
(* "a" when present, in the runs that do not look at ownership).          *)
(***************************************************************************)
PodsWith(labelChoices, annotationChoices) ==
    [namespace : {NsA, NsBA}, name : {NsA, PB},
     labels : labelChoices, annotations : annotationChoices]

AnnotationChoices ==
    {<<>>, "nri.io/user" :> "alice", "nri.io/group" :> "ops"}

LabelChoices == {<<>>, "tier" :> "web"}

FieldChoices == {"env", "memory", "namespaces"}

FirstPlugin(plugins) == IF PA \in plugins THEN PA ELSE PB

RequestsOver(pods, fields) ==
    UNION {{[pod |-> pd, plugins |-> ps, adjust |-> ad,
             owner |-> [f \in ad |-> FirstPlugin(ps)]] :
               pd \in pods \cup {NoPod},
               ad \in {x \in SUBSET fields : ps = {} => x = {}}} :
             ps \in SUBSET {PA, PB}}

\* the restrictions layer: labels matter, annotations do not
RestrictionRequests == RequestsOver(PodsWith(LabelChoices, {<<>>}), FieldChoices)

\* the RBAC layer: annotations matter, labels and fields do not
PolicyRequests == RequestsOver(PodsWith({<<>>}, AnnotationChoices), {})

\* the two layers together
CombinedRequests ==
    RequestsOver(PodsWith({<<>>}, AnnotationChoices), {"env", "namespaces"})

(***************************************************************************)
(* Configurations.                                                         *)
(***************************************************************************)
DenyNamespaces == [action |-> "deny", capabilities |-> {"namespaces"}]
AllowEnvMemory == [action |-> "allow", capabilities |-> {"env", "memory"}]

NoSelector == [namespaces |-> {}, labels |-> <<>>, names |-> {}]
InA        == [action |-> "allow", selector |-> [NoSelector EXCEPT !.namespaces = {AStar}]]
NotWeb     == [action |-> "deny", selector |-> [NoSelector EXCEPT !.labels = "tier" :> "web"]]
NotNamedB  == [action |-> "deny", selector |-> [NoSelector EXCEPT !.names = {PB}]]

PluginRestrictionChoices ==
    {[pluginPattern |-> pat, mutationRestrictions |-> mrs, podRestrictions |-> prs] :
        pat \in {BStar, PA},
        <<mrs, prs>> \in {<<<<DenyNamespaces>>, <<>>>>,
                          <<<<AllowEnvMemory>>, <<>>>>,
                          <<<<>>, <<NotWeb>>>>}}

RestrictionChoices ==
    [defaultAction : {""},
     globalRestrictions : {<<>>, <<DenyNamespaces>>, <<AllowEnvMemory>>},
     pluginRestrictions : {<<>>} \cup {<<pr>> : pr \in PluginRestrictionChoices},
     globalPodRestrictions : {<<>>, <<InA>>, <<NotWeb>>, <<NotNamedB>>}]

Rules ==
    [namespaces : {{AStar}, {StarA}},
     plugins : {{AnyOne}, {PA}},
     subjects : {{Alice}, {DefaultSA}}]

PolicyChoices ==
    [defaultDeny : BOOLEAN,
     rules : {<<>>} \cup {<<r>> : r \in Rules}
             \cup {<<r1, r2>> : r1 \in Rules, r2 \in {[namespaces |-> {AnyOne},
                                                       plugins |-> {PB},
                                                       subjects |-> {Ops}]}}]

ConfigsOver(policies, restrictions) ==
    [policy : policies, restrictions : restrictions,
     enableDefaultValidator : {FALSE}]

RestrictionConfigs == ConfigsOver({None}, RestrictionChoices \cup {None})

PolicyConfigs == ConfigsOver(PolicyChoices \cup {None}, {None})

CombinedConfigs ==
    ConfigsOver({None, [defaultDeny |-> TRUE,
                        rules |-> <<[namespaces |-> {StarA}, plugins |-> {AnyOne},
                                     subjects |-> {Alice, DefaultSA}]>>]},
                {None, [defaultAction |-> "", globalRestrictions |-> <<DenyNamespaces>>,
                        pluginRestrictions |-> <<>>,
                        globalPodRestrictions |-> <<NotNamedB>>]})

(***************************************************************************)
(* Instances for the documented claims.                                   *)
(***************************************************************************)
\* one pod, both plugins in the map, every assignment of fields to owners
AttributedRequests ==
    LET pod == [namespace |-> NsA, name |-> NsA, labels |-> <<>>, annotations |-> <<>>]
    IN  UNION {[pod : {pod}, plugins : {{PA, PB}}, adjust : {ad},
                owner : [ad -> {PA, PB}]] :
                  ad \in SUBSET {"env", "namespaces"}}

AttributionConfigs ==
    ConfigsOver({None}, {[defaultAction |-> "", globalRestrictions |-> <<>>,
                          pluginRestrictions |-> <<[pluginPattern |-> AnyOne,
                                                    mutationRestrictions |-> <<DenyNamespaces>>,
                                                    podRestrictions |-> <<>>]>>,
                          globalPodRestrictions |-> <<>>]})

\* a permissive policy whose only rule for "a" names user alice and plugin a
PermissivePolicyConfigs ==
    ConfigsOver({[defaultDeny |-> FALSE,
                  rules |-> <<[namespaces |-> {AStar}, plugins |-> {PA},
                               subjects |-> {Alice}]>>]}, {None})

DenyByDefaultConfigs ==
    ConfigsOver({None}, {[defaultAction |-> RestrictionDeny,
                          globalRestrictions |-> <<DenyNamespaces>>,
                          pluginRestrictions |-> <<>>,
                          globalPodRestrictions |-> <<>>]})

\* a pod restriction whose action is misspelt "Deny"
MisspeltPodActionConfigs ==
    ConfigsOver({None}, {[defaultAction |-> "", globalRestrictions |-> <<>>,
                          pluginRestrictions |-> <<>>,
                          globalPodRestrictions |-> <<[NotNamedB EXCEPT !.action = "Deny"]>>]})

=============================================================================
