---------------------------- MODULE Capabilities ----------------------------
(***************************************************************************)
(* The capability extractor of RestrictionsValidator                       *)
(* (extractMutationCapabilities, pkg/api/restrictions.go).                 *)
(*                                                                         *)
(* An adjustment is the set of its fields that are set (non-nil and, for  *)
(* lists and maps, non-empty).  Field names follow ContainerAdjustment:    *)
(*   "resources"          Linux.Resources is set, no sub-field below is    *)
(*   "blockioClassEmpty"  Linux.Resources.BlockioClass is set to ""        *)
(*   "rdtClassEmpty"      Linux.Resources.RdtClass is set to ""            *)
(* Hooks counts as set as soon as it is non-nil, empty or not.  A nil     *)
(* adjustment is the empty set.                                            *)
(***************************************************************************)

\* MutationCapability: the closed enumeration of restrictions.go
MutationCapabilities ==
    {"annotations", "mounts", "args", "env", "hooks", "rlimits", "devices",
     "resources", "seccomp", "namespaces",
     "memory", "cpu", "blockio", "rdt", "unified"}

\* Fields of Linux.Resources; any of them makes Linux.Resources non-nil.
ResourceFields ==
    {"resources", "memory", "cpu", "blockioClass", "blockioClassEmpty",
     "rdtClass", "rdtClassEmpty", "unified"}

AdjustmentFields ==
    {"annotations", "mounts", "args", "env", "hooks", "rlimits", "devices",
     "namespaces"} \cup ResourceFields

(***************************************************************************)
(* The capability each field reports by itself.  "resources" is reported  *)
(* for the Resources block as a whole (below); an empty BlockioClass or    *)
(* RdtClass reports nothing of its own.  No field reports "seccomp": the   *)
(* adjustment carries no seccomp profile (comment at restrictions.go:259). *)
(***************************************************************************)
FieldCapability ==
    [annotations |-> "annotations", mounts |-> "mounts", args |-> "args",
     env |-> "env", hooks |-> "hooks", rlimits |-> "rlimits",
     devices |-> "devices", namespaces |-> "namespaces",
     memory |-> "memory", cpu |-> "cpu", blockioClass |-> "blockio",
     rdtClass |-> "rdt", unified |-> "unified"]

\* extractMutationCapabilities: the fields' own capabilities, and
\* "resources" whenever Linux.Resources is set at all.
ExtractMutationCapabilities(adjust) ==
    {FieldCapability[f] : f \in adjust \cap DOMAIN FieldCapability}
    \cup (IF adjust \cap ResourceFields # {} THEN {"resources"} ELSE {})

=============================================================================
