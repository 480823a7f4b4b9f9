-------------------------------- MODULE Glob --------------------------------
(***************************************************************************)
(* The glob matcher shared by both policy layers: globMatch of             *)
(* RestrictionsValidator (pkg/api/restrictions.go) and the identical       *)
(* globMatch of PolicyBasedValidator (policy.go).  A Go string is a        *)
(* sequence of characters; only the names that are matched against        *)
(* patterns (namespaces, pod names, plugin names) are modelled this way.   *)
(***************************************************************************)
EXTENDS Sequences, SequencesExt

Star == "*"

\* strings.HasSuffix(pattern, "*")
EndsWithStar(pattern) == Len(pattern) > 0 /\ Last(pattern) = Star

\* strings.HasPrefix(pattern, "*")
StartsWithStar(pattern) == Len(pattern) > 0 /\ Head(pattern) = Star

\* Defective variant of GlobMatch: the prefix form keeps the star.
GlobMatchKeepsStar(pattern, str) ==
    \/ pattern = <<Star>>
    \/ /\ EndsWithStar(pattern) /\ IsPrefix(pattern, str)
    \/ /\ ~EndsWithStar(pattern) /\ StartsWithStar(pattern) /\ IsSuffix(Tail(pattern), str)
    \/ /\ ~EndsWithStar(pattern) /\ ~StartsWithStar(pattern) /\ pattern = str

(***************************************************************************)
(* globMatch(pattern, str): "*" matches everything; a pattern ending in    *)
(* "*" is a prefix test, else one starting with "*" is a suffix test, and  *)
(* every other pattern, an embedded "*" included, is compared for          *)
(* equality.  The "ends with" test is made first, so "*a*" is the prefix   *)
(* test for the literal "*a".                                              *)
(***************************************************************************)
GlobMatch(pattern, str) ==
    \/ pattern = <<Star>>
    \/ /\ EndsWithStar(pattern)
       /\ IsPrefix(Front(pattern), str)
    \/ /\ ~EndsWithStar(pattern)
       /\ StartsWithStar(pattern)
       /\ IsSuffix(Tail(pattern), str)
    \/ /\ ~EndsWithStar(pattern)
       /\ ~StartsWithStar(pattern)
       /\ pattern = str

=============================================================================
