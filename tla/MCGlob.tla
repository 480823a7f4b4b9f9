------------------------------- MODULE MCGlob -------------------------------
(***************************************************************************)
(* Checks GlobMatch against the matching rules the specification states   *)
(* (a reference written with substrings rather than IsPrefix/IsSuffix)    *)
(* for every pattern and string of at most MaxLen characters over a small  *)
(* alphabet that contains the wildcard itself.                             *)
(***************************************************************************)
EXTENDS Glob, Naturals

CONSTANTS Letters, MaxLen

Strings == BoundedSeq(Letters \cup {Star}, MaxLen)

VARIABLES pattern, str

vars == <<pattern, str>>

\* value shares the prefix p
SharesPrefix(p, s) == \E i \in 0..Len(s) : SubSeq(s, 1, i) = p

\* value shares the suffix p
SharesSuffix(p, s) == \E i \in 1..Len(s) + 1 : SubSeq(s, i, Len(s)) = p

\* The pattern semantics as the specification words them: "*" matches
\* everything, a trailing "*" is a prefix test, a leading one a suffix test,
\* any other placement falls through to string equality.
GlobReference(p, s) ==
    IF p = <<Star>> THEN TRUE
    ELSE IF Len(p) > 0 /\ p[Len(p)] = Star THEN SharesPrefix(SubSeq(p, 1, Len(p) - 1), s)
    ELSE IF Len(p) > 0 /\ p[1] = Star THEN SharesSuffix(SubSeq(p, 2, Len(p)), s)
    ELSE p = s

Init == pattern \in Strings /\ str \in Strings

Next == /\ str' \in Strings
        /\ UNCHANGED pattern

Spec == Init /\ [][Next]_vars

\* globMatch decides every bounded (pattern, value) pair the way the
\* specification's prefix/suffix/exact rules do.
GlobAgreesWithReference == GlobMatch(pattern, str) = GlobReference(pattern, str)

=============================================================================
