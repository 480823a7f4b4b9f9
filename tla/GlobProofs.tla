------------------------------ MODULE GlobProofs ------------------------------
(***************************************************************************)
(* globMatch agrees with the pattern rules of the specification for every *)
(* pattern and every string, of any length and over any alphabet: TLC      *)
(* checks it for strings of at most three characters (MCGlob), the lemmas  *)
(* here for all of them.  IsPrefix and IsSuffix of SequencesExt are        *)
(* related to the substring tests of GlobReference; IsSuffix is defined   *)
(* through Reverse, so the suffix lemma relates positions from the end to *)
(* positions from the start.                                               *)
(***************************************************************************)
EXTENDS MCGlob, SequenceTheorems, TLAPS

\* a prefix test is a test against the string's first characters
LEMMA PrefixIsLeadingSubstring ==
    ASSUME NEW S, NEW f \in Seq(S), NEW s \in Seq(S)
    PROVE  IsPrefix(f, s) <=> \E i \in 0..Len(s) : SubSeq(s, 1, i) = f
<1>1. SubSeq(f, 1, Len(f)) = f /\ Len(f) \in Nat /\ Len(s) \in Nat
    BY SubSeqFull, LenProperties
<1>2. ASSUME IsPrefix(f, s) PROVE \E i \in 0..Len(s) : SubSeq(s, 1, i) = f
    <2>1. Len(f) \in 0..Len(s) /\ SubSeq(s, 1, Len(f)) = f
        BY <1>1, <1>2 DEF IsPrefix
    <2> QED
        BY <2>1
<1>3. ASSUME NEW i \in 0..Len(s), SubSeq(s, 1, i) = f PROVE IsPrefix(f, s)
    <2>1. \A k \in 1..i : s[k] \in S
        BY ElementOfSeq, <1>1
    <2>2. Len(SubSeq(s, 1, i)) = i
        BY <2>1, <1>1, SubSeqProperties
    <2> QED
        BY <1>1, <1>3, <2>2 DEF IsPrefix
<1> QED
    BY <1>2, <1>3

\* the reverse of a sequence, position by position
LEMMA ReverseProperties ==
    ASSUME NEW S, NEW s \in Seq(S)
    PROVE  /\ Reverse(s) \in Seq(S)
           /\ Len(Reverse(s)) = Len(s)
           /\ \A k \in 1..Len(s) : Reverse(s)[k] = s[Len(s) - k + 1]
<1>1. Len(s) \in Nat /\ \A k \in 1..Len(s) : s[Len(s) - k + 1] \in S
    BY LenProperties, ElementOfSeq
<1>2. Reverse(s) \in [1..Len(s) -> S]
    BY <1>1 DEF Reverse
<1>3. Reverse(s) \in Seq(S)
    BY <1>1, <1>2, SeqDef
<1> QED
    BY <1>1, <1>2, <1>3 DEF Reverse

\* a suffix test is a test against the string's last characters
LEMMA SuffixIsTrailingSubstring ==
    ASSUME NEW S, NEW t \in Seq(S), NEW s \in Seq(S)
    PROVE  IsSuffix(t, s) <=> \E i \in 1..Len(s) + 1 : SubSeq(s, i, Len(s)) = t
<1> DEFINE Lt == Len(t)
           Ls == Len(s)
           Rt == Reverse(t)
           Rs == Reverse(s)
           Tail0 == SubSeq(s, Ls - Lt + 1, Ls)
<1>1. Lt \in Nat /\ Ls \in Nat
    BY LenProperties
<1>2. Rt \in Seq(S) /\ Len(Rt) = Lt /\ \A k \in 1..Lt : Rt[k] = t[Lt - k + 1]
    BY ReverseProperties
<1>3. Rs \in Seq(S) /\ Len(Rs) = Ls /\ \A k \in 1..Ls : Rs[k] = s[Ls - k + 1]
    BY ReverseProperties
<1>4. IsSuffix(t, s) <=> Lt <= Ls /\ Rt = SubSeq(Rs, 1, Lt)
    <2>1. SubSeq(Rt, 1, Lt) = Rt
        BY <1>2, SubSeqFull
    <2>2. IsSuffix(t, s) <=> Len(Rt) <= Len(Rs) /\ SubSeq(Rt, 1, Len(Rt)) = SubSeq(Rs, 1, Len(Rt))
        BY DEF IsSuffix, IsPrefix
    <2> QED
        BY <1>2, <1>3, <2>1, <2>2
\* the two ways of saying that t ends s
<1>5. ASSUME Lt <= Ls PROVE Rt = SubSeq(Rs, 1, Lt) <=> Tail0 = t
    <2>1. \A k \in 1..Lt : Rs[k] \in S /\ \A j \in (Ls - Lt + 1)..Ls : s[j] \in S
        BY <1>1, <1>3, <1>5, ElementOfSeq
    <2>2. SubSeq(Rs, 1, Lt) \in Seq(S) /\ Len(SubSeq(Rs, 1, Lt)) = Lt
          /\ \A k \in 1..Lt : SubSeq(Rs, 1, Lt)[k] = s[Ls - k + 1]
        BY <1>1, <1>3, <1>5, <2>1, SubSeqProperties
    <2>3. Tail0 \in Seq(S) /\ Len(Tail0) = Lt
          /\ \A j \in 1..Lt : Tail0[j] = s[Ls - Lt + j]
        BY <1>1, <1>5, <2>1, SubSeqProperties
    <2>4. (\A k \in 1..Lt : t[Lt - k + 1] = s[Ls - k + 1])
          <=> \A j \in 1..Lt : t[j] = s[Ls - Lt + j]
        <3>1. ASSUME \A k \in 1..Lt : t[Lt - k + 1] = s[Ls - k + 1], NEW j \in 1..Lt
              PROVE  t[j] = s[Ls - Lt + j]
            <4>1. Lt - j + 1 \in 1..Lt /\ Lt - (Lt - j + 1) + 1 = j
                  /\ Ls - (Lt - j + 1) + 1 = Ls - Lt + j
                BY <1>1
            <4> QED
                BY <3>1, <4>1
        <3>2. ASSUME \A j \in 1..Lt : t[j] = s[Ls - Lt + j], NEW k \in 1..Lt
              PROVE  t[Lt - k + 1] = s[Ls - k + 1]
            <4>1. Lt - k + 1 \in 1..Lt /\ Ls - Lt + (Lt - k + 1) = Ls - k + 1
                BY <1>1
            <4> QED
                BY <3>2, <4>1
        <3> QED
            BY <3>1, <3>2
    <2>5. Rt = SubSeq(Rs, 1, Lt) <=> \A k \in 1..Lt : t[Lt - k + 1] = s[Ls - k + 1]
        <3>1. ASSUME Rt = SubSeq(Rs, 1, Lt) PROVE \A k \in 1..Lt : t[Lt - k + 1] = s[Ls - k + 1]
            BY <1>2, <2>2, <3>1
        <3>2. ASSUME \A k \in 1..Lt : t[Lt - k + 1] = s[Ls - k + 1]
              PROVE  Rt = SubSeq(Rs, 1, Lt)
            BY <1>2, <2>2, <3>2, SeqEqual
        <3> QED
            BY <3>1, <3>2
    <2>6. Tail0 = t <=> \A j \in 1..Lt : t[j] = s[Ls - Lt + j]
        <3>1. ASSUME Tail0 = t PROVE \A j \in 1..Lt : t[j] = s[Ls - Lt + j]
            BY <2>3, <3>1
        <3>2. ASSUME \A j \in 1..Lt : t[j] = s[Ls - Lt + j] PROVE Tail0 = t
            BY <1>1, <2>3, <3>2, SeqEqual
        <3> QED
            BY <3>1, <3>2
    <2> QED
        BY <2>4, <2>5, <2>6
\* a trailing substring equal to t starts at Ls - Lt + 1
<1>6. ASSUME NEW i \in 1..Ls + 1, SubSeq(s, i, Ls) = t
      PROVE  Lt <= Ls /\ i = Ls - Lt + 1
    <2>1. \A j \in i..Ls : s[j] \in S
        BY <1>1, ElementOfSeq
    <2>2. Len(SubSeq(s, i, Ls)) = Ls - i + 1
        BY <1>1, <2>1, SubSeqProperties
    <2> QED
        BY <1>1, <1>6, <2>2
<1> QED
    BY <1>1, <1>4, <1>5, <1>6

(***************************************************************************)
(* globMatch is the specification's rule, for every pattern and string    *)
(* over any alphabet: the lone star, the prefix form when the pattern     *)
(* ends with a star (tested first, as the code does), the suffix form     *)
(* when it only starts with one, and equality otherwise.                  *)
(***************************************************************************)
LEMMA GlobMatchIsReference ==
    ASSUME NEW S, NEW p \in Seq(S), NEW s \in Seq(S)
    PROVE  GlobMatch(p, s) <=> GlobReference(p, s)
<1>1. Len(p) \in Nat /\ Len(s) \in Nat
    BY LenProperties
<1>2. CASE p = <<Star>>
    BY <1>2 DEF GlobMatch, GlobReference
<1>3. CASE p # <<Star>> /\ Len(p) > 0 /\ p[Len(p)] = Star
    <2>1. EndsWithStar(p) /\ Front(p) = SubSeq(p, 1, Len(p) - 1)
        BY <1>3 DEF EndsWithStar, Last, Front
    <2>2. Front(p) \in Seq(S)
        BY <1>1, <1>3, <2>1, ElementOfSeq, SubSeqProperties
    <2>3. GlobMatch(p, s) <=> IsPrefix(Front(p), s)
        BY <1>3, <2>1 DEF GlobMatch
    <2>4. GlobReference(p, s) <=> SharesPrefix(Front(p), s)
        BY <1>3, <2>1 DEF GlobReference
    <2>5. IsPrefix(Front(p), s) <=> \E i \in 0..Len(s) : SubSeq(s, 1, i) = Front(p)
        BY <2>2, PrefixIsLeadingSubstring
    <2> QED
        BY <2>3, <2>4, <2>5 DEF SharesPrefix
<1>4. CASE p # <<Star>> /\ ~(Len(p) > 0 /\ p[Len(p)] = Star) /\ Len(p) > 0 /\ p[1] = Star
    <2>1. ~EndsWithStar(p) /\ StartsWithStar(p)
        BY <1>4 DEF EndsWithStar, StartsWithStar, Last
    <2>2. p # << >> /\ Tail(p) = SubSeq(p, 2, Len(p)) /\ Tail(p) \in Seq(S)
        BY <1>4, TailIsSubSeq, HeadTailProperties
    <2>3. GlobMatch(p, s) <=> IsSuffix(Tail(p), s)
        BY <1>4, <2>1 DEF GlobMatch
    <2>4. GlobReference(p, s) <=> SharesSuffix(Tail(p), s)
        BY <1>4, <2>2 DEF GlobReference
    <2>5. IsSuffix(Tail(p), s) <=> \E i \in 1..Len(s) + 1 : SubSeq(s, i, Len(s)) = Tail(p)
        BY <2>2, SuffixIsTrailingSubstring
    <2> QED
        BY <2>3, <2>4, <2>5 DEF SharesSuffix
<1>5. CASE p # <<Star>> /\ ~(Len(p) > 0 /\ p[Len(p)] = Star) /\ ~(Len(p) > 0 /\ p[1] = Star)
    <2>1. ~EndsWithStar(p) /\ ~StartsWithStar(p)
        BY <1>5 DEF EndsWithStar, StartsWithStar, Last
    <2> QED
        BY <1>5, <2>1 DEF GlobMatch, GlobReference
<1> QED
    BY <1>2, <1>3, <1>4, <1>5

\* the bounded strings TLC enumerates are sequences
LEMMA StringsAreSequences == Strings \subseteq Seq(Letters \cup {Star})
BY SeqDef DEF Strings, BoundedSeq, SeqOf

(***************************************************************************)
(* The invariant of the MCGlob run, for every alphabet and every bound on *)
(* the length: globMatch agrees with the specification's rules.            *)
(***************************************************************************)
THEOREM GlobCorrect == Spec => []GlobAgreesWithReference
<1> DEFINE Inv == pattern \in Strings /\ str \in Strings
<1>1. Init => Inv
    BY DEF Init
<1>2. Inv /\ [Next]_vars => Inv'
    BY DEF Next, vars
<1>3. Inv => GlobAgreesWithReference
    <2> SUFFICES ASSUME Inv PROVE GlobAgreesWithReference
        OBVIOUS
    <2>1. GlobMatch(pattern, str) <=> GlobReference(pattern, str)
        BY StringsAreSequences, GlobMatchIsReference
    <2>2. GlobReference(pattern, str) \in BOOLEAN
        BY DEF GlobReference, SharesPrefix, SharesSuffix
    <2> QED
        BY <2>1, <2>2 DEF GlobAgreesWithReference, GlobMatch
<1> QED
    BY <1>1, <1>2, <1>3, PTL DEF Spec

=============================================================================
