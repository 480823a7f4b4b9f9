-------------------------- MODULE ConfigLoaderProofs --------------------------
(***************************************************************************)
(* Proofs about LoadConfigFromDir for every directory, every set of ranks *)
(* and names and every bound on the writes.  LoadMatchesDirectory is not   *)
(* inductive: what the loop returns depends on what it merged before, so   *)
(* the invariant LInv says, of a load nobody has written into, what the   *)
(* loop has done so far: the files it read are the first ranks of the     *)
(* listed family, each of them loaded, and merged is their merge.          *)
(***************************************************************************)
EXTENDS ConfigLoader, TLAPS

\* nobody has written the directory since the load began
NoWrite == seen = {dir}

\* the listed files the loop has read and merged
Processed == Listed(dir) \ files

LoopInv ==
    /\ ext = Family(dir)
    /\ Listed(dir) # {}
    /\ files \subseteq Listed(dir)
    /\ \A r \in Processed, q \in files : r < q
    /\ \A r \in Processed : Outcome(dir, r).ok
    /\ merged = MergeOf(dir, Processed)

Loading ==
    /\ pc \in {"globYml", "load"} => ~badPattern
    /\ pc = "globYml" => Listing(dir, "yaml") = {}
    /\ pc = "load" => LoopInv
    /\ pc = "done" => result = DirLoad(dir, badPattern)

LInv ==
    /\ LoaderTypeOK
    /\ dir \in seen
    /\ pc \in {"globYaml", "globYml"} => merged = ZeroConfig /\ ext = "yaml"
    /\ pc = "load" => \A r \in files : <<r, ext>> \in Names
    /\ NoWrite => Loading

-----------------------------------------------------------------------------
(***************************************************************************)
(* Lemmas on the order of ranks and on the merge                          *)
(***************************************************************************)
LEMMA FirstRankMin ==
    ASSUME NEW S \in SUBSET Ranks, S # {}
    PROVE  FirstRank(S) \in S /\ \A q \in S : FirstRank(S) <= q
BY RanksWellOrdered DEF FirstRank

LEMMA FirstRankIs ==
    ASSUME NEW S \in SUBSET Nat, NEW r \in S, \A q \in S : r <= q
    PROVE  FirstRank(S) = r
<1>1. FirstRank(S) \in S /\ \A q \in S : FirstRank(S) <= q
    BY DEF FirstRank
<1>2. FirstRank(S) \in Nat /\ r \in Nat
    BY <1>1
<1> QED
    BY <1>1, <1>2, SMT

LEMMA LastRankIs ==
    ASSUME NEW S \in SUBSET Nat, NEW r \in S, \A q \in S : q <= r
    PROVE  LastRank(S) = r
<1>1. LastRank(S) \in S /\ \A q \in S : q <= LastRank(S)
    BY DEF LastRank
<1>2. LastRank(S) \in Nat /\ r \in Nat
    BY <1>1
<1> QED
    BY <1>1, <1>2, SMT

\* adding a rank after all the others: its file wins each key it sets
LEMMA LastSetAdd ==
    ASSUME NEW d, NEW S \in SUBSET Nat, NEW r \in Nat, NEW key,
           \A p \in S : p < r
    PROVE  LastSet(d, S \cup {r}, key) =
               IF Outcome(d, r).config[key] # None THEN Outcome(d, r).config[key]
               ELSE LastSet(d, S, key)
<1> DEFINE T  == {p \in S : Outcome(d, p).config[key] # None}
           T2 == {p \in S \cup {r} : Outcome(d, p).config[key] # None}
<1>1. CASE Outcome(d, r).config[key] # None
    <2>1. T2 = T \cup {r} /\ T2 # {}
        BY <1>1
    <2>2. LastRank(T2) = r
        BY <2>1, LastRankIs
    <2> QED
        BY <1>1, <2>1, <2>2 DEF LastSet
<1>2. CASE Outcome(d, r).config[key] = None
    <2>1. T2 = T
        BY <1>2
    <2> QED
        BY <1>2, <2>1 DEF LastSet
<1> QED
    BY <1>1, <1>2

LEMMA MergeAdd ==
    ASSUME NEW d, NEW S \in SUBSET Nat, NEW r \in Nat, \A p \in S : p < r,
           Outcome(d, r).config.enableDefaultValidator \in BOOLEAN
    PROVE  Merge(MergeOf(d, S), Outcome(d, r).config) = MergeOf(d, S \cup {r})
<1> DEFINE c == Outcome(d, r).config
<1>1. LastSet(d, S \cup {r}, "policy") =
          IF c.policy # None THEN c.policy ELSE LastSet(d, S, "policy")
    BY LastSetAdd
<1>2. LastSet(d, S \cup {r}, "restrictions") =
          IF c.restrictions # None THEN c.restrictions ELSE LastSet(d, S, "restrictions")
    BY LastSetAdd
<1>3. LastSet(d, S \cup {r}, "defaultValidatorConfig") =
          IF c.defaultValidatorConfig # None THEN c.defaultValidatorConfig
          ELSE LastSet(d, S, "defaultValidatorConfig")
    BY LastSetAdd
<1>4. (IF c.enableDefaultValidator THEN c.enableDefaultValidator
       ELSE \E p \in S : Outcome(d, p).config.enableDefaultValidator)
      = \E p \in S \cup {r} : Outcome(d, p).config.enableDefaultValidator
    OBVIOUS
<1> QED
    BY <1>1, <1>2, <1>3, <1>4 DEF Merge, MergeOf

\* what loading one file returns
LEMMA LoadConfigFromFileType ==
    ASSUME NEW content \in Contents, NEW f
    PROVE  LET out == LoadConfigFromFile(content, f) IN
           \/ out = Failed("read", f) \/ out = Failed("parse", f)
           \/ out = Loaded(Unmarshal(content)) /\ content \in Texts
BY DEF LoadConfigFromFile, Contents

LEMMA UnmarshalType ==
    ASSUME NEW text \in Texts PROVE Unmarshal(text) \in ConfigType
BY LoaderAssumption DEF Unmarshal, ConfigType, TextType

LEMMA MergeOfEmpty == ASSUME NEW d PROVE MergeOf(d, {}) = ZeroConfig
BY DEF MergeOf, LastSet, ZeroConfig

LEMMA MergeType ==
    ASSUME NEW acc \in ConfigType, NEW c \in ConfigType PROVE Merge(acc, c) \in ConfigType
BY DEF Merge, ConfigType

-----------------------------------------------------------------------------
(***************************************************************************)
(* LInv is inductive                                                       *)
(***************************************************************************)
LEMMA InitLInv == Init => LInv
<1> SUFFICES ASSUME Init PROVE LInv
    OBVIOUS
<1>1. ZeroConfig \in ConfigType
    BY DEF ZeroConfig, ConfigType
<1> QED
    BY <1>1, LoaderAssumption DEF Init, LInv, LoaderTypeOK, Exts, NoWrite, Loading

\* the first Glob
LEMMA GlobYamlLInv == LInv /\ GlobYaml => LInv'
<1> SUFFICES ASSUME LInv, GlobYaml PROVE LInv'
    OBVIOUS
<1> USE DEF LInv, LoaderTypeOK, Exts
<1>1. NoWrite' = NoWrite
    BY DEF GlobYaml, NoWrite
<1>2. CASE badPattern /\ Fail("list", None)
    <2>1. result' = DirLoad(dir, badPattern) /\ result' \in Results
        BY <1>2 DEF Fail, DirLoad, Results
    <2> QED
        BY <1>1, <1>2, <2>1 DEF GlobYaml, Fail, Loading
<1>3. CASE ~badPattern /\ Listing(dir, "yaml") # {} /\ files' = Listing(dir, "yaml")
           /\ pc' = "load" /\ UNCHANGED <<ext, merged, result>>
    <2>1. files' \subseteq Ranks /\ \A r \in files' : <<r, ext'>> \in Names
        BY <1>3 DEF Listing, GlobYaml
    <2>2. NoWrite' => LoopInv'
        <3>1. Family(dir) = "yaml" /\ Listed(dir) = files'
            BY <1>3 DEF Family, Listed
        <3>2. Processed' = {}
            BY <1>3, <3>1 DEF GlobYaml, Processed
        <3> QED
            BY <1>3, <3>1, <3>2, MergeOfEmpty DEF GlobYaml, LoopInv
    <2> QED
        BY <1>1, <1>3, <2>1, <2>2 DEF GlobYaml, Loading
<1>4. CASE ~badPattern /\ Listing(dir, "yaml") = {} /\ pc' = "globYml"
           /\ UNCHANGED <<ext, files, merged, result>>
    BY <1>1, <1>4 DEF GlobYaml, Loading
<1> QED
    BY <1>2, <1>3, <1>4 DEF GlobYaml

\* the fallback Glob
LEMMA GlobYmlLInv == LInv /\ GlobYml => LInv'
<1> SUFFICES ASSUME LInv, GlobYml PROVE LInv'
    OBVIOUS
<1> USE DEF LInv, LoaderTypeOK, Exts
<1>1. NoWrite' = NoWrite
    BY DEF GlobYml, NoWrite
<1>2. CASE Listing(dir, "yml") = {} /\ Fail("none", None)
    <2>1. NoWrite => result' = DirLoad(dir, badPattern)
        BY <1>2 DEF GlobYml, Fail, DirLoad, Loading, Listed, Family
    <2>2. result' \in Results
        BY <1>2 DEF Fail, Results
    <2> QED
        BY <1>1, <1>2, <2>1, <2>2 DEF GlobYml, Fail, Loading
<1>3. CASE Listing(dir, "yml") # {} /\ files' = Listing(dir, "yml") /\ ext' = "yml"
           /\ pc' = "load" /\ UNCHANGED <<merged, result>>
    <2>1. files' \subseteq Ranks /\ \A r \in files' : <<r, ext'>> \in Names
        BY <1>3 DEF Listing
    <2>2. NoWrite' => LoopInv'
        <3> SUFFICES ASSUME NoWrite PROVE LoopInv'
            BY <1>1
        <3>1. Family(dir) = "yml" /\ Listed(dir) = files'
            BY <1>3 DEF GlobYml, Family, Listed, Loading
        <3>2. Processed' = {}
            BY <1>3, <3>1 DEF GlobYml, Processed
        <3> QED
            BY <1>3, <3>1, <3>2, MergeOfEmpty DEF GlobYml, LoopInv
    <2> QED
        BY <1>1, <1>3, <2>1, <2>2 DEF GlobYml, Loading
<1> QED
    BY <1>2, <1>3 DEF GlobYml

\* one iteration of the loop
LEMMA LoadFileLInv == LInv /\ LoadFile => LInv'
<1> SUFFICES ASSUME LInv, LoadFile PROVE LInv'
    OBVIOUS
<1> USE DEF LInv, LoaderTypeOK, Exts
<1> DEFINE r   == FirstRank(files)
           f   == <<r, ext>>
           out == LoadConfigFromFile(dir[f], f)
<1>1. pc = "load" /\ files # {} /\ UNCHANGED <<dir, badPattern, writes, seen>>
    BY DEF LoadFile
<1>2. r \in files /\ \A q \in files : r <= q
    BY <1>1, FirstRankMin
<1>3. f \in Names /\ r \in Nat
    BY <1>1, <1>2, LoaderAssumption
<1>4. \/ out = Failed("read", f) \/ out = Failed("parse", f)
      \/ out = Loaded(Unmarshal(dir[f])) /\ dir[f] \in Texts
    BY <1>3, LoadConfigFromFileType
<1>5. NoWrite' = NoWrite /\ Listed(dir)' = Listed(dir) /\ Family(dir)' = Family(dir)
    BY <1>1 DEF NoWrite, Listed, Family, Listing
<1>6. NoWrite => out = Outcome(dir, r)
    BY <1>1 DEF Loading, LoopInv, Outcome
<1>7. CASE ~out.ok /\ Fail(out.stage, f)
    <2>0. out = Failed("read", f) \/ out = Failed("parse", f)
        BY <1>4, <1>7 DEF Loaded
    <2>1. result' = out
        <3>1. CASE out = Failed("read", f)
            <4>1. out.stage = "read"
                BY <3>1 DEF Failed
            <4>2. result' = Failed("read", f)
                BY <1>7, <4>1 DEF Fail
            <4> QED
                BY <3>1, <4>2
        <3>2. CASE out = Failed("parse", f)
            <4>1. out.stage = "parse"
                BY <3>2 DEF Failed
            <4>2. result' = Failed("parse", f)
                BY <1>7, <4>1 DEF Fail
            <4> QED
                BY <3>2, <4>2
        <3> QED
            BY <2>0, <3>1, <3>2
    <2>2. result' \in Results
        <3>1. Failed("read", f) \in Results /\ Failed("parse", f) \in Results
            BY <1>3 DEF Results
        <3> QED
            BY <2>0, <2>1, <3>1
    <2>3. NoWrite => result' = DirLoad(dir, badPattern)
        <3> SUFFICES ASSUME NoWrite PROVE result' = DirLoad(dir, badPattern)
            OBVIOUS
        <3> DEFINE failing == {p \in Listed(dir) : ~Outcome(dir, p).ok}
        <3>1. LoopInv /\ ~badPattern
            BY <1>1 DEF Loading
        <3>2. failing \subseteq Nat /\ r \in failing
            BY <1>2, <1>6, <1>7, <3>1, LoaderAssumption DEF LoopInv, Listed, Listing
        <3>3. \A q \in failing : r <= q
            BY <1>2, <3>1 DEF LoopInv, Processed
        <3>4. FirstRank(failing) = r
            BY <3>2, <3>3, FirstRankIs
        <3> QED
            BY <1>6, <2>1, <3>1, <3>2, <3>4 DEF DirLoad, LoopInv
    <2> QED
        BY <1>1, <1>5, <1>7, <2>2, <2>3 DEF Fail, Loading
<1>8. CASE out.ok /\ merged' = Merge(merged, out.config) /\ files' = files \ {r}
           /\ UNCHANGED <<pc, ext, result>>
    <2>1. out = Loaded(Unmarshal(dir[f])) /\ dir[f] \in Texts
        BY <1>4, <1>8 DEF Failed
    <2>2. out.config \in ConfigType
        BY <2>1, UnmarshalType DEF Loaded
    <2>3. merged' \in ConfigType /\ files' \subseteq Ranks
        BY <1>8, <2>2, MergeType
    <2>4. NoWrite' => LoopInv'
        <3> SUFFICES ASSUME NoWrite PROVE LoopInv'
            BY <1>5
        <3>1. LoopInv
            BY <1>1 DEF Loading
        <3>2. Processed \subseteq Nat /\ \A p \in Processed : p < r
            BY <1>2, <3>1, LoaderAssumption DEF LoopInv, Processed, Listed, Listing
        <3>3. Processed' = Processed \cup {r}
            BY <1>2, <1>5, <1>8, <3>1 DEF LoopInv, Processed
        <3>4. merged' = MergeOf(dir, Processed \cup {r})
            BY <1>3, <1>6, <1>8, <2>2, <3>1, <3>2, MergeAdd DEF LoopInv, ConfigType
        <3>5. \A p \in Processed', q \in files' : p < q
            <4>1. files \subseteq Nat /\ files' \subseteq files \ {r}
                BY <1>8, LoaderAssumption
            <4>2. \A q \in files' : r < q
                BY <1>2, <1>3, <4>1
            <4>3. \A p \in Processed, q \in files' : p < q
                BY <3>1, <4>1 DEF LoopInv
            <4> QED
                BY <3>3, <4>2, <4>3
        <3> QED
            BY <1>1, <1>5, <1>6, <1>8, <3>1, <3>3, <3>4, <3>5 DEF LoopInv
    <2>5. LoaderTypeOK'
        <3>1. UNCHANGED <<dir, badPattern, pc, ext, result, writes, seen>>
            BY <1>1, <1>8
        <3> QED
            BY <2>3, <3>1
    <2>6. pc' = "load" => \A q \in files' : <<q, ext'>> \in Names
        BY <1>1, <1>8
    <2>7. NoWrite' => Loading'
        BY <1>1, <1>5, <1>8, <2>4 DEF Loading
    <2> QED
        BY <1>1, <1>8, <2>5, <2>6, <2>7
<1> QED
    BY <1>7, <1>8 DEF LoadFile

\* the loop is over
LEMMA FinishLInv == LInv /\ Finish => LInv'
<1> SUFFICES ASSUME LInv, Finish PROVE LInv'
    OBVIOUS
<1> USE DEF LInv, LoaderTypeOK
<1>1. result' \in Results
    BY DEF Finish, Results
<1>2. NoWrite => result' = DirLoad(dir, badPattern)
    <2> SUFFICES ASSUME NoWrite PROVE result' = DirLoad(dir, badPattern)
        OBVIOUS
    <2>1. LoopInv /\ ~badPattern /\ Processed = Listed(dir)
        BY DEF Finish, Loading, Processed
    <2>2. {p \in Listed(dir) : ~Outcome(dir, p).ok} = {}
        BY <2>1 DEF LoopInv
    <2> QED
        BY <2>1, <2>2 DEF Finish, DirLoad, LoopInv
<1> QED
    BY <1>1, <1>2 DEF Finish, NoWrite, Loading

\* a write ends what Loading says: the directory is no longer the one listed
LEMMA WriteLInv ==
    ASSUME LInv, NEW n \in Names, NEW c \in Contents, Write(n, c) PROVE LInv'
<1> USE DEF LInv, LoaderTypeOK
<1>1. dir' \in [Names -> Contents] /\ dir' # dir
    BY DEF Write
<1>2. ~NoWrite'
    BY <1>1 DEF Write, NoWrite
<1> QED
    BY <1>1, <1>2, LoaderAssumption DEF Write

LEMMA NextLInv == LInv /\ [Next]_vars => LInv'
<1> SUFFICES ASSUME LInv, [Next]_vars PROVE LInv'
    OBVIOUS
<1>1. CASE UNCHANGED vars
    BY <1>1 DEF vars, LInv, LoaderTypeOK, NoWrite, Loading, LoopInv, Processed
<1> QED
    BY <1>1, GlobYamlLInv, GlobYmlLInv, LoadFileLInv, FinishLInv, WriteLInv
    DEF Next, Load

(***************************************************************************)
(* LoadConfigFromDir's state stays well typed whatever is written into the *)
(* directory while it runs, and an error return carries no configuration. *)
(***************************************************************************)
THEOREM LoaderTypeCorrect == Spec => []LoaderTypeOK
<1>1. Spec => []LInv
    BY InitLInv, NextLInv, PTL DEF Spec
<1> QED
    BY <1>1, PTL DEF LInv

(***************************************************************************)
(* For every directory and every set of file names: a load nobody writes  *)
(* into returns DirLoad, the family, first-error and per-key              *)
(* last-file-wins result stated without the loop.                          *)
(***************************************************************************)
THEOREM LoadCorrect == Spec => []LoadMatchesDirectory
<1>1. LInv => LoadMatchesDirectory
    BY DEF LInv, NoWrite, Loading, LoadMatchesDirectory
<1> QED
    BY <1>1, InitLInv, NextLInv, PTL DEF Spec

=============================================================================
