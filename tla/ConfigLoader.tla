----------------------------- MODULE ConfigLoader -----------------------------
(***************************************************************************)
(* LoadConfigFromFile and LoadConfigFromDir (validation_config.go,         *)
(* src/unnamed/part_002).  The directory is a function from file names to *)
(* what each file holds: Absent (no such file), Unreadable (ReadFile       *)
(* fails), Malformed (yaml.Unmarshal fails) or the YAML text of a          *)
(* configuration.  A file name is a rank, its base name's place in         *)
(* lexical order, and an extension; filepath.Glob returns its matches      *)
(* sorted, so the loop reads the listed files by increasing rank.          *)
(*                                                                         *)
(* The directory may be written while the loader runs (a configuration    *)
(* management tool replacing files): Write is that environment, bounded   *)
(* by MaxWrites.  seen is a history variable, the states the directory    *)
(* has been in since the load began.                                       *)
(***************************************************************************)
EXTENDS Naturals, FiniteSets

CONSTANTS
    Names,             \* file names present or not, a subset of Ranks \X Exts
    Ranks,             \* lexical ranks of base names
    Policies,          \* values the policy key can hold
    RestrictionSets,   \* values the restrictions key can hold
    ValidatorConfigs,  \* values the defaultValidatorConfig key can hold
    Texts,             \* the YAML texts a file can hold
    None, Absent, Unreadable, Malformed,
    MaxWrites

Exts == {"yaml", "yml"}

\* The YAML of a configuration: each key holds a value or is left out
\* (None); enableDefaultValidator is written true, written false or left out.
TextType ==
    [policy : Policies \cup {None}, restrictions : RestrictionSets \cup {None},
     enableDefaultValidator : {"true", "false", "missing"},
     defaultValidatorConfig : ValidatorConfigs \cup {None}]

ASSUME LoaderAssumption ==
    /\ Ranks \subseteq Nat
    /\ Names \subseteq Ranks \X Exts
    /\ Texts \subseteq TextType
    /\ MaxWrites \in Nat

\* the listing is finite, so each part of it has a first file in lexical order
ASSUME RanksWellOrdered ==
    \A S \in (SUBSET Ranks) \ {{}} : \E r \in S : \A q \in S : r <= q

Contents == Texts \cup {Absent, Unreadable, Malformed}

\* ValidationConfig with its zero value, as `var mergedConfig ValidationConfig`
ZeroConfig ==
    [policy |-> None, restrictions |-> None, enableDefaultValidator |-> FALSE,
     defaultValidatorConfig |-> None]

\* yaml.Unmarshal into ValidationConfig: a left-out key keeps its zero value
Unmarshal(text) ==
    [policy |-> text.policy, restrictions |-> text.restrictions,
     enableDefaultValidator |-> text.enableDefaultValidator = "true",
     defaultValidatorConfig |-> text.defaultValidatorConfig]

\* the error or the configuration a call returns
Failed(stage, file) == [ok |-> FALSE, stage |-> stage, file |-> file, config |-> None]
Loaded(config) == [ok |-> TRUE, stage |-> "none", file |-> None, config |-> config]

\* LoadConfigFromFile on what the file holds
LoadConfigFromFile(content, file) ==
    IF content \in {Absent, Unreadable} THEN Failed("read", file)
    ELSE IF content = Malformed THEN Failed("parse", file)
    ELSE Loaded(Unmarshal(content))

\* a merge that copies every key of the file, set or not
MergeOverwrites(acc, c) == c

\* the merge step of LoadConfigFromDir's loop: a set field of the file replaces
\* the accumulator's whole field; enableDefaultValidator is only ever set true
Merge(acc, c) ==
    [policy |-> IF c.policy # None THEN c.policy ELSE acc.policy,
     restrictions |-> IF c.restrictions # None THEN c.restrictions ELSE acc.restrictions,
     enableDefaultValidator |-> IF c.enableDefaultValidator THEN c.enableDefaultValidator
                                ELSE acc.enableDefaultValidator,
     defaultValidatorConfig |->
        IF c.defaultValidatorConfig # None THEN c.defaultValidatorConfig
        ELSE acc.defaultValidatorConfig]

\* the ranks filepath.Glob(dir/*.ext) lists in directory d
Listing(d, ext) == {r \in Ranks : <<r, ext>> \in Names /\ d[<<r, ext>>] # Absent}

\* the first of a set of ranks in lexical order
FirstRank(S) == CHOOSE r \in S : \A q \in S : r <= q

VARIABLES
    dir,         \* the directory's files
    badPattern,  \* dir holds a glob metacharacter, so Glob fails
    pc,          \* where LoadConfigFromDir is
    ext,         \* the extension family being loaded
    files,       \* ranks of the listed files not read yet
    merged,      \* mergedConfig
    result,      \* what the call returned
    writes,      \* writes to the directory during the load
    seen         \* states of the directory since the load began

vars == <<dir, badPattern, pc, ext, files, merged, result, writes, seen>>

Init ==
    /\ dir \in [Names -> Contents]
    /\ badPattern \in BOOLEAN
    /\ pc = "globYaml"
    /\ ext = "yaml"
    /\ files = {}
    /\ merged = ZeroConfig
    /\ result = None
    /\ writes = 0
    /\ seen = {dir}

\* an error return that hands back the partial merge with it
FailKeepsPartialMerge(stage, file) ==
    /\ result' = [Failed(stage, file) EXCEPT !.config = merged]
    /\ pc' = "done"
    /\ UNCHANGED <<ext, files, merged>>

\* return an error: the loop's partial merge is dropped
Fail(stage, file) ==
    /\ result' = Failed(stage, file)
    /\ pc' = "done"
    /\ UNCHANGED <<ext, files, merged>>

\* filepath.Glob(dir/*.yaml); with no match the loader falls back to *.yml
GlobYaml ==
    /\ pc = "globYaml"
    /\ \/ /\ badPattern
          /\ Fail("list", None)
       \/ /\ ~badPattern
          /\ Listing(dir, "yaml") # {}
          /\ files' = Listing(dir, "yaml")
          /\ pc' = "load"
          /\ UNCHANGED <<ext, merged, result>>
       \/ /\ ~badPattern
          /\ Listing(dir, "yaml") = {}
          /\ pc' = "globYml"
          /\ UNCHANGED <<ext, files, merged, result>>
    /\ UNCHANGED <<dir, badPattern, writes, seen>>

\* filepath.Glob(dir/*.yml) (its pattern error cannot happen once the first
\* Glob of the same directory succeeded); no file at all is an error
GlobYml ==
    /\ pc = "globYml"
    /\ \/ /\ Listing(dir, "yml") = {}
          /\ Fail("none", None)
       \/ /\ Listing(dir, "yml") # {}
          /\ files' = Listing(dir, "yml")
          /\ ext' = "yml"
          /\ pc' = "load"
          /\ UNCHANGED <<merged, result>>
    /\ UNCHANGED <<dir, badPattern, writes, seen>>

\* one iteration of the loop: load the next listed file, as it is now, and
\* merge it or return its error
LoadFile ==
    LET r   == FirstRank(files)
        out == LoadConfigFromFile(dir[<<r, ext>>], <<r, ext>>)
    IN
    /\ pc = "load"
    /\ files # {}
    /\ \/ /\ ~out.ok
          /\ Fail(out.stage, <<r, ext>>)
       \/ /\ out.ok
          /\ merged' = Merge(merged, out.config)
          /\ files' = files \ {r}
          /\ UNCHANGED <<pc, ext, result>>
    /\ UNCHANGED <<dir, badPattern, writes, seen>>

\* the loop is over: return &mergedConfig
Finish ==
    /\ pc = "load"
    /\ files = {}
    /\ result' = Loaded(merged)
    /\ pc' = "done"
    /\ UNCHANGED <<dir, badPattern, ext, files, merged, writes, seen>>

\* another process creates, replaces, corrupts or removes a file
Write(n, c) ==
    /\ pc # "done"
    /\ writes < MaxWrites
    /\ dir[n] # c
    /\ dir' = [dir EXCEPT ![n] = c]
    /\ writes' = writes + 1
    /\ seen' = seen \cup {dir'}
    /\ UNCHANGED <<badPattern, pc, ext, files, merged, result>>

Load == GlobYaml \/ GlobYml \/ LoadFile \/ Finish

Next == Load \/ \E n \in Names, c \in Contents : Write(n, c)

\* the loader runs on its own goroutine with nothing to wait for
Spec == Init /\ [][Next]_vars /\ WF_vars(Load)

-----------------------------------------------------------------------------
(***************************************************************************)
(* Invariants and properties                                               *)
(***************************************************************************)
ConfigType ==
    [policy : Policies \cup {None}, restrictions : RestrictionSets \cup {None},
     enableDefaultValidator : BOOLEAN,
     defaultValidatorConfig : ValidatorConfigs \cup {None}]

Results ==
    {Failed(s, f) : s \in {"list", "none", "read", "parse"}, f \in Names \cup {None}}
    \cup {Loaded(c) : c \in ConfigType}

\* Type correctness; an error return carries no configuration.
LoaderTypeOK ==
    /\ dir \in [Names -> Contents]
    /\ badPattern \in BOOLEAN
    /\ pc \in {"globYaml", "globYml", "load", "done"}
    /\ ext \in Exts
    /\ files \subseteq Ranks
    /\ merged \in ConfigType
    /\ result \in Results \cup {None}
    /\ writes \in 0..MaxWrites
    /\ seen \subseteq [Names -> Contents]

(***************************************************************************)
(* What a load of directory d should return, stated without the loop: the *)
(* .yaml family if the directory has one, else the .yml family; an error   *)
(* when the pattern is bad or nothing is listed; otherwise the error of    *)
(* the first listed file that cannot be loaded, if any; otherwise, for     *)
(* each key, the value of the last listed file that sets it (the           *)
(* "non-empty field of a later file fully overwrites" merge), the          *)
(* boolean being set only by true.                                        *)
(***************************************************************************)
Family(d) == IF Listing(d, "yaml") # {} THEN "yaml" ELSE "yml"

Listed(d) == Listing(d, Family(d))

Outcome(d, r) == LoadConfigFromFile(d[<<r, Family(d)>>], <<r, Family(d)>>)

LastRank(S) == CHOOSE r \in S : \A q \in S : q <= r

\* the value of a key after merging the files of ranks S of family Family(d)
LastSet(d, S, key) ==
    LET T == {r \in S : Outcome(d, r).config[key] # None}
    IN  IF T = {} THEN None ELSE Outcome(d, LastRank(T)).config[key]

MergeOf(d, S) ==
    [policy |-> LastSet(d, S, "policy"), restrictions |-> LastSet(d, S, "restrictions"),
     enableDefaultValidator |-> \E r \in S : Outcome(d, r).config.enableDefaultValidator,
     defaultValidatorConfig |-> LastSet(d, S, "defaultValidatorConfig")]

DirLoad(d, bad) ==
    LET failing == {r \in Listed(d) : ~Outcome(d, r).ok}
    IN  IF bad THEN Failed("list", None)
        ELSE IF Listed(d) = {} THEN Failed("none", None)
        ELSE IF failing # {} THEN Outcome(d, FirstRank(failing))
        ELSE Loaded(MergeOf(d, Listed(d)))

(***************************************************************************)
(* LoadConfigFromDir, on a directory nobody writes while it runs, returns *)
(* what DirLoad says: the right family, the first failing file's error    *)
(* with no partial result, and the per-key last-file-wins merge.          *)
(***************************************************************************)
LoadMatchesDirectory ==
    pc = "done" /\ seen = {dir} => result = DirLoad(dir, badPattern)

(***************************************************************************)
(* The merge's comment: "last file wins for conflicts".  A file that      *)
(* writes enableDefaultValidator: false after one that writes true        *)
(* conflicts with it, and the last one should win.  The loop only copies  *)
(* true, and Unmarshal cannot tell false from a left-out key.              *)
(***************************************************************************)
WrittenLast(d) ==
    LET S == {r \in Listed(d) : d[<<r, Family(d)>>] \in Texts
                                /\ d[<<r, Family(d)>>].enableDefaultValidator # "missing"}
    IN  S # {} /\ d[<<LastRank(S), Family(d)>>].enableDefaultValidator = "true"

LastFileWins ==
    pc = "done" /\ result.ok =>
        result.config.enableDefaultValidator = WrittenLast(dir)

(***************************************************************************)
(* A successful load returns the configuration of some state the        *)
(* directory was in.  The loop lists the files and then reads them one by *)
(* one with no snapshot, so a write between two reads merges files of two *)
(* different states into a configuration no state of the directory holds. *)
(***************************************************************************)
SnapshotConsistent ==
    pc = "done" /\ result.ok => \E d \in seen : result = DirLoad(d, badPattern)

=============================================================================
