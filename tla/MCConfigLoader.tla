---------------------------- MODULE MCConfigLoader ----------------------------
(***************************************************************************)
(* A directory of three file names: two .yaml files of ranks 1 and 2 and  *)
(* a .yml file of rank 1, so that the .yml family is loaded only when     *)
(* both .yaml files are missing, and two .yaml files can conflict.  Each  *)
(* file is missing, unreadable, malformed or one of three texts: one       *)
(* setting the policy and enableDefaultValidator: true, one setting every *)
(* key with enableDefaultValidator: false, and one setting nothing.       *)
(***************************************************************************)
EXTENDS ConfigLoader

LoaderNames == {<<1, "yaml">>, <<2, "yaml">>, <<1, "yml">>}

LoaderTexts ==
    {[policy |-> "p1", restrictions |-> None, enableDefaultValidator |-> "true",
      defaultValidatorConfig |-> None],
     [policy |-> "p2", restrictions |-> "r1", enableDefaultValidator |-> "false",
      defaultValidatorConfig |-> "v1"],
     [policy |-> None, restrictions |-> None, enableDefaultValidator |-> "missing",
      defaultValidatorConfig |-> None]}

=============================================================================
