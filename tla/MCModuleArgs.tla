---------------------------- MODULE MCModuleArgs ----------------------------
(* An instance of ModuleArgs for TLC: a usize of at most 25. *)
EXTENDS ModuleArgs, SequencesExt

Each(name, values) == {[name |-> name, value |-> v] : v \in values}

\* Numbers below, at and above the limit, 26 and 30 among them, which wrap to
\* 0 and 4; zeros in front, a sign, two signs, nothing, and not a number.
Numbers == {<<>>, <<"0">>, <<"1">>, <<"2", "5">>, <<"2", "6">>, <<"3", "0">>,
            <<"0", "0", "7">>, <<"+">>, <<"+", "7">>, <<"+", "+", "7">>, <<"-", "1">>,
            <<"1", "yes">>, <<"1", "0", "0", "0">>}

MCArg ==
  Each("file", {<<"p">>, <<"q">>})
    \cup Each("socket", {<<>>, <<"p">>, <<"q">>})
    \cup Each("strict_modes", {<<"no">>, <<"1">>, <<"maybe">>})
    \cup Each("verify_required", {<<"true">>, <<"0">>, <<"1", "1">>})
    \cup Each("max_attempts", Numbers)
    \cup Each("other", {<<>>}) \cup Each("non-utf8", {<<>>})

MCToken == {"0", "1", "2", "3", "5", "6", "7", "+", "-", "yes", "no", "true", "maybe",
            "p", "q"}
MCLists == BoundedSeq(MCArg, 3)
MCFile  == <<"p", "q">>
=============================================================================
