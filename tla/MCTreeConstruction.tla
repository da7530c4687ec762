------------------------- MODULE MCTreeConstruction -------------------------
(* A crate with two modules, the name of one of which begins the name of    *)
(* the other ("api" and "api_v2"), and a module nested in the first.  One   *)
(* function takes a dependency with two cases and one with a single case,   *)
(* the other takes the second untagged and both as its own dimensions.  A   *)
(* seed of 1 changes the order, 0 leaves it.                               *)
EXTENDS TreeConstruction

CONSTANTS crate, api, api_v2, db, postgres, sqlite, env, local

MCSegments    == {crate, api, api_v2}
MCLongerNames == {<<api, api_v2>>}
MCModules     == {<<crate>>, <<crate, api>>, <<crate, api, api>>, <<crate, api_v2>>}

MCCases == (db :> <<postgres, sqlite>>) @@ (env :> <<local>>)
MCFunctions == <<[uses |-> {db, env}, dims |-> <<>>],
                 [uses |-> {env}, dims |-> <<db, env>>]>>

Everything == [filter |-> {}, skip |-> {}, exact |-> FALSE, only |-> "all",
               shuffle |-> FALSE, seed |-> NoSeed]
ByTag(any) == [by |-> "tag", any |-> any]

MCCommandLines ==
    {Everything,
     [Everything EXCEPT !.filter = {ByTag({{SuiteTag}, {postgres, local}})}, !.seed = 1],
     [Everything EXCEPT !.skip = {ByTag({})}, !.only = "test", !.shuffle = TRUE],
     [Everything EXCEPT !.filter = {[by |-> "name", name |-> <<1, sqlite>>]}, !.exact = TRUE]}
=============================================================================
