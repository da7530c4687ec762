--------------------------- MODULE MCDependencies ---------------------------
(* All graphs of three dependencies, the last of them in the nested suite,  *)
(* or all three in the root suite.                                          *)
EXTENDS Dependencies

LastIsInner == <<"root", "root", "inner">>
AllInRoot   == <<"root", "root", "root">>
=============================================================================
