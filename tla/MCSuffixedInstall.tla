------------------------- MODULE MCSuffixedInstall -------------------------
(***************************************************************************)
(* Small instances of SuffixedInstall for TLC.                             *)
(***************************************************************************)
EXTENDS InstallProperties

\* Names: two tools and a companion of one of them.
black == <<"black">>
ruff  == <<"ruff">>

OnePackage   == {black}
TwoPackages  == {black, ruff}
OneSuffix    == {<<"@24">>}
TwoSuffixes  == {<<"@23">>, <<"@24">>}

\* Executables 1, 2 and 3, in name order.
MCExeName == [e \in 1..3 |-> CASE e = 1 -> <<"black">> [] e = 2 -> <<"blackd">>
                                [] e = 3 -> <<"blackf">>]

\* Each release provides both executables ...
BothExes == [pkg \in Packages |-> {{1, 2}}]
\* ... or both packages have the same one,
SharedExe == [pkg \in Packages |-> {{1}}]
\* ... or releases of one differ, and one has a name that does not validate.
ChangingExes == [pkg \in Packages |-> IF pkg = black THEN {{1}, {1, 2}, {3}}
                                                     ELSE {{1, 2}}]

\* Two installs whose scratch trees have the same name.
AliasPackages == {<<"flake">>, <<"flake", "-lint">>}
AliasSuffixes == {<<"@1">>, <<"-lint", "@1">>}
AliasExeName  == [e \in {1, 2} |->
                     IF e = 1 THEN <<"flake">> ELSE <<"flake", "-lint">>]
AliasProvides == [pkg \in AliasPackages |->
                     IF pkg = <<"flake">> THEN {{1}} ELSE {{2}}]

NoMishap   == [m \in Mishaps |-> 0]
NoOob      == [m \in Mishaps |-> IF m = "oob" THEN 0 ELSE 1]
NoMisname  == [m \in Mishaps |-> IF m = "misname" THEN 0 ELSE 1]
=============================================================================
