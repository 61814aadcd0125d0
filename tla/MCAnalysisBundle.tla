--------------------------- MODULE MCAnalysisBundle ---------------------------
(***************************************************************************)
(* A project of two packages, for TLC: x, of one file, and x/sub, of two.   *)
(* A module x/nested may be required, and a file may import a path that is  *)
(* too long for the reader.  Three files are as many as there may be.       *)
(***************************************************************************)
EXTENDS AnalysisBundle

CONSTANTS x_go, sub_go, more_go, plain, usesSub, usesNested, usesFar

MCPackageOf == [f \in File |-> IF f = x_go THEN "x" ELSE "x/sub"]
MCFound == [f \in File |-> CASE f = x_go -> {usesSub, usesNested, OnlyTests}
                             [] f = sub_go -> {plain, usesFar, Absent}
                             [] f = more_go -> {plain, Absent}]
MCImports == [t \in Text |-> CASE t = plain -> {"fmt"}
                               [] t = usesSub -> {"fmt", "x/sub"}
                               [] t = usesNested -> {"x/nested"}
                               [] t = usesFar -> {"y/far"}]
MCProvides == [r \in Ref |-> {"x/nested"}]
MCFits == [file |-> File, root |-> Package, path |-> Package \cup {"fmt", "x/nested"},
           module |-> Ref, sum |-> Sum]
================================================================================
