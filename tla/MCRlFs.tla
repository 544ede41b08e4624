------------------------------- MODULE MCRlFs -------------------------------
(***************************************************************************)
(* Paths and modes for the runs of module RlFs.                            *)
(***************************************************************************)
EXTENDS RlFs, TLC

MCPaths == {<<"a">>, <<"d">>, <<"d", "a">>}
MCModes == {{}, {"WRONLY", "APPEND"}}
MCSymmetry == Permutations(Vals)
MCWriteOnly == {{"WRONLY"}, {"WRONLY", "CREAT"}}

=============================================================================
