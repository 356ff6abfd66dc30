------------------------------ MODULE MCProjects ------------------------------
(* One project, one job with its job.conf and one build, and a place to   *)
(* move them to: another name in the project.                              *)
EXTENDS Projects

MCTree == {<<1>>, <<1, 2>>, <<1, 2, 3>>, <<1, 2, 4>>}

MCDirs == MCTree \ {<<1, 2, 3>>}

MCAway == {<<1, 5>>}

MCConf == 3

MCBuildNames == {4}
==============================================================================
