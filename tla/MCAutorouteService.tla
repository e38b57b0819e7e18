------------------------- MODULE MCAutorouteService -------------------------
(* Model values for the run of AutorouteService. *)
EXTENDS AutorouteService, TLC

CONSTANTS r1, j1

OneRun == {r1}
OneJob == {j1}
Own(r) == j1
AllKinds == {"fab", "dsn", "kicad"}
Either == BOOLEAN
=============================================================================
