--------------------------- MODULE MCOcppjServer ---------------------------
(***************************************************************************)
(* Instances of OcppjServer. In Orderly the two requests go to two         *)
(* stations, or to one while the application may stop the server or two    *)
(* deadlines pass; or the station of one request connects again. In Rough  *)
(* a deadline passes while two stations are served.                        *)
(***************************************************************************)
EXTENDS OcppjServer, TLC

CONSTANTS c1, c2, r1, r2

Use(target, nConnect, nTimeout, stops) ==
  [target |-> target, connects |-> nConnect, timeouts |-> nTimeout, stops |-> stops]

Orderly == {Use(r1 :> c1 @@ r2 :> c2, 1, 0, FALSE), Use(r1 :> c1 @@ r2 :> c1, 1, 0, TRUE),
            Use(r1 :> c1 @@ r2 :> c1, 1, 2, FALSE), Use(r1 :> c1, 2, 0, FALSE)}

Rough == {Use(r1 :> c1 @@ r2 :> c2, 1, 1, FALSE)}

=============================================================================
