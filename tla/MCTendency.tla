----------------------------- MODULE MCTendency -----------------------------
(* Narrow and wide spans of the range; each corner of the triangles,       *)
(* and the places half way and just beside them.                           *)
EXTENDS Tendency

MCTheta == {2, 10, 30, 60, 100, 179}
MCAngle == {0, 1, 9, 10, 15, 29, 40, 45, 60, 75, 85, 89, 90, 91, 100, 120, 135,
            150, 151, 165, 169, 170, 178, 179, 180}
MCDistance == {0, 50, 175, 300, 349, 350, 351, 400, 500, 525, 600, 700, 701, 850, 875,
               1000, 1049, 1050, 1051, 2000}
MCSpeed == {0, 1, 20, 50, 100, 120, 150, 180, 190, 199, 200, 250, 300}
=============================================================================
