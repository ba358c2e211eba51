------------------------------ MODULE Tendency ------------------------------
(***************************************************************************)
(* The fuzzy inference by which RTTrendOfDelivery trusts a node with a     *)
(* bundle: how likely it is to reach a destination, from the angle between *)
(* where it goes and where the destination is, the distance and the speed. *)
(*                                                                         *)
(* Angles are in degrees, distances in metres, speeds in tenths of m/s.    *)
(* Degrees of membership are doubles in the code, here whole numbers of    *)
(* 1/Unit; a tendency is a fraction of num sixths of den.                  *)
(***************************************************************************)
EXTENDS Integers, FiniteSetsExt

CONSTANTS
  Theta,       \* angles that the range of a node may span
  Angle,       \* between the velocity and the destination
  Distance,    \* to the destination
  Speed

ASSUME PlacesAssumption ==
  /\ Theta \subseteq 2..180 /\ Angle \subseteq 0..180
  /\ Distance \subseteq Nat /\ Speed \subseteq Nat

Unit == 200000

(* What acos gives when rounding leaves its argument beyond 1: no          *)
(* comparison with it is true.                                             *)
NaN == -1000

-----------------------------------------------------------------------------
(* The membership functions *)

(* Mutant: the peak is outside. *)
OpenTriangle(a, b, c, x) ==
  IF a < x /\ x < b THEN ((x - a) * Unit) \div (b - a)
  ELSE IF b < x /\ x < c THEN ((c - x) * Unit) \div (c - b) ELSE 0

Triangle(a, b, c, x) ==
  IF a < x /\ x <= b THEN ((x - a) * Unit) \div (b - a)
  ELSE IF b < x /\ x < c THEN ((c - x) * Unit) \div (c - b) ELSE 0

(* In half degrees.  From its second corner on, which is below its first,  *)
(* ruim begins within bom.                                                 *)
Sentido(t, x) ==
  [otimo   |-> Triangle(-2 * t, 0, 2 * t, 2 * x),
   bom     |-> Triangle(2 * t, 90 - t, 180, 2 * x),
   ruim    |-> Triangle(180, 180 - t, 360 - 2 * t, 2 * x),
   pessimo |-> Triangle(360 - 2 * t, 360, 360 + 2 * t, 2 * x)]

Distancia(x) ==
  [muito_perto |-> Triangle(-350, 0, 350, x),
   perto       |-> Triangle(0, 350, 700, x),
   longe       |-> Triangle(350, 700, 1050, x),
   muito_longe |-> Triangle(700, 1050, 1400, x)]

Velocidade(x) ==
  [alta  |-> Triangle(200, 300, 400, x),
   media |-> Triangle(100, 200, 300, x),
   baixa |-> Triangle(0, 100, 200, x)]

-----------------------------------------------------------------------------
(* The rules: for each direction what they conclude at a high, a medium    *)
(* and a low speed.                                                        *)

(* From pessima to maxima, by the sixth at which each has its centre. *)
Conclusion == 0..6

Rules(far, alta, media, baixa) ==
  UNION {{<<s, far, "alta", alta[s]>>, <<s, far, "media", media[s]>>,
          <<s, far, "baixa", baixa[s]>>} : s \in DOMAIN alta}

By(otimo, bom, ruim, pessimo) ==
  [otimo |-> otimo, bom |-> bom, ruim |-> ruim, pessimo |-> pessimo]

(* The rule for a high speed in the worst direction is written of          *)
(* muito_longe.                                                            *)
MuitoPerto ==
  LET all == Rules("muito_perto", By(6, 6, 6, 6), By(6, 6, 6, 6), By(6, 6, 6, 6))
  IN  (all \ {<<"pessimo", "muito_perto", "alta", 6>>})
        \cup {<<"pessimo", "muito_longe", "alta", 6>>}

Perto == Rules("perto", By(5, 4, 2, 1), By(5, 4, 2, 2), By(4, 3, 3, 2))

(* Mutant: the columns in the reverse order. *)
LongeReversed == Rules("longe", By(0, 1, 3, 4), By(1, 1, 3, 4), By(1, 2, 2, 3))

Longe == Rules("longe", By(4, 3, 1, 0), By(4, 3, 1, 1), By(3, 2, 2, 1))

MuitoLonge == Rules("muito_longe", By(3, 3, 1, 0), By(2, 2, 1, 0), By(2, 2, 1, 0))

(* The degree to which each conclusion holds: the rules that have it are   *)
(* joined by the greatest, the premises of a rule by the least.            *)
RulesTendencia(t, angle, distance, speed) ==
  LET s == Sentido(t, angle)
      d == Distancia(distance)
      v == Velocidade(speed)
      Degree(r) == Min({s[r[1]], d[r[2]], v[r[3]]})
      base == MuitoPerto \cup Perto \cup Longe \cup MuitoLonge
  IN  [c \in Conclusion |-> Max({Degree(r) : r \in {q \in base : q[4] = c}})]

(* The centre of what was concluded; half, when nothing was.  Each of the  *)
(* seven places that the loop looks at is the centre of one conclusion and *)
(* the edge of its neighbours.                                             *)
Defuz(degree) ==
  LET den == MapThenSumSet(LAMBDA c : degree[c], Conclusion)
      num == MapThenSumSet(LAMBDA c : c * degree[c], Conclusion)
  IN  IF den = 0 THEN [num |-> 3, den |-> 1] ELSE [num |-> num, den |-> den]

-----------------------------------------------------------------------------
(* What is asked *)

(* Vector2d::angle of the velocity, that of a null vector included.  Of    *)
(* parallel vectors rounding may leave it undefined.                       *)
Angles(angle, distance, speed) ==
  IF distance = 0 \/ speed = 0 THEN {360}
  ELSE {angle} \cup (IF angle \in {0, 180} THEN {NaN} ELSE {})

AtMost(most, instead, x) == IF x > most THEN instead ELSE x

(* Mutant: whatever the speed. *)
SpeedAsIs(speed) == speed

ClampedSpeed(speed) == IF speed = 0 THEN 1 ELSE AtMost(199, 190, speed)

(* inference: it replaces what the rules do not cover. *)
Fired(t, angle, distance, speed) ==
  RulesTendencia(t, AtMost(179, 179, angle), AtMost(1050, 1049, distance),
                 ClampedSpeed(speed))

VARIABLES
  theta, angle, distance, speed,  \* of the node asked about
  seen,        \* the angle that was computed
  degree,      \* what the rules concluded
  tod          \* the tendency of delivery

fuzzyVars == <<theta, angle, distance, speed, seen, degree, tod>>

(* getFuzzy, of where the node is then. *)
GetFuzzy ==
  /\ seen' \in Angles(angle', distance', speed')
  /\ degree' = Fired(IF distance' = 0 THEN 360 ELSE theta', seen', distance', speed')
  /\ tod' = Defuz(degree')

FuzzyInit ==
  /\ theta \in Theta /\ angle \in Angle /\ distance \in Distance /\ speed \in Speed
  /\ seen \in Angles(angle, distance, speed)
  /\ degree = Fired(IF distance = 0 THEN 360 ELSE theta, seen, distance, speed)
  /\ tod = Defuz(degree)

(* The next of s in one direction or the other. *)
Beside(s, x) ==
  {y \in s : y # x /\ ~\E z \in s : (x < z /\ z < y) \/ (y < z /\ z < x)}

Travel == /\ speed > 0
          /\ distance' \in Beside(Distance, distance)
          /\ UNCHANGED <<theta, angle, speed>>
          /\ GetFuzzy

Turn == /\ angle' \in Beside(Angle, angle)
        /\ UNCHANGED <<theta, distance, speed>>
        /\ GetFuzzy

ChangeSpeed == /\ speed' \in Beside(Speed, speed)
               /\ UNCHANGED <<theta, angle, distance>>
               /\ GetFuzzy

FuzzyNext == Travel \/ Turn \/ ChangeSpeed

FuzzySpec == FuzzyInit /\ [][FuzzyNext]_fuzzyVars

-----------------------------------------------------------------------------
(* By 0.333 getBestLink decides whether a node is trusted with a bundle. *)
Trusted == 500 * tod.num >= 999 * tod.den

NothingFires == \A c \in Conclusion : degree[c] = 0

(* The rules leave no place, course and speed without an answer, except    *)
(* the two angles where neighbouring directions touch and the angle that   *)
(* rounding undid: there the answer is 0.5, and a node that goes straight  *)
(* away from the destination is trusted.                                   *)
RulesAnswer == NothingFires => seen \in {theta, 180 - theta, NaN}

(* Farther than 350 m trust is earned by the course: neither a node at     *)
(* rest nor one in the worst direction has it, one in the best always.     *)
(* Beyond 60 degrees the span of the range is so wide that these overlap   *)
(* the others, and at 180 degrees all is one direction.  The rule written  *)
(* of the wrong distance does no harm.                                     *)
TrustIsEarned ==
  (distance > 350 /\ ~NothingFires) =>
    /\ (speed = 0 /\ theta < 180) => ~Trusted
    /\ (theta <= 60 /\ seen > 180 - theta) => ~Trusted
    /\ (theta <= 60 /\ seen < theta) => Trusted

(* A node that comes nearer on the same course at the same speed is not    *)
(* given up, although its tendency may fall: the rules of two distances    *)
(* are mixed by the greater degree, not by the sum.                        *)
NearerStaysTrusted ==
  [][(theta <= 60 /\ distance' < distance /\ seen' = seen /\ Trusted)
       => Trusted']_fuzzyVars

=============================================================================
