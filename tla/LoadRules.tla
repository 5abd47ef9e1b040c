------------------------------ MODULE LoadRules ------------------------------
(* The physical rules of app/modules/optimization_poc: what a box in the     *)
(* truck may rest on, lean on and carry (validators.py, utils/geometry.py,   *)
(* models/).  x is the width, y the height, z the length; z = 0 is the wall  *)
(* at the cabin and the door is at z = truck.l.                              *)
(* A placement is a record                                                   *)
(*   [pkg, x, y, z, w, h, d, vertical, rank, weight, capacity, carried].     *)
(* Lengths and weights are whole numbers of a unit of the instance, which is *)
(* chosen so that shared weights and target depths are whole, too; the       *)
(* tolerances of the code (0.001 cm, 1e-6 kg) then disappear.                *)
EXTENDS Integers, Sequences, FiniteSets, FiniteSetsExt

CONSTANT MaxRank    \* the rank of the last stop of the route; the first has rank 0

ASSUME MaxRankAssumption == MaxRank \in Nat \ {0}
-------------------------------------------------------------------------------
\* How much two intervals, given by start and length, have in common.
Shared(a, la, b, lb) ==
  LET common == Min({a + la, b + lb}) - Max({a, b}) IN Max({0, common})

SharedX(c, i) == Shared(c.x, c.w, i.x, i.w)
SharedY(c, i) == Shared(c.y, c.h, i.y, i.h)
SharedZ(c, i) == Shared(c.z, c.d, i.z, i.d)

InsideTruck(c, truck) ==
  /\ c.x >= 0 /\ c.y >= 0 /\ c.z >= 0
  /\ c.x + c.w <= truck.w /\ c.y + c.h <= truck.h /\ c.z + c.d <= truck.l

Separated(c, i) ==
  \/ c.x + c.w <= i.x \/ i.x + i.w <= c.x
  \/ c.y + c.h <= i.y \/ i.y + i.h <= c.y
  \/ c.z + c.d <= i.z \/ i.z + i.d <= c.z

HasOverlap(c, items) == \E i \in items : ~Separated(c, i)

WeightAllowed(current, next, truck) == current + next <= truck.capacity

\* Twice the factors 0.0, 0.5 and 1.5 of FRAGILITY_SUPPORT_FACTOR.
StackingCapacity(fragility, weight) ==
  (weight * CASE fragility = "ALTA" -> 0
              [] fragility = "MEDIA" -> 1
              [] fragility = "BAJA" -> 3) \div 2

RestsOn(c, i) == IF i.y + i.h = c.y THEN SharedX(c, i) * SharedZ(c, i) ELSE 0

Supports(c, items) == IF c.y = 0 THEN {} ELSE {i \in items : RestsOn(c, i) > 0}

SupportArea(c, items) ==
  IF c.y = 0 THEN c.w * c.d ELSE MapThenSumSet(LAMBDA i : RestsOn(c, i), Supports(c, items))

\* At least 60 % of the base rests on the floor or on other packages.
HasMinimumSupport(c, items) == 10 * SupportArea(c, items) >= 6 * c.w * c.d

\* The weight is shared by the supports in proportion to their areas.
Share(weight, c, i, items) == (weight * RestsOn(c, i)) \div SupportArea(c, items)

\* Only what c itself rests on is asked, and only for the weight of c.
RespectsFragility(c, items) ==
  \/ c.y = 0
  \/ /\ SupportArea(c, items) > 0
     /\ \A i \in Supports(c, items) : i.carried + Share(c.weight, c, i, items) <= i.capacity

\* A thin package that stands upright leans on a side wall or on a neighbour.
HasLateralSupport(c, truck, items) ==
  c.vertical =>
    /\ c.y = 0
    /\ \/ c.x = 0 \/ c.x + c.w = truck.w
       \/ \E i \in items :
            /\ c.x = i.x + i.w \/ c.x + c.w = i.x
            /\ 100 * SharedY(c, i) * SharedZ(c, i) >= 35 * c.h * c.d

\* What is stacked leans on a wall or on a neighbour along the road, with at
\* least 30 % of its face.
HasLongitudinalRestraint(c, truck, items) ==
  \/ c.y = 0 \/ c.z = 0 \/ c.z + c.d = truck.l
  \/ \E i \in items :
       /\ SharedX(c, i) > 0 /\ SharedY(c, i) > 0
       /\ 100 * SharedX(c, i) * SharedY(c, i) >= 30 * c.w * c.h
       /\ i.z + i.d = c.z \/ c.z + c.d = i.z

Distance(a, b) == IF a < b THEN b - a ELSE a - b

\* On a support more than 2.5 times as long as wide the centre of what is
\* stacked is in the central 60 %.
HasNoLever(c, items) ==
  \A i \in Supports(c, items) :
    \/ 10 * Max({i.w, i.d}) < 25 * Min({i.w, i.d})
    \/ i.w >= i.d /\ 10 * Distance(2 * c.x + c.w, 2 * i.x + i.w) <= 6 * i.w
    \/ i.w < i.d /\ 10 * Distance(2 * c.z + c.d, 2 * i.z + i.d) <= 6 * i.d

\* A package can be slid from the door to its place.
PathClear(c, truck, items) ==
  \/ c.z + c.d >= truck.l
  \/ \A i \in items :
       \/ i.z + i.d <= c.z + c.d
       \/ SharedX(c, i) = 0
       \/ SharedY(c, i) = 0

\* Every package passes on its own weight and what it carries; the boxes above
\* are strictly higher, so the recursion follows the code's order, top down.
RecomputeSupportedWeights(placed) ==
  LET items == {placed[k] : k \in DOMAIN placed}
      Carried[i \in items] ==
        MapThenSumSet(LAMBDA c : Share(c.weight + Carried[c], c, i, items),
                      {c \in items : c.y > 0 /\ RestsOn(c, i) > 0})
  IN  [k \in DOMAIN placed |-> [placed[k] EXCEPT !.carried = Carried[placed[k]]]]
-------------------------------------------------------------------------------
\* An electronic device three times as long as thin travels on its thin edge.
IsFlatElectronic(p) ==
  p.content = "ELECTRONICOS" /\ Max({p.l, p.w, p.h}) >= 3 * Min({p.l, p.w, p.h})

Turned(w, h, d) == [w |-> w, h |-> h, d |-> d, vertical |-> FALSE]
OnEdge(w, h, d) == [w |-> w, h |-> h, d |-> d, vertical |-> TRUE]

\* The middle one of the three lengths.
Middle(p) == p.l + p.w + p.h - Max({p.l, p.w, p.h}) - Min({p.l, p.w, p.h})

FlatOrientations(p) ==
  LET thin == Min({p.l, p.w, p.h})
      big == Max({p.l, p.w, p.h})
  IN  {OnEdge(Middle(p), big, thin), OnEdge(thin, big, Middle(p))}

\* The two horizontal turns that keep the chosen base down; the first is the
\* one of a package that may not be turned.
BaseOrientations(p) ==
  CASE p.base = "LARGO_ALTO" -> <<Turned(p.l, p.w, p.h), Turned(p.h, p.w, p.l)>>
    [] p.base = "ANCHO_ALTO" -> <<Turned(p.w, p.l, p.h), Turned(p.h, p.l, p.w)>>
    [] OTHER -> <<Turned(p.l, p.h, p.w), Turned(p.w, p.h, p.l)>>

\* "APPLIANCE" stands for a text with a word of UPRIGHT_APPLIANCE_KEYWORDS.
Orientations(p, mayTurn) ==
  IF p.content = "APPLIANCE" THEN {Turned(p.w, p.h, p.l)}
  ELSE IF IsFlatElectronic(p) THEN FlatOrientations(p)
  ELSE IF mayTurn /\ p.turns THEN {BaseOrientations(p)[1], BaseOrientations(p)[2]}
  ELSE {BaseOrientations(p)[1]}

Volume(p) == p.l * p.w * p.h

\* How deep a package of a stop belongs: the last stop at the cabin.
TargetDepth(rank, last, truck, depth) ==
  Min({(truck.l * (last - rank)) \div last, truck.l - depth})

\* The package p of a cargo at a point, in an orientation.
PlacementAt(p, pkg, x, y, z, o) ==
  [pkg |-> p, x |-> x, y |-> y, z |-> z, w |-> o.w, h |-> o.h, d |-> o.d,
   vertical |-> o.vertical, rank |-> pkg.rank, weight |-> pkg.weight,
   capacity |-> StackingCapacity(pkg.fragility, pkg.weight), carried |-> 0]
-------------------------------------------------------------------------------
\* The points the heuristics try for a box of width w, height h and depth d
\* with target depth target: corners of what is placed, ...
CornerPoints(items) ==
  UNION {{<<i.x + i.w, i.y, i.z>>, <<i.x, i.y, i.z + i.d>>, <<i.x + i.w, i.y, i.z + i.d>>,
          <<i.x, i.y + i.h, i.z>>, <<i.x, i.y + i.h, i.z + i.d>>,
          <<i.x + i.w, i.y + i.h, i.z>>} : i \in items}

\* ... gaps on the floor at the depths where something begins or ends, ...
FloorPoints(items, truck, o, target) ==
  LET depths == {0, target, truck.l - o.d}
                  \cup UNION {{i.z, i.z + i.d, i.z - o.d, i.z + i.d - o.d} : i \in items}
      Beside(z) == {i \in items : i.y < o.h /\ i.z < z + o.d /\ z < i.z + i.d}
      Widths(z) == {0, truck.w - o.w} \cup UNION {{i.x + i.w, i.x - o.w} : i \in Beside(z)}
  IN  {p \in UNION {{<<x, 0, z>> : x \in {Max({0, v}) : v \in Widths(z)}}
                       : z \in {Max({0, v}) : v \in depths}} :
         \A i \in Beside(p[3]) : Shared(p[1], o.w, i.x, i.w) = 0}

\* ... and the tops of what is placed, aligned with one side or the other.
TopPoints(items, o, target) ==
  UNION {{<<x, i.y + i.h, z>> :
            x \in {i.x, Max({0, i.x + i.w - o.w}), i.x + i.w, Max({0, i.x - o.w})},
            z \in {i.z, i.z + i.d, Max({0, i.z - o.d}), Max({0, i.z + i.d - o.d}), target}}
           : i \in items}

DensePoints(items, truck, o, target) ==
  {p \in {<<0, 0, 0>>, <<0, 0, target>>} \cup CornerPoints(items)
           \cup FloorPoints(items, truck, o, target) \cup TopPoints(items, o, target) :
     p[1] + o.w <= truck.w /\ p[3] + o.d <= truck.l}

ValidPlacement(c, truck, items) ==
  /\ InsideTruck(c, truck)
  /\ ~HasOverlap(c, items)
  /\ HasMinimumSupport(c, items)
  /\ RespectsFragility(c, items)
  /\ HasLateralSupport(c, truck, items)
  /\ HasLongitudinalRestraint(c, truck, items)
  /\ HasNoLever(c, items)

Reachable(candidates, truck, items) == {c \in candidates : PathClear(c, truck, items)}

\* Of the candidates that can be reached from the door only the deepest.
LoadingFrontier(candidates, truck, items) ==
  LET reachable == Reachable(candidates, truck, items)
  IN  {c \in reachable : \A other \in reachable : c.z <= other.z}

DenseCandidates(p, pkg, truck, items, mayTurn) ==
  LET At(o) == {PlacementAt(p, pkg, q[1], q[2], q[3], o) :
                  q \in DensePoints(items, truck, o, TargetDepth(pkg.rank, MaxRank, truck, o.d))}
      all == UNION {At(o) : o \in Orientations(pkg, mayTurn)}
  IN  LoadingFrontier({c \in all : ValidPlacement(c, truck, items)}, truck, items)
=============================================================================
