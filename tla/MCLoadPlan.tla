----------------------------- MODULE MCLoadPlan -----------------------------
(* Small trucks and cargos for LoadPlan.  Weights are multiples of 72, so    *)
(* that a weight is shared evenly by supports of up to 6 cells, twice over.  *)
EXTENDS LoadPlan

Pkg(l, w, h, weight, fragility, rank) ==
  [l |-> l, w |-> w, h |-> h, weight |-> weight, fragility |-> fragility, rank |-> rank,
   onRoute |-> TRUE, content |-> "OTHER", base |-> "LARGO_ANCHO", turns |-> TRUE,
   packing |-> TRUE, status |-> "REGISTRADA", today |-> TRUE, test |-> FALSE, agency |-> "trujillo"]

\* A wide box on a narrow one leaves a gap at its side, which a fragile one fits.
Overhang == <<Pkg(2, 1, 1, 144, "BAJA", 2), Pkg(3, 1, 1, 144, "BAJA", 1), Pkg(1, 1, 1, 72, "ALTA", 0)>>

\* A far, a middle and a near stop; the near package is the smallest.
Stops == <<Pkg(1, 1, 1, 72, "BAJA", 2), Pkg(2, 2, 1, 72, "BAJA", 1), Pkg(1, 1, 1, 72, "BAJA", 0)>>

Tower == <<Pkg(1, 1, 1, 144, "BAJA", 2), Pkg(1, 1, 1, 144, "BAJA", 2), Pkg(1, 1, 1, 144, "BAJA", 1)>>

\* Documents, an appliance, a flat device, one box too heavy for the rest.
Mixed == <<[Pkg(1, 1, 1, 72, "BAJA", 1) EXCEPT !.packing = FALSE],
           [Pkg(1, 1, 2, 144, "MEDIA", 1) EXCEPT !.content = "APPLIANCE"],
           [Pkg(3, 1, 2, 144, "MEDIA", 2) EXCEPT !.content = "ELECTRONICOS"],
           [Pkg(2, 1, 1, 144, "BAJA", 0) EXCEPT !.base = "LARGO_ALTO"],
           [Pkg(1, 2, 2, 432, "BAJA", 2) EXCEPT !.base = "ANCHO_ALTO"]>>

\* More than the truck holds.
Crowd == <<Pkg(2, 1, 1, 144, "BAJA", 2), Pkg(2, 2, 1, 144, "BAJA", 1), Pkg(1, 1, 2, 72, "MEDIA", 2),
           Pkg(2, 1, 2, 72, "BAJA", 0), [Pkg(1, 2, 1, 72, "MEDIA", 1) EXCEPT !.turns = FALSE]>>

\* Six packages, one of which cannot go where the others leave room.
Many == <<Pkg(2, 2, 1, 144, "BAJA", 2), Pkg(1, 2, 1, 72, "MEDIA", 2), Pkg(2, 1, 2, 144, "BAJA", 1),
          Pkg(1, 1, 3, 72, "ALTA", 1), Pkg(3, 1, 1, 144, "BAJA", 0), Pkg(2, 2, 2, 144, "BAJA", 0)>>

\* Of these only the first, the second and the last are for today and this agency.
Yard == <<Pkg(1, 1, 1, 72, "BAJA", 2),
          [Pkg(1, 2, 1, 72, "BAJA", 1) EXCEPT !.test = TRUE, !.today = FALSE, !.agency = NoAgency],
          [Pkg(1, 1, 1, 72, "BAJA", 1) EXCEPT !.today = FALSE],
          [Pkg(1, 1, 1, 72, "BAJA", 1) EXCEPT !.agency = "tulpo"],
          [Pkg(1, 1, 1, 72, "BAJA", 1) EXCEPT !.status = "EN_TRANSITO"],
          [Pkg(2, 1, 1, 72, "BAJA", 0) EXCEPT !.status = "COTIZADA"]>>

OffRoute == <<[Pkg(1, 1, 1, 72, "BAJA", 0) EXCEPT !.onRoute = FALSE]>>

Truck(w, h, l) == [w |-> w, h |-> h, l |-> l, capacity |-> 720]

Cargos == {<<Overhang, Truck(3, 2, 2)>>, <<Stops, Truck(2, 1, 3)>>, <<Tower, Truck(1, 3, 1)>>,
           <<Mixed, Truck(2, 3, 2)>>, <<Mixed, Truck(3, 3, 4)>>, <<Crowd, Truck(2, 2, 2)>>,
           <<Crowd, Truck(3, 2, 2)>>, <<Crowd, Truck(2, 3, 4)>>,
           <<Many, Truck(3, 2, 2)>>, <<Many, Truck(2, 2, 4)>>, <<Many, Truck(3, 3, 2)>>, <<Yard, Truck(1, 3, 2)>>, <<OffRoute, Truck(1, 1, 2)>>}

Job(engine, cargo, truck, mayTurn, origin) ==
  [engine |-> engine, cargo |-> cargo, truck |-> truck, mayTurn |-> mayTurn, origin |-> origin,
   codes |-> <<>>, agency |-> "trujillo"]

AllJobs == {Job(engine, c[1], c[2], TRUE, 0) :
              engine \in Heuristics \cup {"BACKTRACKING_LOGISTIC"}, c \in Cargos}
             \cup {Job("FIRST_FIT_3D", Crowd, Truck(2, 3, 4), FALSE, 0),
                   Job("BACKTRACKING_LOGISTIC", Crowd, Truck(2, 2, 2), TRUE, 1),
                   [Job("MINIMAX", Many, Truck(3, 2, 2), TRUE, 0) EXCEPT !.codes = <<6, 0, 2, 3>>,
                                                                         !.agency = NoAgency]}
             \cup {[Job(engine, Stops, Truck(2, 2, 2), TRUE, 0) EXCEPT !.codes = <<3, 2, 2, 3>>] :
                      engine \in {"FIRST_FIT_3D", "BEST_FIT_DECREASING_3D", "BACKTRACKING_LOGISTIC"}}
             \cup {[Job("BACKTRACKING_LOGISTIC", Tower, Truck(1, 1, 1), TRUE, 0) EXCEPT !.codes = <<1, 1, 2>>]}
=============================================================================
