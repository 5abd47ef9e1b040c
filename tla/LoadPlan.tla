------------------------------- MODULE LoadPlan -------------------------------
(* One run of app/modules/optimization_poc: the packages of a cargo are      *)
(* arranged in a truck (service.py).  Six heuristics place one package after *)
(* the other; BACKTRACKING_LOGISTIC begins with such an arrangement and then *)
(* searches for a better one until it is done or its budget is spent.        *)
(* The search is a stack of frames, one per call of backtrack that has not   *)
(* returned, innermost first.  Of the scores of the heuristics their leading *)
(* terms are kept; where those tie, any of the best candidates is taken.     *)
EXTENDS LoadRules, SequencesExt

CONSTANTS
  Jobs,         \* the runs that are asked for
  NoAgency,
  MaxBranches   \* BACKTRACKING_MAX_BRANCHES_PER_LEVEL

ASSUME JobsAssumption ==
  \A j \in Jobs :
    /\ j.truck.w \in Nat \ {0} /\ j.truck.h \in Nat \ {0} /\ j.truck.l \in Nat \ {0}
    /\ j.truck.capacity \in Nat
    /\ j.origin \in 0..MaxRank
    /\ Len(j.cargo) \in Nat /\ DOMAIN j.cargo = 1..Len(j.cargo)
    /\ Len(j.codes) \in Nat /\ DOMAIN j.codes = 1..Len(j.codes)
    /\ \A p \in DOMAIN j.cargo :
         LET pkg == j.cargo[p]
         IN  /\ pkg.l \in Nat \ {0} /\ pkg.w \in Nat \ {0} /\ pkg.h \in Nat \ {0}
             /\ pkg.weight \in Nat
             /\ pkg.rank \in 0..MaxRank

VARIABLES
  job,          \* the run: engine, truck, cargo, list of codes, agency, mayTurn and origin
  phase,        \* "arrange", "seed", "search", "done" or "failed"
  placed,       \* what the heuristic has placed, in loading order
  pending,      \* the packages it has still to place
  unplaced,     \* those it, or the whole run, leaves behind
  best,         \* the best solution the search knows
  stack,        \* the frames of the search
  seen          \* the states the search has visited

loadVars == <<job, phase, placed, pending, unplaced, best, stack, seen>>

Heuristics == {"FIRST_FIT_3D", "BEST_FIT_3D", "WORST_FIT", "BEST_FIT_DECREASING_3D", "MINIMAX",
               "MAXIMIN"}

OptimizableStatuses == {"REGISTRADA", "COTIZADA", "PAGO_CONFIRMADO", "BOLETA_EMITIDA"}

\* Test packages are of every day, and those without agency of every agency.
\* An administrator without agency sees all.
Listed(j) ==
  {p \in DOMAIN j.cargo :
     LET s == j.cargo[p]
     IN  /\ s.status \in OptimizableStatuses
         /\ s.test \/ s.today
         /\ j.agency # NoAgency => s.agency = j.agency \/ (s.agency = NoAgency /\ s.test)}

\* With a list of codes only those: the places of the list whose package is
\* listed.  Nothing makes the list unique: a code that is given twice asks for
\* its package twice.
ListedByCodes(j) == {p \in DOMAIN j.codes : j.codes[p] \in Listed(j)}

\* The package that stands at a place of the run, and its data.
Code(j, p) == IF j.codes = <<>> THEN p ELSE j.codes[p]
Data(j, p) == j.cargo[Code(j, p)]

\* What a run arranges, by its places: documents are not stowed.
Packing(j) ==
  {p \in IF j.codes = <<>> THEN Listed(j) ELSE ListedByCodes(j) : Data(j, p).packing}

\* The packages of some places of the run.
Packages(places) == {Code(job, p) : p \in places}

Items(arrangement) == ToSet(arrangement)
Weight(arrangement) == MapThenSumSet(LAMBDA c : c.weight, Items(arrangement))
UsedVolume(arrangement) == MapThenSumSet(LAMBDA c : c.w * c.h * c.d, Items(arrangement))

\* A stop off the route stops the logistic run with a ValueError.
OnRoute(j) == \A p \in Packing(j) : Data(j, p).onRoute

LoadInit ==
  /\ job \in Jobs
  /\ phase = IF job.engine \in Heuristics THEN "arrange"
             ELSE IF OnRoute(job) THEN "seed" ELSE "failed"
  /\ placed = <<>>
  /\ pending = Packing(job)
  /\ unplaced = {}
  /\ best = [placed |-> <<>>, unplaced |-> {}]
  /\ stack = <<>>
  /\ seen = {}
-------------------------------------------------------------------------------
\* The order of tuples.
Less(s, t) == \E k \in DOMAIN s : s[k] < t[k] /\ \A m \in 1..(k - 1) : s[m] = t[m]

StackRank(p) == CASE Data(job, p).fragility = "BAJA" -> 0
                  [] Data(job, p).fragility = "MEDIA" -> 1
                  [] Data(job, p).fragility = "ALTA" -> 2

\* The order a strategy brings packages of one stop into (package_sort_key
\* and order_packages; every package has priority 1; codes rise with their
\* packages, a code given twice keeps the order of the list).
OrderKey(p) ==
  LET volume == -Volume(Data(job, p))
      base == -(Data(job, p).l * Data(job, p).w)
      weight == -Data(job, p).weight
      code == Code(job, p)
  IN  CASE job.engine = "FIRST_FIT_3D" -> <<StackRank(p), base, volume, code, p>>
        [] job.engine = "BEST_FIT_3D" -> <<StackRank(p), volume, base, weight, code, p>>
        [] job.engine = "MAXIMIN" -> <<StackRank(p), base, weight, volume, code, p>>
        [] job.engine = "MINIMAX" -> <<volume, weight, StackRank(p), code, p>>
        [] OTHER -> <<volume, weight, code, p>>

NotAfter(c, o) == c.y < o.y \/ (c.y = o.y /\ c.x <= o.x)

\* First fit, minimax and maximin order by loading_flow_key: (z,) y, x.
FlowPicks(candidates) == {c \in candidates : \A o \in candidates : NotAfter(c, o)}

\* Best fit: the lowest, then a tight fit.
BestFitPicks(candidates) == {c \in candidates : \A o \in candidates : c.y <= o.y}

\* Best fit decreasing: the smallest projected depth, then the least void.
DecreasingPicks(candidates) ==
  LET Depth(c) == Max({c.z + c.d} \cup {i.z + i.d : i \in Items(placed)})
  IN  {c \in candidates : \A o \in candidates : Depth(c) <= Depth(o)}

\* Worst fit: the best contact.
WorstFitPicks(candidates) == candidates

Picks(engine, candidates) ==
  CASE engine = "BEST_FIT_3D" -> BestFitPicks(candidates)
    [] engine = "WORST_FIT" -> WorstFitPicks(candidates)
    [] engine \in {"BEST_FIT_DECREASING_3D", "BACKTRACKING_LOGISTIC"} -> DecreasingPicks(candidates)
    [] OTHER -> FlowPicks(candidates)

FindPlacement(p) ==
  Picks(job.engine,
        DenseCandidates(p, Data(job, p), job.truck, Items(placed),
                        job.mayTurn \/ job.engine = "BACKTRACKING_LOGISTIC"))

Light == {p \in pending : WeightAllowed(Weight(placed), Data(job, p).weight, job.truck)}

\* Each pending package offers its best place; of the deepest offers those for
\* the farthest stop are compared by height, width and order.
Selected ==
  LET offers == [p \in Light |-> FindPlacement(p)]
      placeable == {p \in Light : offers[p] # {}}
      Depth(p) == (CHOOSE c \in offers[p] : TRUE).z
      deepest == {p \in placeable : \A q \in placeable : Depth(p) <= Depth(q)}
      far == {p \in deepest : \A q \in deepest : Data(job, p).rank >= Data(job, q).rank}
      Key(c) == <<c.y, c.x>> \o OrderKey(c.pkg)
  IN  UNION {{c \in offers[p] : \A q \in far \ {p} : \E o \in offers[q] : Less(Key(c), Key(o))}
               : p \in far}

\* One round of the loop that places the selected package.
PlaceNext ==
  /\ phase \in {"arrange", "seed"}
  /\ \E c \in Selected :
       /\ placed' = RecomputeSupportedWeights(Append(placed, c))
       /\ IF phase = "arrange"
            THEN /\ pending' = Light \ {c.pkg}
                 /\ unplaced' = unplaced \cup (pending \ Light)
            ELSE /\ pending' = pending \ {c.pkg}
                 /\ UNCHANGED unplaced
  /\ UNCHANGED <<job, phase, best, stack, seen>>

\* The loop of the heuristics ends: nothing is pending or nothing has a place.
EndArrangement ==
  /\ phase = "arrange"
  /\ Selected = {}
  /\ phase' = "done"
  /\ pending' = {}
  /\ unplaced' = unplaced \cup pending
  /\ UNCHANGED <<job, placed, best, stack, seen>>
-------------------------------------------------------------------------------
\* The search goes through the packages by the distance of their stop from
\* the origin, by volume and by weight.
Priority(p) == Max({0, Data(job, p).rank - job.origin})
LastPriority == Max({1, MaxRank - job.origin})

ComesBefore(p, q) ==
  LET Key(r) == <<-Priority(r), -Volume(Data(job, r)), -Data(job, r).weight, Code(job, r), r>>
  IN  Less(Key(p), Key(q))

Ordered ==
  [k \in 1..Cardinality(Packing(job)) |->
     CHOOSE p \in Packing(job) :
       Cardinality({q \in Packing(job) : ComesBefore(q, p)}) = k - 1]

WholeTruck == [x |-> 0, y |-> 0, z |-> 0, w |-> job.truck.w, h |-> job.truck.h, d |-> job.truck.l]

NewFrame(index, spaces, arrangement, left) ==
  [index |-> index, spaces |-> spaces, placed |-> arrangement, unplaced |-> left,
   options |-> {}, open |-> FALSE]

\* The places whose package none of some others has: what is left behind is
\* found by the package (its id), so the second of a code is not, when the
\* first has been placed.
Unnamed(places) == {p \in Packing(job) : Code(job, p) \notin Packages(places)}

\* The loop of build_progressive_seed ends; the search begins if the seed
\* leaves a package behind.
EndSeed ==
  /\ phase = "seed"
  /\ Selected = {}
  /\ best' = [placed |-> placed, unplaced |-> Unnamed({c.pkg : c \in Items(placed)})]
  /\ phase' = "search"
  /\ stack' = IF Len(placed) < Cardinality(Packing(job))
              THEN <<NewFrame(1, {WholeTruck}, <<>>, {})>> ELSE <<>>
  /\ pending' = {}
  /\ UNCHANGED <<job, placed, unplaced, seen>>

Top == stack[1]

\* Mutant of Split: the space beside keeps the whole length.
SplitTooLong(s, o) ==
  {space \in {[x |-> s.x + o.w, y |-> s.y, z |-> s.z, w |-> s.w - o.w, h |-> o.h, d |-> s.d],
              [x |-> s.x, y |-> s.y + o.h, z |-> s.z, w |-> s.w, h |-> s.h - o.h, d |-> o.d],
              [x |-> s.x, y |-> s.y, z |-> s.z + o.d, w |-> s.w, h |-> s.h, d |-> s.d - o.d]} :
     space.w > 0 /\ space.h > 0 /\ space.d > 0}

\* What a box leaves of a space: beside it, above it and towards the door.
Split(s, o) ==
  {space \in {[x |-> s.x + o.w, y |-> s.y, z |-> s.z, w |-> s.w - o.w, h |-> o.h, d |-> o.d],
              [x |-> s.x, y |-> s.y + o.h, z |-> s.z, w |-> s.w, h |-> s.h - o.h, d |-> o.d],
              [x |-> s.x, y |-> s.y, z |-> s.z + o.d, w |-> s.w, h |-> s.h, d |-> s.d - o.d]} :
     space.w > 0 /\ space.h > 0 /\ space.d > 0}

FitsInSpace(o, s) == o.w <= s.w /\ o.h <= s.h /\ o.d <= s.d

\* The four rules the search has copies of; the one for thin upright packages
\* it has not.
SearchAdmits(c, items) ==
  /\ RespectsFragility(c, items)
  /\ HasMinimumSupport(c, items)
  /\ HasLongitudinalRestraint(c, job.truck, items)
  /\ HasNoLever(c, items)

\* Mutant of Frontier: the place of the last package is not looked at.
DeepestOfAll(options, arrangement) ==
  {o \in options : \A other \in options : o.space.z <= other.space.z}

\* Never deeper in the truck than the package placed last.
Frontier(options, arrangement) ==
  LET from == IF arrangement = <<>> THEN 0 ELSE Last(arrangement).z
      accessible == {o \in options : o.space.z >= from}
  IN  {o \in accessible : \A other \in accessible : o.space.z <= other.space.z}

\* A box as the search places it: without the mark of an upright thin package.
Boxed(p, s, o) ==
  [PlacementAt(p, Data(job, p), s.x, s.y, s.z, o) EXCEPT !.vertical = FALSE]

ZoneDistance(p, option) ==
  Distance(option.space.z,
           TargetDepth(Priority(p), LastPriority, job.truck, option.turn.d))

InZone(p, option) ==
  100 * ZoneDistance(p, option) <= Max({100 * option.turn.d, 18 * job.truck.l})

\* The order in which the options are tried.
Preferred(p, a, b) ==
  LET Key(o) == <<IF InZone(p, o) THEN 0 ELSE 1, ZoneDistance(p, o), o.space.z, o.space.y,
                  o.space.x, o.space.w * o.space.h * o.space.d - o.turn.w * o.turn.h * o.turn.d>>
  IN  Less(Key(a), Key(b))

\* The options of a frame for its package p, cut to MaxBranches.
OptionsFor(p, frame) ==
  LET all == {[space |-> s, turn |-> o] : s \in frame.spaces, o \in Orientations(Data(job, p), TRUE)}
      admitted == {o \in all :
                     /\ FitsInSpace(o.turn, o.space)
                     /\ SearchAdmits(Boxed(p, o.space, o.turn), Items(frame.placed))}
      frontier == Frontier(admitted, frame.placed)
  IN  {o \in frontier : Cardinality({b \in frontier : Preferred(p, b, o)}) < MaxBranches}

\* Mutant of Better: as many packages are enough.
BetterOrEqual(a, b) == Len(a.placed) >= Len(b.placed)

\* More packages, or as many with a larger volume.
Better(a, b) ==
  \/ Len(a.placed) > Len(b.placed)
  \/ Len(a.placed) = Len(b.placed) /\ UsedVolume(a.placed) > UsedVolume(b.placed)

\* Two places with the same package are one to a state.
StateKey(f) ==
  <<f.index, f.spaces, {[c EXCEPT !.pkg = Code(job, c.pkg)] : c \in Items(f.placed)}>>
Entering == phase = "search" /\ stack # <<>> /\ ~Top.open
Hopeless == Len(Top.placed) + Len(Ordered) - (Top.index - 1) < Len(best.placed)
Remember == seen' = seen \cup {StateKey(Top)}
Pop == stack' = Tail(stack)

\* A call that returns at once: it cannot win, or it has been made before.
Prune ==
  /\ Entering
  /\ Hopeless \/ StateKey(Top) \in seen
  /\ Pop
  /\ UNCHANGED <<job, phase, placed, pending, unplaced, best, seen>>

Fresh == Entering /\ ~Hopeless /\ StateKey(Top) \notin seen

\* Every package has been decided on: keep the solution if it is better.
Leaf ==
  /\ Fresh
  /\ Top.index > Len(Ordered)
  /\ LET found == [placed |-> Top.placed, unplaced |-> Top.unplaced]
     IN  best' = IF Better(found, best) THEN found ELSE best
  /\ Pop
  /\ Remember
  /\ UNCHANGED <<job, phase, placed, pending, unplaced>>

Without(p, f) == NewFrame(f.index + 1, f.spaces, f.placed, f.unplaced \cup {p})

\* Too heavy, or without a place: the search goes on without the package, and
\* the call has nothing else to do.
LeaveOut ==
  /\ Fresh
  /\ Top.index <= Len(Ordered)
  /\ LET p == Ordered[Top.index]
     IN  /\ \/ ~WeightAllowed(Weight(Top.placed), Data(job, p).weight, job.truck)
            \/ OptionsFor(p, Top) = {}
         /\ stack' = <<Without(p, Top)>> \o Tail(stack)
  /\ Remember
  /\ UNCHANGED <<job, phase, placed, pending, unplaced, best>>

\* The call collects its options.
Branch ==
  /\ Fresh
  /\ Top.index <= Len(Ordered)
  /\ LET p == Ordered[Top.index]
     IN  /\ WeightAllowed(Weight(Top.placed), Data(job, p).weight, job.truck)
         /\ OptionsFor(p, Top) # {}
         /\ stack' = <<[Top EXCEPT !.open = TRUE, !.options = OptionsFor(p, Top)]>> \o Tail(stack)
  /\ Remember
  /\ UNCHANGED <<job, phase, placed, pending, unplaced, best>>

Returned == phase = "search" /\ stack # <<>> /\ Top.open

\* It tries the next one, on copies of the spaces and of what is placed.
TryOption ==
  /\ Returned
  /\ \E o \in Top.options :
       LET p == Ordered[Top.index]
           child == NewFrame(Top.index + 1,
                             (Top.spaces \ {o.space}) \cup Split(o.space, o.turn),
                             RecomputeSupportedWeights(
                               Append(Top.placed, Boxed(p, o.space, o.turn))),
                             Top.unplaced)
       IN  /\ \A other \in Top.options : ~Preferred(p, other, o)
           /\ stack' = <<child, [Top EXCEPT !.options = @ \ {o}]>> \o Tail(stack)
  /\ UNCHANGED <<job, phase, placed, pending, unplaced, best, seen>>

\* After the last option it tries to do without the package.
SkipPackage ==
  /\ Returned
  /\ Top.options = {}
  /\ stack' = <<Without(Ordered[Top.index], Top)>> \o Tail(stack)
  /\ UNCHANGED <<job, phase, placed, pending, unplaced, best, seen>>

\* The result is the best solution; if it lacks a place, a package that it does
\* not name would be reported as left behind.
Finish ==
  /\ phase' = "done"
  /\ placed' = best.placed
  /\ unplaced' = best.unplaced \cup
                  IF Len(best.placed) + Cardinality(best.unplaced) < Cardinality(Packing(job))
                    THEN Unnamed(best.unplaced \cup {c.pkg : c \in Items(best.placed)}) ELSE {}
  /\ stack' = <<>>
  /\ UNCHANGED <<job, pending, best, seen>>

EndSearch == (phase = "search") /\ stack = <<>> /\ Finish

\* The three seconds or the nodes are used up: every call returns.
RunOutOfBudget == (phase = "search") /\ stack # <<>> /\ Finish
-------------------------------------------------------------------------------
LoadNext ==
  \/ PlaceNext \/ EndArrangement \/ EndSeed
  \/ Prune \/ Leaf \/ LeaveOut \/ Branch \/ TryOption \/ SkipPackage
  \/ EndSearch \/ RunOutOfBudget

LoadSpec == LoadInit /\ [][LoadNext]_loadVars
-------------------------------------------------------------------------------
\* Every arrangement a run holds: of the heuristic, of its best solution and
\* of each open call.
Arrangements == {placed, best.placed} \cup {stack[k].placed : k \in DOMAIN stack}

LoadTypeOK ==
  /\ job \in Jobs
  /\ phase \in {"arrange", "seed", "search", "done", "failed"}
  /\ pending \subseteq Packing(job) /\ unplaced \subseteq Packing(job)
  /\ \A a \in Arrangements : {c.pkg : c \in Items(a)} \subseteq Packing(job)
  /\ \A k \in DOMAIN stack : stack[k].index \in 1..(Len(Ordered) + 1)

\* Every arrangement is a load: in the truck, no two packages in one place,
\* each on 60 % of its base, not above the weight limit.  The search asks for
\* no overlap and no wall: its spaces have to keep the packages apart.  At the
\* end no place of the run is placed twice, or placed and left behind, and none
\* is lost, save one whose package is placed: so every package is placed or
\* left behind, and one that was asked for once is placed once or left behind.
\* A code that is given twice is loaded twice, where there is room.
LoadIsSound ==
  /\ LoadTypeOK
  /\ \A a \in Arrangements :
       /\ \A c \in Items(a) : InsideTruck(c, job.truck) /\ HasMinimumSupport(c, Items(a) \ {c})
       /\ \A k, m \in DOMAIN a : k # m => Separated(a[k], a[m])
       /\ Weight(a) <= job.truck.capacity
  /\ phase = "done" =>
       /\ \A k, m \in DOMAIN placed : placed[k].pkg = placed[m].pkg => k = m
       /\ {c.pkg : c \in Items(placed)} \cap unplaced = {}
       /\ \A p \in Packing(job) \ ({c.pkg : c \in Items(placed)} \cup unplaced) :
            /\ job.engine \notin Heuristics
            /\ Code(job, p) \in Packages({c.pkg : c \in Items(placed)})

\* Every package could be slid from the door to its place when its turn came
\* (the file ALGORITMOS_OPTIMIZACION.md, 2.1, says so of the heuristics; the
\* search does not ask for it and reaches it by its frontier and its spaces).
LoadedFromTheDoor ==
  \A a \in Arrangements, k \in 1..(Cardinality(Packing(job))) :
    k <= Len(a) => PathClear(a[k], job.truck, Items(SubSeq(a, 1, k - 1)))

\* The search never gives a solution up for one with fewer packages, nor for
\* one with as many and less volume; what it knows when it ends, also for want
\* of time, is the result: it is never worse than the seed.
NeverWorseThanTheSeed ==
  [][phase = "search" =>
       /\ Len(best'.placed) >= Len(best.placed)
       /\ Len(best'.placed) = Len(best.placed) => UsedVolume(best'.placed) >= UsedVolume(best.placed)
       /\ phase' = "done" => placed' = best.placed]_loadVars

\* No package carries more than its capacity, nothing at all if it is fragile
\* (ALGORITMOS_OPTIMIZACION.md, 3).
WithinCapacity == \A a \in Arrangements : \A c \in Items(a) : c.carried <= c.capacity
===============================================================================
