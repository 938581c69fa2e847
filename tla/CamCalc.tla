------------------------------ MODULE CamCalc ------------------------------
(***************************************************************************)
(* The arithmetic of CAM engine v2: how a recovery period is cut into      *)
(* segments, what a pool holds in a segment, what a lease owes of it, and  *)
(* how amounts become ledger amounts.                                      *)
(*                                                                         *)
(* Days are numbers, 1 is the first day of the period.  A window is a      *)
(* record with fields from and to (inclusive; no end is a day after the    *)
(* period).  Money is counted in units of internal precision, areas in     *)
(* units of area precision; percentages are whole.  `in' is the input the  *)
(* engine is given (CamRunInput), see CamEngine.                           *)
(***************************************************************************)
EXTENDS Integers, FiniteSetsExt

CONSTANTS
    Days,        \* days of the recovery period
    MonthStart,  \* the days a month starts on
    Expense,     \* published expense inputs
    Unit,        \* internal units in a unit of the ledger
    None         \* null

ASSUME CalcAssumption ==
    /\ Days \in Nat \ {0} /\ Unit \in Nat \ {0}
    /\ MonthStart \subseteq 1..Days

NonNeg(x)      == IF x < 0 THEN 0 ELSE x
Sum(S, amount(_)) == SumFunction([x \in S |-> amount(x)])
\* Math.round(n / d): halves go up.
RoundDiv(n, d) == (2 * n + d) \div (2 * d)
\* Math.pow
Power(b, n) == LET pow[k \in 0..n] == IF k = 0 THEN 1 ELSE b * pow[k - 1] IN pow[n]

-----------------------------------------------------------------------------
(* Windows and segments *)

Period == [from |-> 1, to |-> Days]

DaysOf(w)      == w.from .. w.to
Length(w)      == w.to - w.from + 1
Overlap(v, w)  == Cardinality(DaysOf(v) \cap DaysOf(w))
InForce(S, w)  == {x \in S : Overlap(x, w) > 0}

\* The pieces into which the days of cuts divide a window.
Pieces(w, cuts) ==
    LET starts == {w.from} \cup {c \in cuts : w.from < c /\ c <= w.to}
    IN  {[from |-> s, to |-> Min({w.to} \cup {t - 1 : t \in {u \in starts : u > s}})] : s \in starts}

\* Mutant: the last day of a window is the first of the next segment.
CutsAtTheEnd(S) == UNION {{w.from, w.to} : w \in S}

Cuts(S) == UNION {{w.from, w.to + 1} : w \in S}

\* collectBoundaryDates, as the engine calls it: measurements of scopes are
\* not among the windows.
Boundaries(in) ==
    Cuts(in.premises) \cup Cuts(UNION {x.areas : x \in in.premises}) \cup Cuts(in.occupancy)
    \cup Cuts(in.policies) \cup Cuts(UNION {in.pools[p].members : p \in DOMAIN in.pools})
    \cup Cuts(in.participants)

Segments(in) == UNION {Pieces(month, Boundaries(in)) : month \in Pieces(Period, MonthStart)}

-----------------------------------------------------------------------------
(* Pools *)

\* An exclusion wins, a pool without categories takes everything.
Accepts(categories, c) ==
    \/ categories = {}
    \/ /\ c # None
       /\ [cat |-> c, mode |-> "exclude"] \notin categories
       /\ \/ [cat |-> c, mode |-> "include"] \in categories
          \/ \A x \in categories : x.mode # "include"

\* Expenses assigned to a pool, and those that can be spread over their service
\* period; an assignment may be of an expense that is no longer published.
Assigned(in, p) == {e \in Expense : in.assigned[<<e, p>>] > 0}
Spread(in, p)   == {e \in Assigned(in, p) \cap in.published : in.expense[e].period # None}

Prorated(in, p, e, seg) ==
    LET period == in.expense[e].period
    IN  RoundDiv(in.assigned[<<e, p>>] * Overlap(period, seg), Length(period))

Included(in, p, seg) ==
    {e \in Spread(in, p) : /\ Prorated(in, p, e, seg) > 0
                           /\ Accepts(in.pools[p].categories, in.expense[e].cat)}

\* What a pool holds in a segment of the expenses of S.
Holds(in, p, S, seg) == Sum(S, LAMBDA e : Prorated(in, p, e, seg))

\* The members of the pool in force, or else the property or building itself.
Scopes(in, p, seg) ==
    LET members == InForce(in.pools[p].members, seg)
    IN  IF members # {} THEN {m.scope : m \in members} ELSE in.pools[p].own

Measured(in, s, seg) == InForce({m \in in.measurements : m.scope = s}, seg)
Covered(in, s, seg)  == Sum(Measured(in, s, seg), LAMBDA m : Overlap(m, seg))

\* An average over the days that are measured.
AreaOf(in, s, seg) ==
    IF Covered(in, s, seg) = 0 THEN 0
    ELSE RoundDiv(Sum(Measured(in, s, seg), LAMBDA m : m.area * Overlap(m, seg)), Covered(in, s, seg))

Denominator(in, p, seg) ==
    IF Included(in, p, seg) = {} THEN 0
    ELSE Sum(Scopes(in, p, seg), LAMBDA s : AreaOf(in, s, seg))

Occupied(in, p, seg) ==
    RoundDiv(Sum({o \in in.occupancy : o.scope \in Scopes(in, p, seg)},
                 LAMBDA o : o.area * Overlap(o, seg)), Length(seg))

OfKind(in, S, kinds) == {e \in S : in.expense[e].variability \in kinds}

\* Variable amounts times target / occupancy, which counts as 5 % at least.
GrossedUp(variable, target, occupied, area) ==
    IF target = None \/ (area > 0 /\ target * area <= 100 * occupied) THEN variable
    ELSE IF area > 0 /\ 20 * occupied >= area THEN RoundDiv(variable * target * area, 100 * occupied)
         ELSE RoundDiv(variable * target, 5)

\* applyGrossUp: an amount of unknown variability is in neither sum.
AdjustedPool(in, p, seg, target) ==
    LET S == Included(in, p, seg)
        variable == Holds(in, p, OfKind(in, S, {"variable"}), seg)
    IN  Holds(in, p, OfKind(in, S, {"fixed", "semi_variable"}), seg)
        + GrossedUp(variable, target, Occupied(in, p, seg), Denominator(in, p, seg))

\* The part of the adjusted pool a category gets is its part of what the pool
\* holds: a fraction.
Part(in, p, seg, c, target) ==
    LET S == Included(in, p, seg)
        mine == {e \in S : in.expense[e].cat = c}
    IN  [num |-> AdjustedPool(in, p, seg, target) * Holds(in, p, mine, seg),
         den |-> Max({1, Holds(in, p, S, seg)})]

-----------------------------------------------------------------------------
(* Leases *)

PremisesIn(in, l, p, seg) ==
    {x \in InForce(in.premises, seg) :
        x.lease = l /\ (IF in.pools[p].ofProperty THEN x.spaces # {}
                         ELSE x.spaces \cap Scopes(in, p, seg) # {})}

Numerator(in, l, p, seg) ==
    Sum(UNION {{[x |-> x, area |-> a] : a \in {b \in InForce(x.areas, seg) : b.area # None}}
                  : x \in PremisesIn(in, l, p, seg)},
        LAMBDA r : RoundDiv(r.area.area * Overlap(r.area, seg), Length(seg)))

PoliciesIn(in, l, seg) == {q \in InForce(in.policies, seg) : q.lease = l}
Rivals(in, q, seg)     == {r \in PoliciesIn(in, q.lease, seg) : r.cat = q.cat} \ {q}

Participates(in, l, p, seg) == \E x \in InForce(in.participants, seg) : x.lease = l /\ x.pool = p

PoolsFor(in, q, seg) ==
    {p \in DOMAIN in.pools :
        Participates(in, q.lease, p, seg) /\ Accepts(in.pools[p].categories, q.cat)}

Has(q, term) == term \in DOMAIN q.terms

Target(in, q, p) == IF Has(q, "target") THEN q.terms.target ELSE in.pools[p].target

-----------------------------------------------------------------------------
(* runPolicySteps, for the steps a rule is materialized into: a share or a *)
(* direct amount, then base year, expense stop, cap and fee, each applied  *)
(* to what the one before it left.                                         *)

\* An amount for a year, prorated to a segment.
Yearly(amount, seg) == RoundDiv(amount * Length(seg), Days)

NeedsArea(in, q, p, seg) ==
    ~Has(q, "percent") /\ ~Has(q, "direct") /\ Part(in, p, seg, q.cat, Target(in, q, p)).num > 0

Share(in, q, p, seg) ==
    LET part == Part(in, p, seg, q.cat, Target(in, q, p))
        area == Denominator(in, p, seg)
    IN  IF Has(q, "percent") THEN RoundDiv(part.num * q.terms.percent, part.den * 100)
        ELSE IF area = 0 THEN 0
        ELSE RoundDiv(part.num * Numerator(in, q.lease, p, seg), part.den * area)

\* Mutant: more than what is left is deducted.
AfterBaseUnbounded(in, q, p, seg, x) ==
    IF ~Has(q, "base") \/ q.terms.base = None THEN x
    ELSE x - RoundDiv(Yearly(q.terms.base, seg) * Numerator(in, q.lease, p, seg),
                      Max({1, Denominator(in, p, seg)}))

\* The tenant's part of the base year is found with the areas.
AfterBase(in, q, p, seg, x) ==
    IF ~Has(q, "base") \/ q.terms.base = None THEN x
    ELSE LET area == Denominator(in, p, seg)
         IN  NonNeg(x - (IF area = 0 THEN 0
                         ELSE RoundDiv(Yearly(q.terms.base, seg) * Numerator(in, q.lease, p, seg), area)))

AfterStop(q, seg, x) == IF Has(q, "stop") THEN NonNeg(x - Yearly(q.terms.stop, seg)) ELSE x

\* What the cap of a policy permits in the year, from the years before.
PermittedAmount(in, q) ==
    LET cap  == q.terms.cap
        past == in.history[q.lease]
        first == CHOOSE h \in past : \A g \in past : h.year <= g.year
        last  == CHOOSE h \in past : \A g \in past : h.year >= g.year
        base  == IF cap.amount # None THEN cap.amount ELSE first.amount
        years == last.year - first.year + 1
    IN  CASE cap.kind = "fixed_dollar" -> cap.amount
          [] cap.kind = "noncumulative" /\ past # {} -> RoundDiv(last.amount * (100 + cap.percent), 100)
          [] cap.kind = "cumulative" /\ past # {} ->
                 RoundDiv(base * Power(100 + cap.percent, years), Power(100, years))
          [] cap.kind = "cumulative" /\ past = {} -> cap.amount
          [] OTHER -> None

\* Mutant: each segment is compared with the ceiling of the year.
AfterCapOfTheYear(in, q, p, seg, x) ==
    IF ~Has(q, "cap") \/ PermittedAmount(in, q) = None THEN x ELSE Min({x, PermittedAmount(in, q)})

\* Only the controllable part is capped.
AfterCap(in, q, p, seg, x) ==
    IF ~Has(q, "cap") \/ PermittedAmount(in, q) = None THEN x
    ELSE LET mine == {e \in Included(in, p, seg) : in.expense[e].cat = q.cat}
             control(kinds) == Holds(in, p, {e \in mine : in.expense[e].control \in kinds}, seg)
             both == control({"controllable", "uncontrollable"})
             controllable == IF both = 0 THEN 0 ELSE RoundDiv(x * control({"controllable"}), both)
         IN  x - NonNeg(controllable - Yearly(PermittedAmount(in, q), seg))

AfterFee(q, x) == IF Has(q, "fee") THEN x + RoundDiv(x * q.terms.fee, 100) ELSE x

Charge(in, q, p, seg) ==
    IF Has(q, "direct") THEN Yearly(q.terms.direct, seg)
    ELSE AfterFee(q, AfterCap(in, q, p, seg, AfterStop(q, seg,
             AfterBase(in, q, p, seg, Share(in, q, p, seg)))))

-----------------------------------------------------------------------------
(* The rounding boundary of a pool: the amounts of its leases become whole *)
(* units of the ledger that add up to their rounded sum.  The units        *)
(* missing go to those rounded down the most, the units in excess are      *)
(* taken from those rounded up the most, the lower lease first.            *)

InUnits(x)   == RoundDiv(x, Unit)
Remainder(x) == x - Unit * InUnits(x)

Residual(amount) ==
    InUnits(Sum(DOMAIN amount, LAMBDA l : amount[l])) - Sum(DOMAIN amount, LAMBDA l : InUnits(amount[l]))

\* l comes before k when sign units of 1 or -1 are given out.
Before(amount, sign, l, k) ==
    LET d == sign * (Remainder(amount[l]) - Remainder(amount[k])) IN d > 0 \/ (d = 0 /\ l < k)

\* Mutant: whatever the residual is, the units go to those rounded up the most.
RoundedUpwards(amount) ==
    LET r == Residual(amount)
        place(l) == Cardinality({k \in DOMAIN amount : Before(amount, -1, k, l)})
    IN  [l \in DOMAIN amount |->
            InUnits(amount[l]) + (IF r > 0 /\ place(l) < r THEN 1 ELSE IF r < 0 /\ place(l) < -r THEN -1 ELSE 0)]

Rounded(amount) ==
    LET r    == Residual(amount)
        sign == IF r < 0 THEN -1 ELSE 1
        place(l) == Cardinality({k \in DOMAIN amount : Before(amount, sign, k, l)})
    IN  [l \in DOMAIN amount |-> InUnits(amount[l]) + (IF place(l) < sign * r THEN sign ELSE 0)]

=============================================================================
