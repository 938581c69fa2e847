----------------------------- MODULE CamEngine -----------------------------
(***************************************************************************)
(* A calculation by CAM engine v2 (runCamEngine): pools are assembled, the *)
(* leases' policies are run against them segment by segment, the amounts   *)
(* of each pool are rounded once, and what a lease owes is reconciled with *)
(* what it was billed.  Whatever forbids posting is kept as a blocking     *)
(* exception, a pair of its code and what it is about; warnings are left   *)
(* out.                                                                    *)
(*                                                                         *)
(* Pools and leases come in the order the snapshot has them in, which its  *)
(* query does not fix: any order is taken here.                            *)
(***************************************************************************)
EXTENDS CamCalc

CONSTANTS
    Lease,   \* leases of the property; numbers, in the order of their ids
    Pool,    \* recovery pools of the period
    Inputs,  \* the inputs (CamRunInput) that are tried
    Scale    \* a number the fractions of DayByDay are parts of

ASSUME LeaseAssumption ==
    /\ Lease \subseteq Nat /\ IsFiniteSet(Lease)
    /\ IsFiniteSet(Pool) /\ IsFiniteSet(Expense) /\ Scale \in Nat \ {0}

-----------------------------------------------------------------------------
(* What the tables the input is read from admit *)

\* Rows with a window: effective_to is never before effective_from.
AreWindows(S) ==
    IsFiniteSet(S) /\ \A w \in S : w.from \in Int /\ w.to \in Int /\ w.from <= w.to

\* The terms of a rule have no sign that is checked; a direct amount comes alone.
AreTerms(terms) ==
    /\ \A t \in {"percent", "direct", "target", "stop", "fee"} \cap DOMAIN terms : terms[t] \in Int
    /\ "base" \in DOMAIN terms => terms.base \in Int \cup {None}
    /\ "cap" \in DOMAIN terms => terms.cap.amount \in Int \cup {None} /\ terms.cap.percent \in Int
    /\ "direct" \in DOMAIN terms => DOMAIN terms = {"direct"}

\* A scope has one measurement at a time.  What is assigned to a pool is no less
\* than nothing: every command that writes amounts of expenses refuses others.
\* The target of a pool and an adjustment with an amount may have any sign.
WellFormed(in) ==
    /\ in.published \subseteq Expense
    /\ \A e \in Expense : /\ in.expense[e].period = None \/ AreWindows({in.expense[e].period})
                          /\ in.expense[e].variability \in {"fixed", "variable", "semi_variable", "unknown"}
    /\ in.assigned \in [Expense \X Pool -> Nat]
    /\ DOMAIN in.pools = Pool
    /\ \A p \in Pool : /\ AreWindows(in.pools[p].members) /\ IsFiniteSet(in.pools[p].own)
                       /\ in.pools[p].target \in Int \cup {None}
    /\ AreWindows(in.premises)
    /\ \A x \in in.premises : AreWindows(x.areas) /\ \A a \in x.areas : a.area \in Nat \cup {None}
    /\ AreWindows(in.measurements) /\ \A m \in in.measurements : m.area \in Nat
    /\ \A m, n \in in.measurements : m.scope = n.scope /\ m # n => DaysOf(m) \cap DaysOf(n) = {}
    /\ AreWindows(in.occupancy) /\ \A o \in in.occupancy : o.area \in Nat
    /\ AreWindows(in.policies) /\ \A q \in in.policies : q.lease \in Lease /\ AreTerms(q.terms)
    /\ AreWindows(in.participants)
    /\ \A l \in Lease : /\ IsFiniteSet(in.history[l])
                        /\ \A h \in in.history[l] : h.year \in Int /\ h.amount \in Int
    /\ \A l \in Lease : /\ in.billed[l] \in Int
                        /\ \A x \in {in.adjustment[l], in.credit[l]} :
                              /\ x.state \in {"missing", "UNKNOWN", "KNOWN_ZERO", "KNOWN_AMOUNT", "NOT_APPLICABLE"}
                              /\ x.state = "KNOWN_AMOUNT" => x.amount \in Int

ASSUME InputsAssumption == \A in \in Inputs : WellFormed(in)

VARIABLES
    input,      \* the input
    segments,   \* the segments of the period
    assembled,  \* pools that went through pass 1
    charged,    \* leases that went through pass 2
    raw,        \* per pool, what its leases owe before rounding: functions on leases
    final,      \* the same in units of the ledger; no function until rounded
    due,        \* per lease, what is due from it (or to it) after reconciliation
    exceptions  \* blocking exceptions

engineVars == <<input, segments, assembled, charged, raw, final, due, exceptions>>

NoAmounts == [l \in {} |-> 0]

EngineInit ==
    /\ input \in Inputs
    /\ segments = Segments(input)
    /\ assembled = {} /\ charged = {}
    /\ raw = [p \in Pool |-> NoAmounts]
    /\ final = [p \in Pool |-> NoAmounts]
    /\ due = [l \in {} |-> 0]
    /\ exceptions = {<<"POOL_ASSIGNMENT_OVER_ALLOCATED", e>> : e \in
          {e \in input.published : Sum(Pool, LAMBDA p : input.assigned[<<e, p>>]) > input.expense[e].amount + Unit}}

-----------------------------------------------------------------------------
(* Pass 1 *)

UnmeasuredIn(p, seg) ==
    {s \in Scopes(input, p, seg) : Covered(input, s, seg) < Length(seg)}

AssemblyExceptions(p) ==
    LET pool == input.pools[p]
        filled == {seg \in segments : Included(input, p, seg) # {}}
    IN  {<<"POOL_ASSIGNMENT_ORPHANED", e>> : e \in Assigned(input, p) \ input.published}
        \cup {<<"EXPENSE_SERVICE_PERIOD_MISSING", e>> : e \in
                 (Assigned(input, p) \cap input.published) \ Spread(input, p)}
        \cup {<<"EXPENSE_CATEGORY_MISSING", e>> : e \in
                 {e \in Spread(input, p) : /\ pool.categories # {} /\ input.expense[e].cat = None
                                           /\ \E seg \in segments : Prorated(input, p, e, seg) > 0}}
        \cup (UNION {{<<"AREA_MISSING", s>> : s \in UnmeasuredIn(p, seg)} : seg \in filled})
        \cup (UNION {{<<"VARIABILITY_UNKNOWN", e>> : e \in OfKind(input, Included(input, p, seg), {"unknown"})}
                        : seg \in filled})

Assemble(p) ==
    /\ p \in Pool \ assembled
    /\ assembled' = assembled \cup {p}
    /\ exceptions' = exceptions \cup AssemblyExceptions(p)
    /\ UNCHANGED <<input, segments, charged, raw, final, due>>

-----------------------------------------------------------------------------
(* Pass 2 *)

\* A policy is run in a segment if it has no rival there.
Runs(q, seg) == PoolsFor(input, q, seg) # {} /\ Rivals(input, q, seg) = {}

\* The pools and segments in which a policy recovers something.
Places(q) ==
    UNION {PoolsFor(input, q, seg) \X {seg} :
              seg \in {s \in segments : q \in PoliciesIn(input, q.lease, s) /\ Runs(q, s)}}

Owed(l, p) ==
    Sum(UNION {{<<q, seg>> : seg \in {s \in segments : <<p, s>> \in Places(q)}}
                  : q \in {q \in input.policies : q.lease = l}},
        LAMBDA at : Charge(input, at[1], p, at[2]))

\* computeTenantNumeratorArea and the empty numerator.
PremisesExceptions(l, p, seg) ==
    LET premises == PremisesIn(input, l, p, seg)
    IN  IF premises = {} THEN {<<"PREMISES_MISSING", l>>}
        ELSE {<<"AREA_MISSING", l>> : x \in
                 {x \in premises : \/ InForce(x.areas, seg) = {}
                                   \/ \E a \in InForce(x.areas, seg) : a.area = None}}

StepExceptions(q, p, seg) ==
    (IF NeedsArea(input, q, p, seg) /\ Denominator(input, p, seg) = 0
        THEN {<<"DENOMINATOR_ZERO", p>>} ELSE {})
    \cup (IF Has(q, "base") /\ q.terms.base = None THEN {<<"BASE_YEAR_MISSING", q.lease>>} ELSE {})
    \cup (IF Has(q, "cap") /\ q.terms.cap.kind = "unrecognized"
             THEN {<<"CAP_TYPE_UNRECOGNIZED", q.lease>>} ELSE {})

PolicyExceptions(q, seg) ==
    IF PoolsFor(input, q, seg) = {} THEN {<<"LEASE_POOL_UNRESOLVED", q.lease>>}
    ELSE IF Rivals(input, q, seg) # {}
         THEN LET both == {q} \cup Rivals(input, q, seg)
                  targets == {r.terms.target : r \in {r \in both : Has(r, "target")}}
              IN  {<<IF Cardinality(targets) > 1 THEN "GROSS_UP_TARGET_CONFLICT"
                     ELSE "DUPLICATE_RECOVERY_PATH", q.lease>>}
         ELSE UNION {PremisesExceptions(q.lease, p, seg) \cup StepExceptions(q, p, seg)
                        : p \in PoolsFor(input, q, seg)}

ChargeLease(l) ==
    /\ assembled = Pool
    /\ l \in Lease \ charged
    /\ charged' = charged \cup {l}
    /\ LET mine == {q \in input.policies : q.lease = l}
           pools == {p \in Pool : \E q \in mine : \E seg \in segments : <<p, seg>> \in Places(q)}
       IN  /\ raw' = [p \in Pool |-> IF p \in pools
                         THEN [k \in DOMAIN raw[p] \cup {l} |-> IF k = l THEN Owed(l, p) ELSE raw[p][k]]
                         ELSE raw[p]]
           /\ exceptions' = exceptions \cup
                 UNION {UNION {PolicyExceptions(q, seg) : q \in PoliciesIn(input, l, seg)} : seg \in segments}
    /\ UNCHANGED <<input, segments, assembled, final, due>>

-----------------------------------------------------------------------------
(* The rounding boundary, and the result of each lease *)

RoundPool(p) ==
    /\ charged = Lease
    /\ DOMAIN final[p] # DOMAIN raw[p]
    /\ final' = [final EXCEPT ![p] = Rounded(raw[p])]
    /\ UNCHANGED <<input, segments, assembled, charged, raw, due, exceptions>>

\* Mutant: an adjustment nobody has recorded counts as none.
UnsettledRows == {"UNKNOWN"}

Unsettled == {"missing", "UNKNOWN"}

\* resolveAdjustmentAmount
AdjustmentAmount(adjustment) == IF adjustment.state = "KNOWN_AMOUNT" THEN adjustment.amount ELSE 0

Recovery(l) == Sum({p \in Pool : l \in DOMAIN final[p]}, LAMBDA p : final[p][l])

Reconcile(l) ==
    /\ charged = Lease /\ \A p \in Pool : DOMAIN final[p] = DOMAIN raw[p]
    /\ l \in Lease \ DOMAIN due
    /\ LET extra == input.adjustment[l]
           credit == input.credit[l]
       IN  /\ due' = [k \in DOMAIN due \cup {l} |->
                         IF k = l THEN Recovery(l) - input.billed[l]
                                       + AdjustmentAmount(extra) - AdjustmentAmount(credit)
                         ELSE due[k]]
           /\ exceptions' =
                 IF input.mode = "posting_eligible" /\ {extra.state, credit.state} \cap Unsettled # {}
                    THEN exceptions \cup {<<"PRIOR_ADJUSTMENT_UNKNOWN", l>>}
                    ELSE exceptions
    /\ UNCHANGED <<input, segments, assembled, charged, raw, final>>

EngineNext ==
    \/ \E p \in Pool  : Assemble(p) \/ RoundPool(p)
    \/ \E l \in Lease : ChargeLease(l) \/ Reconcile(l)

EngineSpec == EngineInit /\ [][EngineNext]_engineVars

Done  == assembled = Pool /\ DOMAIN due = Lease
\* ready_to_post
Ready == Done /\ exceptions = {}

-----------------------------------------------------------------------------
(* Properties *)

NoneNegative(in) ==
    /\ \A q \in in.policies :
          /\ \A t \in {"percent", "direct", "target", "stop", "fee"} \cap DOMAIN q.terms : q.terms[t] >= 0
          /\ "base" \in DOMAIN q.terms /\ q.terms.base # None => q.terms.base >= 0
          /\ "cap" \in DOMAIN q.terms => /\ q.terms.cap.amount = None \/ q.terms.cap.amount >= 0
                                        /\ q.terms.cap.percent >= 0
    /\ \A p \in Pool : in.pools[p].target = None \/ in.pools[p].target >= 0
    /\ \A l \in Lease : \A h \in in.history[l] : h.amount >= 0

Money(in) == IF NoneNegative(in) THEN Nat ELSE Int

IsAmounts(f, S) == DOMAIN f \subseteq Lease /\ f \in [DOMAIN f -> S]

\* Types: unless a term or a posted year is negative, no lease owes a pool less
\* than nothing, before or after rounding.
EngineTypeOK ==
    /\ \A seg \in segments : seg \in [from : DaysOf(Period), to : DaysOf(Period)]
    /\ assembled \subseteq Pool /\ charged \subseteq Lease
    /\ \A p \in Pool : IsAmounts(raw[p], Money(input)) /\ IsAmounts(final[p], Money(input))
    /\ IsAmounts(due, Int)

OnDay(S, d) == {x \in S : d \in DaysOf(x)}

\* What is in force on a day, without segments.
PoliciesOn(l, d) == {q \in OnDay(input.policies, d) : q.lease = l}
PoolsOn(q, d) ==
    {p \in Pool : /\ \E x \in OnDay(input.participants, d) : x.lease = q.lease /\ x.pool = p
                  /\ Accepts(input.pools[p].categories, q.cat)}
ScopesOn(p, d) ==
    LET members == OnDay(input.pools[p].members, d)
    IN  IF members # {} THEN {m.scope : m \in members} ELSE input.pools[p].own
PoolAreaOn(p, d) ==
    Sum({m \in OnDay(input.measurements, d) : m.scope \in ScopesOn(p, d)}, LAMBDA m : m.area)
PremisesOn(l, p, d) ==
    {x \in OnDay(input.premises, d) :
        x.lease = l /\ x.spaces # {} /\ (input.pools[p].ofProperty \/ x.spaces \cap ScopesOn(p, d) # {})}
AreasOn(l, p, d) == UNION {{<<x, a>> : a \in OnDay(x.areas, d)} : x \in PremisesOn(l, p, d)}
CostsOn(p, d) ==
    {e \in Assigned(input, p) : /\ input.expense[e].period # None /\ d \in DaysOf(input.expense[e].period)
                                /\ Accepts(input.pools[p].categories, input.expense[e].cat)}

\* Costs that are spread over so many days that a day of them rounds to
\* nothing may be left out of a short segment.
WorthOn(p, d) == {e \in CostsOn(p, d) : 2 * input.assigned[<<e, p>>] >= Length(input.expense[e].period)}

\* The share of a policy on a day, a fraction.
ShareOn(q, p, d) ==
    IF Has(q, "percent") THEN [num |-> q.terms.percent, den |-> 100]
    ELSE [num |-> Sum(AreasOn(q.lease, p, d), LAMBDA at : at[2].area), den |-> PoolAreaOn(p, d)]

\* Scale times the part of the costs of a day that a policy takes.
OnTheDay(q, p, d) ==
    LET share == ShareOn(q, p, d)
        cost  == Sum({e \in CostsOn(p, d) : input.expense[e].cat = q.cat},
                     LAMBDA e : (input.assigned[<<e, p>>] * Scale) \div Length(input.expense[e].period))
    IN  IF share.den = 0 THEN 0 ELSE (cost * share.num) \div share.den

ByDay(l, p) ==
    Sum(UNION {{<<q, d>> : q \in {q \in PoliciesOn(l, d) : p \in PoolsOn(q, d)}} : d \in DaysOf(Period)},
        LAMBDA at : OnTheDay(at[1], p, at[2]))

\* In each segment half a unit for each cost, and for each share of costs.
Tolerance == 2 * Cardinality(segments) * Cardinality(Expense)

\* Measurements are averaged in a segment; they are no boundary.
Steady(p) ==
    \A seg \in segments : \A s \in Scopes(input, p, seg) : Cardinality(Measured(input, s, seg)) <= 1

\* Scale makes whole numbers of the fractions.
Fits(p) ==
    \A e \in Expense, d \in DaysOf(Period) : input.expense[e].period # None =>
        \A den \in {100, PoolAreaOn(p, d)} \ {0} : Scale % (Length(input.expense[e].period) * den) = 0

PoliciesOf(l) == {q \in input.policies : q.lease = l}

\* The policies of a lease are shares of the whole at most, with no other terms.
Shares(l, p) ==
    /\ \A q \in PoliciesOf(l) : DOMAIN q.terms \subseteq {"percent"} /\ Target(input, q, p) = None
    /\ \A d \in DaysOf(Period) : \A q \in PoliciesOn(l, d) : p \in PoolsOn(q, d) =>
          LET share == ShareOn(q, p, d) IN share.num >= 0 /\ (share.den = 0 \/ share.num <= share.den)

\* Where a lease has a share of a pool and no other terms, what it owes before
\* rounding is what the days add up to: the part of each day's costs that its
\* area is of the pool's on that day, whatever starts or ends when.
DayByDay ==
    Ready => \A p \in Pool : \A l \in DOMAIN raw[p] : Steady(p) /\ Fits(p) /\ Shares(l, p) =>
        /\ 2 * (Scale * raw[p][l] - ByDay(l, p)) <= Scale * Tolerance
        /\ 2 * (ByDay(l, p) - Scale * raw[p][l]) <= Scale * Tolerance

DaysIn(q, p) == {d \in DaysOf(q) \cap DaysOf(Period) : p \in PoolsOn(q, d)}

\* Terms for a year keep their meaning over the segments: a directly assigned
\* amount is charged for the days it holds, and a cap bounds what is
\* recovered of controllable costs in these days, but for half a unit a segment.
YearlyTerms ==
    Ready => \A p \in Pool, q \in input.policies :
        (PoliciesOf(q.lease) = {q} /\ DaysIn(q, p) # {}) =>
            LET year == Days * raw[p][q.lease]
                share(amount) == amount * Cardinality(DaysIn(q, p))
            IN  /\ Has(q, "direct") =>
                      /\ 2 * (year - share(q.terms.direct)) <= Days * Cardinality(segments)
                      /\ 2 * (share(q.terms.direct) - year) <= Days * Cardinality(segments)
                /\ (/\ NoneNegative(input)
                    /\ Has(q, "cap") /\ ~Has(q, "fee") /\ PermittedAmount(input, q) # None
                    /\ \A e \in Expense : input.expense[e].control = "controllable")
                      => 2 * (year - share(PermittedAmount(input, q))) <= Days * Cardinality(segments)

\* The ledger amounts of a pool add up to its rounded total, none is a whole
\* unit off, and giving a unit of one lease to another brings them no closer
\* to what they owe.
RoundedTies ==
    \A p \in Pool : DOMAIN raw[p] # {} /\ DOMAIN final[p] = DOMAIN raw[p] =>
        LET off(l, units) == LET x == Unit * units - raw[p][l] IN IF x < 0 THEN -x ELSE x
        IN  /\ Sum(DOMAIN raw[p], LAMBDA l : final[p][l]) = InUnits(Sum(DOMAIN raw[p], LAMBDA l : raw[p][l]))
            /\ \A l \in DOMAIN raw[p] : off(l, final[p][l]) < Unit
            /\ \A l, k \in DOMAIN raw[p] : l # k =>
                  off(l, final[p][l]) + off(k, final[p][k])
                      <= off(l, final[p][l] - 1) + off(k, final[p][k] + 1)

\* What may be posted is complete on every day: a policy has no rival and
\* recovers from a pool, in each of which the lease has premises with an area
\* and what the pool spreads has an area to be spread over; the costs are of
\* known kind; and nothing that is to be settled with the tenant is open.
ReadyMeansComplete ==
    Ready =>
        /\ \A l \in Lease, d \in DaysOf(Period) : \A q \in PoliciesOn(l, d) :
              /\ \A r \in PoliciesOn(l, d) : r.cat = q.cat => r = q
              /\ PoolsOn(q, d) # {}
              /\ \A p \in PoolsOn(q, d) :
                    /\ \A x \in PremisesOn(l, p, d) : OnDay(x.areas, d) # {}
                    /\ AreasOn(l, p, d) # {}
                    /\ \A at \in AreasOn(l, p, d) : at[2].area # None
                    /\ WorthOn(p, d) # {} =>
                          \A s \in ScopesOn(p, d) : \E m \in OnDay(input.measurements, d) : m.scope = s
        /\ \A p \in Pool : \A e \in Assigned(input, p) :
              e \in input.published /\ input.expense[e].period # None
        /\ \A p \in Pool, d \in DaysOf(Period) :
              \A e \in WorthOn(p, d) : input.expense[e].variability # "unknown"
        /\ input.mode = "posting_eligible" =>
              \A l \in Lease : {input.adjustment[l].state, input.credit[l].state}
                                \subseteq {"KNOWN_ZERO", "KNOWN_AMOUNT", "NOT_APPLICABLE"}

=============================================================================
