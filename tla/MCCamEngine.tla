---------------------------- MODULE MCCamEngine ----------------------------
(***************************************************************************)
(* Small instances of CamEngine: six days in two months, three leases, two *)
(* pools, two expenses, and five families of inputs that each vary what    *)
(* they are named for.                                                     *)
(***************************************************************************)
EXTENDS CamEngine, TLC

CONSTANTS e1, e2, p1, p2, site, u1, u2, u3   \* model values

MCLease   == 1..3
MCPool    == {p1, p2}
MCExpense == {e1, e2}

W(a, b) == [from |-> a, to |-> b]
Whole   == W(1, 6)
Windows == {w \in {W(a, b) : a, b \in 1..6} : w.from <= w.to}

Suite(l, u, areas) == [lease |-> l, spaces |-> {u}, areas |-> areas] @@ Whole
Area(a, w)         == [area |-> a] @@ w
Policy(l, c, t, w) == [lease |-> l, cat |-> c, terms |-> t] @@ w
Enrolled(l, p, w)  == [lease |-> l, pool |-> p] @@ w
Member(s, w)       == [scope |-> s] @@ w
Measure(s, a, w)   == [scope |-> s, area |-> a] @@ w
NoTerms            == [t \in {} |-> 0]

Cost(c, v, w) == [cat |-> c, period |-> w, amount |-> 360, variability |-> v, control |-> "controllable"]

\* Lease 1 has half of a site, lease 2 a quarter; pool p1 takes everything.
Plain ==
    [published    |-> MCExpense,
     expense      |-> e1 :> Cost("c1", "variable", Whole) @@ e2 :> Cost("c2", "fixed", Whole),
     assigned     |-> [x \in MCExpense \X MCPool |-> IF x[2] = p1 THEN 360 ELSE 0],
     pools        |-> [p \in MCPool |-> [own |-> {site}, ofProperty |-> TRUE, members |-> {},
                                         categories |-> {}, target |-> None]],
     premises     |-> {Suite(1, u1, {Area(2, Whole)}), Suite(2, u2, {Area(1, Whole)})},
     measurements |-> {Measure(site, 4, Whole)},
     occupancy    |-> {},
     policies     |-> {Policy(1, "c1", NoTerms, Whole)},
     participants |-> {Enrolled(l, p1, Whole) : l \in MCLease},
     history      |-> [l \in MCLease |-> {}],
     mode         |-> "posting_eligible",
     billed       |-> [l \in MCLease |-> 5],
     adjustment   |-> [l \in MCLease |-> [state |-> "KNOWN_ZERO"]],
     credit       |-> [l \in MCLease |-> [state |-> "KNOWN_AMOUNT", amount |-> 2]]]

\* What begins and ends when: the area of lease 1 changes on day k; a unit
\* leaves the pool; policies, participations and service periods of any kind.
Starting ==
    {[Plain EXCEPT
        !.premises = {Suite(1, u1, {Area(2, W(1, k - 1)), Area(1, W(k, 9))}), Suite(2, u2, {Area(1, Whole)})},
        !.policies = {Policy(1, "c1", t, w), Policy(2, "c2", NoTerms, W(2, 9))},
        !.participants = {Enrolled(1, p1, part), Enrolled(2, p1, Whole)},
        !.expense[e1].period = service,
        !.pools[p1].members = members,
        !.measurements = {Measure(site, 4, Whole), Measure(u1, 2, Whole), Measure(u2, 2, Whole)}]
        : k \in {2, 3, 5}, t \in {NoTerms, [percent |-> 25]}, w \in Windows, part \in {Whole, W(3, 9)},
          service \in {Whole, W(2, 3), W(0, 2), W(4, 8)},
          members \in {{}, {Member(u1, Whole), Member(u2, W(1, 4))}}}

\* What is left over in rounding: three leases that owe -2 to 5 internal units.
Rounding ==
    {[Plain EXCEPT
        !.policies = {Policy(l, "c1", [direct |-> 2 * owed[l]], W(1, 3)) : l \in MCLease},
        !.premises = @ \cup {Suite(3, u3, {Area(1, Whole)})}] : owed \in [MCLease -> -2..5]}

Cap(kind, amount) == [kind |-> kind, amount |-> amount, percent |-> 10]

Terms ==
    {NoTerms, [percent |-> 50], [direct |-> 90], [direct |-> -70], [target |-> 50], [stop |-> 100], [base |-> 240], [base |-> None],
     [base |-> 120, stop |-> 90, cap |-> Cap("fixed_dollar", 40), fee |-> 10]}
    \cup {[cap |-> Cap(kind, amount)] : kind \in {"fixed_dollar", "noncumulative", "cumulative", "none", "unrecognized"},
                                        amount \in {None, 60}}

\* Terms and pools: what two pools accept, their gross-up, what the terms make of it.
Terming ==
    {[Plain EXCEPT
        !.policies = {Policy(1, "c1", t, Whole), Policy(2, "c2", NoTerms, Whole)},
        !.participants = {Enrolled(l, p, Whole) : l \in 1..2, p \in MCPool},
        !.assigned = [x \in MCExpense \X MCPool |-> IF x[2] = p1 THEN 240 ELSE 120],
        !.occupancy = IF let = 0 THEN {} ELSE {Measure(site, let, W(0, 9))},
        !.expense[e1] = [@ EXCEPT !.period = W(1, 2 + let), !.control = control],
        !.history = [@ EXCEPT ![1] = past],
        !.pools[p1].target = target,
        !.pools[p2].categories = categories]
        : t \in Terms, let \in {0, 1, 4}, control \in {"controllable", "unknown"}, target \in {None, 95},
          past \in {{}, {[year |-> 1, amount |-> 50], [year |-> 2, amount |-> 70]}},
          categories \in {{}, {[cat |-> "c1", mode |-> "include"]}, {[cat |-> "c1", mode |-> "exclude"]}}}

\* What is missing.
Missing ==
    {[Plain EXCEPT
        !.expense[e1] = [@ EXCEPT !.variability = kind, !.period = service],
        !.expense[e2].cat = c,
        !.pools[p1] = [@ EXCEPT !.categories = categories, !.ofProperty = FALSE, !.members = {Member(u1, W(1, last))}],
        !.policies = @ \cup more,
        !.premises = {Suite(1, u1, areas)},
        !.measurements = {Measure(u1, 4, W(1, upto)), Measure(site, 4, Whole)},
        !.published = published]
        : kind \in {"variable", "unknown"}, service \in {Whole, None}, c \in {"c2", None},
          categories \in {{}, {[cat |-> "c1", mode |-> "include"], [cat |-> "c2", mode |-> "include"]}},
          last \in {4, 9}, upto \in {2, 5, 9},
          more \in {{}, {Policy(1, "c1", [percent |-> 10], W(5, 6))}, {Policy(1, "c3", [direct |-> 6], W(6, 6))},
                   {Policy(2, "c2", [target |-> t], Whole) : t \in {90, 95}}},
          areas \in {{Area(2, Whole)}, {Area(2, W(1, 4))}, {Area(2, W(1, 3)), Area(None, W(4, 9))}},
          published \in {MCExpense, {e1}}}

\* What is not settled with a tenant, and an expense that is in two pools.
Open ==
    {[Plain EXCEPT !.mode = mode, !.adjustment[1] = extra, !.credit[2] = credit, !.assigned[e1, p2] = second]
        : second \in {0, 4, 5}, mode \in {"preview", "posting_eligible"},
          extra \in {[state |-> s] : s \in {"missing", "UNKNOWN", "NOT_APPLICABLE"}}
                    \cup {[state |-> "KNOWN_AMOUNT", amount |-> 7]},
          credit \in {[state |-> s] : s \in {"missing", "KNOWN_ZERO"}}}

MCInputs == Starting \cup Rounding \cup Terming \cup Missing \cup Open

=============================================================================
