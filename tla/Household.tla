------------------------------ MODULE Household ------------------------------
(***************************************************************************)
(* What the books of a family group say: statistics and budgets of a user  *)
(* (app/services/stats_service.py, budget_service.py, export_service.py),  *)
(* the figures an analysis is asked about (ai_analysis_service.py),        *)
(* and the settlement between members (app/services/settlement_service.py) *)
(* over the transactions of app/repositories/stats_repository.py.          *)
(*                                                                         *)
(* The views compute the same amounts several times, with queries of their *)
(* own.  Transactions bear the group their owner was in when they were     *)
(* recorded, so that a settlement meets the expenses of members who have   *)
(* left.  A view is taken of one state: its queries may see more if a      *)
(* transaction commits in between.  Percentages, which are rounded for     *)
(* display, and the order of lists are left out.                           *)
(***************************************************************************)
EXTENDS BillingDates, Sequences, SequencesExt

CONSTANTS
    Users,    \* rows of auth.users
    Kinds,    \* transactions a user may record
    Plans,    \* budgets a user may make: a month, a category, an amount
    Ratios,   \* the ratios a settlement may be asked for
    Ids,      \* bound: the ids of rows; one whose row is gone may be drawn again
    Null      \* None, a row that does not exist

VARIABLES
    entries,  \* transactions
    budgets,  \* rows of ledger.budgets: nothing keeps a category from having two
    members   \* the users of the family group

vars == <<entries, budgets, members>>

Init ==
    /\ entries = [i \in Ids |-> Null]
    /\ budgets = [i \in Ids |-> Null]
    /\ members = {}

-----------------------------------------------------------------------------
(* What changes the books.                                                 *)

Unused == {i \in Ids : entries[i] = Null /\ budgets[i] = Null}

\* A transaction is recorded, with the group of its owner, or deleted.
Record(u, kind) ==
    /\ \E i \in Unused :
          entries' = [entries EXCEPT ![i] = [user |-> u, tagged |-> u \in members, of |-> kind]]
    /\ UNCHANGED <<budgets, members>>

Erase(i) ==
    /\ entries[i] # Null
    /\ entries' = [entries EXCEPT ![i] = Null]
    /\ UNCHANGED <<budgets, members>>

CreateBudget(u, plan) ==
    /\ \E i \in Unused : budgets' = [budgets EXCEPT ![i] = [user |-> u, of |-> plan]]
    /\ UNCHANGED <<entries, members>>

\* Only the category and the amount of a budget of one's own can be changed.
UpdateBudget(u, i, plan) ==
    /\ budgets[i] # Null /\ budgets[i].user = u
    /\ budgets' = [budgets EXCEPT ![i].of.category = plan.category, ![i].of.amount = plan.amount]
    /\ UNCHANGED <<entries, members>>

DeleteBudget(u, i) ==
    /\ budgets[i] # Null /\ budgets[i].user = u
    /\ budgets' = [budgets EXCEPT ![i] = Null]
    /\ UNCHANGED <<entries, members>>

\* A user joins the group or leaves it.
Join(u) ==
    /\ members' = members \cup {u}
    /\ UNCHANGED <<entries, budgets>>

Leave(u) ==
    /\ u \in members
    /\ members' = members \ {u}
    /\ UNCHANGED <<entries, budgets>>

Next ==
    \/ \E u \in Users :
        \/ \E kind \in Kinds : Record(u, kind)
        \/ \E plan \in Plans : CreateBudget(u, plan) \/ \E i \in Ids : UpdateBudget(u, i, plan)
        \/ \E i \in Ids : DeleteBudget(u, i)
        \/ Join(u) \/ Leave(u)
    \/ \E i \in Ids : Erase(i)

Spec == Init /\ [][Next]_vars

-----------------------------------------------------------------------------
(* Queries.                                                                *)

Total(S) == MapThenSumSet(LAMBDA i : entries[i].of.amount, S)

\* SELECT field, sum(actual_amount) ... GROUP BY field
GroupBy(S, field) ==
    [v \in {entries[i].of[field] : i \in S} |-> Total({i \in S : entries[i].of[field] = v})]

SumOf(f) == MapThenSumSet(LAMBDA v : f[v], DOMAIN f)

At(f, v) == IF v \in DOMAIN f THEN f[v] ELSE 0

Between(from, to) ==
    {i \in Ids : entries[i] # Null /\ NotBefore(entries[i].of.date, from)
                                   /\ NotBefore(to, entries[i].of.date)}

Own(u, from, to) == {i \in Between(from, to) : entries[i].user = u}

Expenses(S) == {i \in S : entries[i].of.type = "EXPENSE"}

Income(S) == {i \in S : entries[i].of.type = "INCOME"}

On(y, m, d) == [year |-> y, month |-> m, day |-> d]

\* Mutant: months of 31 days are cut short.
EndOfThirty(y, m) == On(y, m, IF LastDay(y, m) > 30 THEN 30 ELSE LastDay(y, m))

EndOf(y, m) == On(y, m, LastDay(y, m))

\* get_family_member_expenses: what bears the group and is not private.
OfGroup(y, m) ==
    {i \in Expenses(Between(On(y, m, 1), EndOf(y, m))) :
        entries[i].tagged /\ ~entries[i].of.private}

\* get_list: of one's own, or of the group but for what others keep private.
Listed(u, family, from, to) ==
    IF family /\ u \in members
    THEN {i \in Between(from, to) :
             entries[i].tagged /\ (entries[i].user = u \/ ~entries[i].of.private)}
    ELSE Own(u, from, to)

\* get_detail answers.
Viewable(u, i) ==
    \/ entries[i].user = u
    \/ u \in members /\ entries[i].tagged /\ ~entries[i].of.private

\* get_list_for_export: Null asks for every category or area.
Exported(u, from, to, category, area) ==
    {i \in Own(u, from, to) : /\ category \in {Null, entries[i].of.category}
                              /\ area \in {Null, entries[i].of.area}}

-----------------------------------------------------------------------------
(* Views of one user.                                                      *)

\* get_expense_by_category
ByCategory(u, from, to) == GroupBy(Expenses(Own(u, from, to)), "category")

BudgetsOf(u, y, m) ==
    {i \in Ids : budgets[i] # Null /\ budgets[i].user = u
                  /\ budgets[i].of.year = y /\ budgets[i].of.month = m}

\* Budgets of a month against the expenses by category.
AgainstBudgets(u, y, m, spent) ==
    [i \in BudgetsOf(u, y, m) |->
        [actual |-> At(spent, budgets[i].of.category),
         remaining |-> budgets[i].of.amount - At(spent, budgets[i].of.category)]]

PreviousMonth(y, m) ==
    IF m = 1 THEN [year |-> y - 1, month |-> 12] ELSE [year |-> y, month |-> m - 1]

\* get_monthly_stats, with the amounts of the month before that its rates compare with.
Monthly(u, y, m) ==
    LET own == Own(u, On(y, m, 1), EndOf(y, m))
        categories == ByCategory(u, On(y, m, 1), EndOf(y, m))
        last == PreviousMonth(y, m)
        from == On(last.year, last.month, 1)
        to == IF m = 1 THEN On(y - 1, 12, 31) ELSE EndOf(y, m - 1)
    IN  [income |-> Total(Income(own)), expense |-> Total(Expenses(own)),
         categories |-> categories,
         before |-> [c \in DOMAIN categories |-> At(ByCategory(u, from, to), c)],
         expenseBefore |-> Total(Expenses(Own(u, from, to))),
         assets |-> GroupBy(Expenses(own), "asset"),
         budgets |-> AgainstBudgets(u, y, m, categories)]

\* get_performance of the budgets
Performance(u, y, m) ==
    AgainstBudgets(u, y, m, ByCategory(u, On(y, m, 1), On(y, m, LastDay(y, m))))

\* get_monthly_analysis: what the language model is told of the categories of a month.
Trends(u, y, m) ==
    LET last == PreviousMonth(y, m)
        now == ByCategory(u, On(y, m, 1), On(y, m, LastDay(y, m)))
        before == ByCategory(u, On(last.year, last.month, 1),
                             On(last.year, last.month, LastDay(last.year, last.month)))
    IN  [c \in DOMAIN now |-> [now |-> now[c], before |-> At(before, c)]]

\* get_savings_tips: the budgets that are exceeded, and by how much.
OverBudget(u, y, m) ==
    LET spent == ByCategory(u, On(y, m, 1), On(y, m, LastDay(y, m)))
        actual(i) == At(spent, budgets[i].of.category)
    IN  [i \in {i \in BudgetsOf(u, y, m) : actual(i) > budgets[i].of.amount} |->
            actual(i) - budgets[i].of.amount]

\* d - timedelta(days=k), for k up to 27
Minus(d, k) ==
    IF d.day > k THEN [d EXCEPT !.day = @ - k]
    ELSE LET last == Yesterday([d EXCEPT !.day = 1])
         IN  [last EXCEPT !.day = @ + d.day - k]

\* get_weekly_stats: from Monday to Sunday.
Weekly(u, date) ==
    LET from == Minus(date, Weekday(date))
        spent == Expenses(Own(u, from, Plus(from, 6)))
        byDay == GroupBy(spent, "date")
        days == [k \in 0 .. 6 |-> At(byDay, Plus(from, k))]
    IN  [from |-> from, total |-> Total(spent), days |-> days,
         quiet |-> {k \in 0 .. 6 : days[k] = 0},
         areas |-> GroupBy(spent, "area")]

\* get_yearly_stats; the months of get_monthly_income_expense are extracted from the dates.
Yearly(u, y) ==
    LET own == Own(u, On(y, 1, 1), On(y, 12, 31))
        month(i) == entries[i].of.date.month
    IN  [months |-> [m \in 1 .. 12 |->
             [income |-> Total({i \in Income(own) : month(i) = m}),
              expense |-> Total({i \in Expenses(own) : month(i) = m})]],
         categories |-> GroupBy(Expenses(own), "category"),
         subscriptions |-> Total({i \in Expenses(own) : entries[i].of.area = "SUBSCRIPTION"})]

-----------------------------------------------------------------------------
(* Views of the group.                                                     *)

ByMember(y, m) ==
    [u \in {entries[i].user : i \in OfGroup(y, m)} |->
        Total({i \in OfGroup(y, m) : entries[i].user = u})]

\* get_family_usage
Usage(y, m) ==
    [u \in members |->
        [total |-> At(ByMember(y, m), u),
         assets |-> GroupBy({i \in OfGroup(y, m) : entries[i].user = u}, "asset")]]

\* Equal shares: the remainder goes to the first members, one each.
EqualShares(total, n) == [i \in 1 .. n |-> total \div n + IF i <= total % n THEN 1 ELSE 0]

Size(n) == IF n < 0 THEN 0 - n ELSE n

\* Mutant: what the rounding leaves is nobody's.
RatioSharesRounded(total, ratio, low) ==
    LET parts == SumOf(ratio)
        rounded(i) == Size(total * ratio[i]) \div Size(parts) - IF i \in low THEN 1 ELSE 0
    IN  [i \in DOMAIN ratio |->
            IF total * ratio[i] < 0 <=> parts < 0 THEN rounded(i) ELSE 0 - rounded(i)]

\* Shares by ratio: each is rounded towards 0, and the last one gets what is left.  A share
\* that is a whole number may come out one closer to 0, the product of floating point
\* numbers being just short of it (low).
RatioShares(total, ratio, low) ==
    LET n == Len(ratio)
        rounded == RatioSharesRounded(total, ratio, low)
    IN  [rounded EXCEPT ![n] = @ + total - SumOf(rounded)]

LowChoices(total, ratio) ==
    LET parts == Size(SumOf(ratio))
    IN  SUBSET {i \in DOMAIN ratio :
                   /\ total * ratio[i] # 0
                   /\ (total * ratio[i]) % parts = 0
                   /\ ratio[i] % parts # 0}

Payment(debt, credit) == IF debt < credit THEN debt ELSE credit

\* The first who still owes something pays the first who is still owed something.
Pay(at) ==
    LET owing == {i \in DOMAIN at.left : at.left[i] < 0}
        owed == {i \in DOMAIN at.left : at.left[i] > 0}
        from == Min(owing)
        to == Min(owed)
        amount == Payment(0 - at.left[from], at.left[to])
    IN  IF owing = {} \/ owed = {} THEN at
        ELSE [left |-> [at.left EXCEPT ![from] = @ + amount, ![to] = @ - amount],
              made |-> Append(at.made, [from |-> from, to |-> to, amount |-> amount])]

\* calculate_settlement_transfers: the lists of debtors and creditors are walked once, in
\* the order of the members, and left when one of them is at its end.
Transfers(diff) ==
    LET walk[k \in 0 .. Len(diff)] ==
            IF k = 0 THEN [left |-> diff, made |-> << >>] ELSE Pay(walk[k - 1])
    IN  walk[Len(diff)].made

-----------------------------------------------------------------------------
(* Properties.                                                             *)

Months == {[year |-> kind.date.year, month |-> kind.date.month] : kind \in Kinds}

\* The views of a user agree with one another, although each has queries of its own: the
\* breakdowns of a month add up to its expenses, the months to those of the year, the days
\* and areas of a week to that week; the three views of a budget say the same, and budgets of
\* different categories count each expense of these categories once; what is compared with the month
\* before is what that month's own view says; the export of a category, or of an
\* area, has what the statistics count for it.  What somebody has spent in the view of the
\* group differs from their own view by what they keep to themselves.
\* What a user can open is what one of their lists has, and the list of the group adds
\* to its expenses only those the user keeps private.
ViewsAgree ==
    /\ \A u \in Users, at \in Months :
        LET y == at.year
            m == at.month
            month == Monthly(u, y, m)
            list(family) == Listed(u, family, On(y, m, 1), EndOf(y, m))
            kept == {i \in Expenses(Own(u, On(y, m, 1), EndOf(y, m))) :
                        entries[i].of.private \/ ~entries[i].tagged}
        IN  /\ SumOf(month.categories) = month.expense
            /\ SumOf(month.assets) = month.expense
            /\ Yearly(u, y).months[m] = [income |-> month.income, expense |-> month.expense]
            /\ Performance(u, y, m) = month.budgets
            /\ Trends(u, y, m) = [c \in DOMAIN month.categories |->
                                     [now |-> month.categories[c], before |-> month.before[c]]]
            /\ LET last == PreviousMonth(y, m)
               IN  month.expenseBefore = Monthly(u, last.year, last.month).expense
            /\ OverBudget(u, y, m) =
                  [i \in {i \in DOMAIN month.budgets : month.budgets[i].remaining < 0} |->
                      0 - month.budgets[i].remaining]
            /\ \A S \in SUBSET DOMAIN month.budgets :
                  (\A i, j \in S : i # j => budgets[i].of.category # budgets[j].of.category) =>
                      MapThenSumSet(LAMBDA i : month.budgets[i].actual, S)
                        = Total({j \in Expenses(Own(u, On(y, m, 1), EndOf(y, m))) :
                                    \E i \in S : entries[j].of.category = budgets[i].of.category})
            /\ \A c \in DOMAIN month.categories :
                  month.categories[c]
                    = Total(Expenses(Exported(u, On(y, m, 1), EndOf(y, m), c, Null)))
            /\ u \in members =>
                  /\ SumOf(Usage(y, m)[u].assets) = Usage(y, m)[u].total
                  /\ month.expense - Usage(y, m)[u].total = Total(kept)
                  /\ Total(Expenses(list(TRUE)))
                       = SumOf(ByMember(y, m)) + Total({i \in kept : entries[i].tagged})
            /\ list(TRUE) \cup list(FALSE)
                 = {i \in Between(On(y, m, 1), EndOf(y, m)) : Viewable(u, i)}
    /\ \A u \in Users, y \in {at.year : at \in Months} :
          LET year == Yearly(u, y)
          IN  SumOf(year.categories) = SumOf([m \in 1 .. 12 |-> year.months[m].expense])
    /\ \A u \in Users, date \in {kind.date : kind \in Kinds} :
          LET week == Weekly(u, date)
          IN  /\ SumOf(week.days) = week.total
              /\ SumOf(week.areas) = week.total
              /\ \A area \in DOMAIN week.areas :
                    week.areas[area] = Total(Expenses(
                        Exported(u, week.from, Plus(week.from, 6), Null, area)))
              /\ NotBefore(date, week.from) /\ NotBefore(Plus(week.from, 6), date)

\* What the i-th of the members pays, and is paid.
Paid(transfers, i) ==
    MapThenSumSet(LAMBDA k : transfers[k].amount, {k \in DOMAIN transfers : transfers[k].from = i})

Got(transfers, i) ==
    MapThenSumSet(LAMBDA k : transfers[k].amount, {k \in DOMAIN transfers : transfers[k].to = i})

\* A settlement of n members, in any order, with the given shares.
Settles(n, total, actual, share) ==
    LET diff == [i \in 1 .. n |-> actual[i] - share[i]]
        transfers == Transfers(diff)
        after == [i \in 1 .. n |-> diff[i] + Paid(transfers, i) - Got(transfers, i)]
    IN  /\ SumOf(share) = total
        /\ Len(transfers) < n
        /\ \A k \in DOMAIN transfers : transfers[k].amount > 0
        /\ \A i \in 1 .. n : after[i] \in 0 .. diff[i] \cup diff[i] .. 0
        /\ \A i, j \in 1 .. n : ~(after[i] < 0 /\ after[j] > 0)
        /\ SumOf(after) = SumOf(actual) - total

\* Nobody is paid for having a share, or pays when there is something to share.
Bears(total, share) ==
    \A i \in DOMAIN share : IF total < 0 THEN share[i] <= 0 ELSE share[i] >= 0

\* Whatever the order in which the members are read and the way shares are rounded, the
\* shares add up to what the group has spent, and bear its sign unless a ratio is negative
\* (nothing keeps one from being asked for); the transfers, fewer than the members, take
\* nobody from owing to being owed or back, and leave no debtor where there is a creditor;
\* what remains owed, or due, is just what has been spent by members who have left.
SettlementBalances ==
    \A at \in Months, order \in SetToSeqs(members) :
        LET spent == ByMember(at.year, at.month)
            n == Len(order)
            total == SumOf(spent)
            actual == [i \in 1 .. n |-> At(spent, order[i])]
        IN  order # << >> =>
              /\ Settles(n, total, actual, EqualShares(total, n))
              /\ Bears(total, EqualShares(total, n))
              /\ \A ratio \in {ratio \in Ratios : Len(ratio) = n} :
                   \A low \in LowChoices(total, ratio) :
                      /\ Settles(n, total, actual, RatioShares(total, ratio, low))
                      /\ (\A i \in 1 .. n : ratio[i] >= 0) => Bears(total, RatioShares(total, ratio, low))
=============================================================================
