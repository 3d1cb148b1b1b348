----------------------------- MODULE BooksProofs ------------------------------
(***************************************************************************)
(* What Books computes, for every value of its constants: the billing      *)
(* dates of subscriptions, the billing cycles of cards and what they bill, *)
(* the views of the books of a family, the partitions of the chat.         *)
(***************************************************************************)
EXTENDS Books, Lemmas, SequenceTheorems

-----------------------------------------------------------------------------
(* Billing dates.                                                          *)

\* What NextIsFirstBillingDay asks of the monthly schedules.
LEMMA MonthlyIsFirst ==
  ASSUME NEW s, HasSchedule(s), s.cycle = "MONTHLY", NEW ref, CalendarDay(ref)
  PROVE  NextIsFirstBillingDay(s, ref)
  <1> DEFINE y == ref.year   m == ref.month   c == Clamped(s, y, m)
             ny == NextMonth(ref).year   nm == NextMonth(ref).month
             nc == Clamped(s, ny, nm)
             t == Tomorrow(ref)
             n == LastDay(y, m)
  <1>1. ref \in Date /\ y \in Nat /\ y >= 1 /\ m \in 1 .. 12 /\ ref.day \in 1 .. 31 /\ ref.day <= n
        /\ n \in 28 .. 31
    BY DateFields, LastDays DEF CalendarDay
  <1>2. /\ ny \in Nat /\ ny >= 1 /\ nm \in 1 .. 12
        /\ ny > y \/ (ny = y /\ nm > m)
    <2>1. NextMonth(ref) \in Date
      BY <1>1, NextMonthIsDate
    <2>2. ny = (IF m = 12 THEN y + 1 ELSE y) /\ nm = (IF m = 12 THEN 1 ELSE m + 1)
      BY <1>1, NextMonthIsDate
    <2>3. ny \in Nat /\ ny >= 1 /\ nm \in 1 .. 12
      BY <2>1, DateFields
    <2>4. y \in Nat /\ m \in 1 .. 12
      BY <1>1
    <2> HIDE DEF y, m, ny, nm
    <2>5. CASE m = 12
      <3>1. ny = y + 1
        BY <2>2, <2>5
      <3> QED BY <2>3, <2>4, <3>1
    <2>6. CASE m # 12
      <3>1. ny = y /\ nm = m + 1
        BY <2>2, <2>6
      <3> QED BY <2>3, <2>4, <3>1
    <2> QED BY <2>5, <2>6
  <1>3. c \in 1 .. 31 /\ c <= n /\ nc \in 1 .. 31 /\ nc <= LastDay(ny, nm)
    BY <1>1, <1>2, InMonthIsDay
  <1>4. InMonth(s, y, m) = [year |-> y, month |-> m, day |-> c]
        /\ InMonth(s, ny, nm) = [year |-> ny, month |-> nm, day |-> nc]
    BY DEF InMonth
  <1>5. NotBefore(InMonth(s, y, m), ref) <=> c >= ref.day
    BY <1>1, <1>3, <1>4 DEF NotBefore
  <1>6. NextBillingDate(s, ref) = IF c >= ref.day THEN InMonth(s, y, m) ELSE InMonth(s, ny, nm)
    BY <1>5 DEF NextBillingDate, NextMonthly
  <1>7. IsBillingDay(s, ref) <=> ref.day = c
    BY DEF IsBillingDay
  <1>8. CASE ref.day = c
    <2>1. NextBillingDate(s, ref) = ref
      BY <1>1, <1>4, <1>6, <1>8, DateShape
    <2>2. NotBefore(ref, ref)
      BY <1>1 DEF NotBefore
    <2> QED BY <1>1, <1>7, <1>8, <2>1, <2>2 DEF NextIsFirstBillingDay
  <1>9. CASE c > ref.day
    <2>0. ref.day < n
      BY <1>1, <1>3, <1>9
    <2>1. t.year = y /\ t.month = m /\ t.day = ref.day + 1
      BY <2>0, TomorrowFields
    <2>2. NextBillingDate(s, t) = InMonth(s, y, m)
      <3>1. NotBefore(InMonth(s, y, m), t)
        BY <1>1, <1>3, <1>4, <1>9, <2>1 DEF NotBefore
      <3> QED BY <2>1, <3>1 DEF NextBillingDate, NextMonthly
    <2>3. NextBillingDate(s, ref) = InMonth(s, y, m) /\ NotBefore(InMonth(s, y, m), ref)
      BY <1>1, <1>3, <1>5, <1>6, <1>9
    <2>4. IsBillingDay(s, InMonth(s, y, m))
      BY <1>4 DEF IsBillingDay
    <2>5. ~IsBillingDay(s, ref)
      BY <1>1, <1>3, <1>7, <1>9
    <2>6. InMonth(s, y, m).day <= LastDay(InMonth(s, y, m).year, InMonth(s, y, m).month)
      BY <1>1, InMonthIsDay DEF CalendarDay
    <2> HIDE DEF y, m, c, n
    <2> QED BY <2>2, <2>3, <2>4, <2>5, <2>6 DEF NextIsFirstBillingDay, t
  <1>10. CASE c < ref.day
    <2> DEFINE next == InMonth(s, ny, nm)
    <2>1. NextBillingDate(s, ref) = next
      BY <1>1, <1>3, <1>6, <1>10
    <2>2. NotBefore(next, ref)
      BY <1>2, <1>4 DEF NotBefore
    <2>3. IsBillingDay(s, next)
      BY <1>4 DEF IsBillingDay
    <2>4. ~IsBillingDay(s, ref)
      BY <1>1, <1>3, <1>7, <1>10
    <2>5. next.day <= LastDay(next.year, next.month)
      BY <1>2, InMonthIsDay DEF CalendarDay
    <2>6. NextBillingDate(s, t) = next
      <3>1. CASE ref.day < n
        <4>1. t.year = y /\ t.month = m /\ t.day = ref.day + 1
          BY <3>1, TomorrowFields
        <4>2. ~NotBefore(InMonth(s, y, m), t)
          BY <1>1, <1>3, <1>4, <1>10, <4>1 DEF NotBefore
        <4>3. t \in Date
          BY TomorrowFields DEF CalendarDay
        <4>4. NextMonth(t).year = ny /\ NextMonth(t).month = nm
          BY <1>1, <4>1, <4>3, NextMonthIsDate
        <4> QED BY <4>1, <4>2, <4>4 DEF NextBillingDate, NextMonthly
      <3>2. CASE ref.day = n
        <4>1. t.year = ny /\ t.month = nm /\ t.day = 1
          BY <3>2, TomorrowFields
        <4>2. NotBefore(next, t)
          BY <1>2, <1>3, <1>4, <4>1 DEF NotBefore
        <4> QED BY <4>1, <4>2 DEF NextBillingDate, NextMonthly
      <3> QED BY <1>1, <3>1, <3>2
    <2> HIDE DEF next
    <2> QED BY <2>1, <2>2, <2>3, <2>4, <2>5, <2>6 DEF NextIsFirstBillingDay, t
  <1> QED BY <1>1, <1>3, <1>8, <1>9, <1>10

\* What NextIsFirstBillingDay asks of the yearly schedules.
LEMMA YearlyIsFirst ==
  ASSUME NEW s, HasSchedule(s), s.cycle = "YEARLY", NEW ref, CalendarDay(ref)
  PROVE  NextIsFirstBillingDay(s, ref)
  <1> DEFINE y == ref.year   m == s.start.month
             c == Clamped(s, y, m)   nc == Clamped(s, y + 1, m)
             t == Tomorrow(ref)
             n == LastDay(y, ref.month)
             this == InMonth(s, y, m)
             next == InMonth(s, y + 1, m)
  <1>1. ref \in Date /\ y \in Nat /\ y >= 1 /\ ref.month \in 1 .. 12 /\ ref.day \in 1 .. 31
        /\ ref.day <= n /\ n \in 28 .. 31 /\ m \in 1 .. 12
    <2>1. s.start \in Date
      BY DEF HasSchedule
    <2> QED BY <2>1, DateFields, LastDays DEF CalendarDay
  <1>2. c \in 1 .. 31 /\ c <= LastDay(y, m) /\ nc \in 1 .. 31 /\ nc <= LastDay(y + 1, m)
    BY <1>1, InMonthIsDay
  <1>3. this = [year |-> y, month |-> m, day |-> c]
        /\ next = [year |-> y + 1, month |-> m, day |-> nc]
    BY DEF InMonth
  <1>4. IsBillingDay(s, this) /\ IsBillingDay(s, next)
    BY <1>3 DEF IsBillingDay
  <1>5. this.day <= LastDay(this.year, this.month) /\ next.day <= LastDay(next.year, next.month)
    BY <1>2, <1>3
  <1>6. NotBefore(this, ref) <=> m > ref.month \/ (m = ref.month /\ c >= ref.day)
    BY <1>1, <1>2, <1>3 DEF NotBefore
  <1>7. NotBefore(next, ref)
    <2>1. next.year = y + 1
      BY <1>3
    <2>2. next.year > ref.year
      BY <1>1, <2>1
    <2> HIDE DEF next
    <2> QED BY <2>2 DEF NotBefore
  <1>8. NextBillingDate(s, ref) = IF NotBefore(this, ref) THEN this ELSE next
    BY DEF NextBillingDate, NextYearly
  <1>9. IsBillingDay(s, ref) <=> m = ref.month /\ ref.day = c
    <2>1. IsBillingDay(s, ref) <=> m = ref.month /\ ref.day = Clamped(s, y, ref.month)
      BY DEF IsBillingDay
    <2> QED BY <2>1
  <1>10. CASE m = ref.month /\ ref.day = c
    <2>1. this = ref
      BY <1>1, <1>3, <1>10, DateShape
    <2>2. NotBefore(ref, ref)
      BY <1>1 DEF NotBefore
    <2>3. NextBillingDate(s, ref) = ref
      BY <1>8, <2>1, <2>2
    <2> QED BY <1>1, <1>9, <1>10, <2>2, <2>3 DEF NextIsFirstBillingDay
  <1>11. CASE m > ref.month \/ (m = ref.month /\ c > ref.day)
    <2>1. NotBefore(this, ref)
      BY <1>1, <1>2, <1>6, <1>11
    <2>2. ~IsBillingDay(s, ref)
      BY <1>1, <1>2, <1>9, <1>11
    <2>3. NextBillingDate(s, t) = this
      <3>1. CASE ref.day < n
        <4>1. t.year = y /\ t.month = ref.month /\ t.day = ref.day + 1
          BY <3>1, TomorrowFields
        <4>2. NotBefore(this, t)
          BY <1>1, <1>2, <1>3, <1>11, <4>1 DEF NotBefore
        <4> QED BY <4>1, <4>2 DEF NextBillingDate, NextYearly
      <3>2. CASE ref.day = n
        <4>1. m > ref.month
          BY <1>1, <1>2, <1>11, <3>2
        <4>2. t.year = NextMonth(ref).year /\ t.month = NextMonth(ref).month /\ t.day = 1
          BY <3>2, TomorrowFields
        <4>3. t.year = y /\ t.month = ref.month + 1 /\ t.day = 1
          BY <1>1, <4>1, <4>2, NextMonthIsDate
        <4>4. NotBefore(this, t)
          BY <1>1, <1>2, <1>3, <4>1, <4>3 DEF NotBefore
        <4> QED BY <4>3, <4>4 DEF NextBillingDate, NextYearly
      <3> QED BY <1>1, <3>1, <3>2
    <2>4. NextBillingDate(s, ref) = this
      BY <1>8, <2>1
    <2> HIDE DEF this
    <2> QED BY <1>4, <1>5, <2>1, <2>2, <2>3, <2>4 DEF NextIsFirstBillingDay, t
  <1>12. CASE m < ref.month \/ (m = ref.month /\ c < ref.day)
    <2>1. ~NotBefore(this, ref)
      BY <1>1, <1>2, <1>6, <1>12
    <2>2. ~IsBillingDay(s, ref)
      BY <1>1, <1>2, <1>9, <1>12
    <2>3. NextBillingDate(s, ref) = next
      BY <1>8, <2>1
    <2>4. NextBillingDate(s, t) = next
      <3>1. CASE t.year = y
        <4>1. t.month >= ref.month /\ t.month \in Int /\ t.day \in Int
              /\ (t.month = ref.month => t.day = ref.day + 1)
          <5>1. t \in Date
            BY TomorrowFields DEF CalendarDay
          <5>2. t.month \in Int /\ t.day \in Int
            BY <5>1, DateFields
          <5>3. CASE ref.day < n
            BY <1>1, <5>2, <5>3, TomorrowFields
          <5>4. CASE ref.day = n
            <6>1. t.year = NextMonth(ref).year /\ t.month = NextMonth(ref).month
              BY <5>4, TomorrowFields
            <6>2. ref.month # 12
              <7>1. ref.month = 12 => t.year = y + 1
                BY <1>1, <6>1, NextMonthIsDate
              <7> HIDE DEF t
              <7> QED BY <1>1, <3>1, <7>1
            <6>3. t.month = ref.month + 1
              BY <1>1, <6>1, <6>2, NextMonthIsDate
            <6> HIDE DEF t
            <6> QED BY <1>1, <5>2, <6>3
          <5> QED BY <1>1, <5>3, <5>4
        <4>2. ~NotBefore(this, t)
          <5> HIDE DEF t
          <5> QED BY <1>1, <1>2, <1>3, <1>12, <3>1, <4>1 DEF NotBefore
        <4> QED BY <3>1, <4>2 DEF NextBillingDate, NextYearly
      <3>2. CASE t.year # y
        <4>1. ref.day = n
          BY <1>1, <3>2, TomorrowFields
        <4>2. t.year = NextMonth(ref).year /\ t.month = NextMonth(ref).month /\ t.day = 1
          BY <4>1, TomorrowFields
        <4>3. t.year = y + 1 /\ t.month = 1 /\ t.day = 1
          BY <1>1, <3>2, <4>2, NextMonthIsDate
        <4>4. NotBefore(next, t)
          BY <1>1, <1>2, <1>3, <4>3 DEF NotBefore
        <4> QED BY <4>3, <4>4 DEF NextBillingDate, NextYearly
      <3> QED BY <3>1, <3>2
    <2> HIDE DEF next
    <2> QED BY <1>4, <1>5, <1>7, <2>2, <2>3, <2>4 DEF NextIsFirstBillingDay, t
  <1>13. \/ (m = ref.month /\ ref.day = c)
         \/ m > ref.month \/ (m = ref.month /\ c > ref.day)
         \/ m < ref.month \/ (m = ref.month /\ c < ref.day)
    <2> HIDE DEF c, m
    <2> QED BY <1>1, <1>2
  <1> QED BY <1>10, <1>11, <1>12, <1>13

LEMMA WeekdayOfPlus ==
  ASSUME NEW d \in Date, NEW k \in 0 .. 28
  PROVE  Weekday(Plus(d, k)) = (Weekday(d) + k) % 7
  <1> DEFINE o == Ordinal(d)
  <1>1. o \in Nat
    BY OrdinalIsNatural
  <1>2. Ordinal(Plus(d, k)) = o + k
    BY OrdinalOfPlus
  <1> HIDE DEF o
  <1>3. (o + k + 6) % 7 = (((o + 6) % 7) + k) % 7
    BY <1>1
  <1> QED BY <1>2, <1>3 DEF Weekday, o

\* The days within a week of a calendar day are calendar days, not before it.
LEMMA PlusIsLater ==
  ASSUME NEW d, CalendarDay(d), NEW k \in 0 .. 6
  PROVE  CalendarDay(Plus(d, k)) /\ NotBefore(Plus(d, k), d)
  <1> DEFINE n == LastDay(d.year, d.month)
             e == Plus(d, k)
  <1>1. /\ d \in Date /\ d.day <= n /\ n \in 28 .. 31
        /\ d.year \in Int /\ d.month \in Int /\ d.day \in Int
    BY DateFields, LastDays DEF CalendarDay
  <1>2. e \in Date
    BY <1>1, PlusIsDate
  <1>3. CASE d.day + k <= n
    <2>1. e.year = d.year /\ e.month = d.month /\ e.day = d.day + k
      BY <1>1, <1>3, PlusFields
    <2>2. LastDay(e.year, e.month) = n
      BY <2>1
    <2> HIDE DEF e, n
    <2> QED BY <1>1, <1>2, <1>3, <2>1, <2>2 DEF CalendarDay, NotBefore, e
  <1>4. CASE ~(d.day + k <= n)
    <2>1. e.year = NextMonth(d).year /\ e.month = NextMonth(d).month /\ e.day = d.day + k - n
      BY <1>1, <1>4, PlusFields
    <2>2. LastDay(e.year, e.month) \in 28 .. 31
      BY <1>2, DateFields, LastDays
    <2>3. CASE d.month = 12
      <3>1. e.year = d.year + 1
        BY <1>1, <2>1, <2>3, NextMonthIsDate
      <3> HIDE DEF e, n
      <3> QED BY <1>1, <1>2, <2>1, <2>2, <3>1 DEF CalendarDay, NotBefore, e
    <2>4. CASE d.month # 12
      <3>1. e.year = d.year /\ e.month = d.month + 1
        BY <1>1, <2>1, <2>4, NextMonthIsDate
      <3> HIDE DEF e, n
      <3> QED BY <1>1, <1>2, <2>1, <2>2, <3>1 DEF CalendarDay, NotBefore, e
    <2> QED BY <2>3, <2>4
  <1> QED BY <1>3, <1>4

LEMMA PlusAfterTomorrow ==
  ASSUME NEW d, CalendarDay(d), NEW k \in 0 .. 6
  PROVE  Plus(Tomorrow(d), k) = Plus(d, k + 1)
  <1> DEFINE n == LastDay(d.year, d.month)
             t == Tomorrow(d)
             j == k + 1
  <1>1. d \in Date /\ d.day <= n /\ n \in 28 .. 31 /\ d.day \in 1 .. 31 /\ j \in 0 .. 28
    BY DateFields, LastDays DEF CalendarDay
  <1>2. t \in Date /\ k \in 0 .. 28
    BY TomorrowFields DEF CalendarDay
  <1>3. CASE d.day < n
    <2>1. t.year = d.year /\ t.month = d.month /\ t.day = d.day + 1 /\ LastDay(t.year, t.month) = n
      BY <1>3, TomorrowFields
    <2>2. t.day + k = d.day + j
      BY <1>1, <2>1
    <2>3. NextMonth(t).year = NextMonth(d).year /\ NextMonth(t).month = NextMonth(d).month
      BY <1>1, <1>2, <2>1, NextMonthIsDate
    <2>4. CASE d.day + j <= n
      <3>1. Plus(t, k) = [year |-> t.year, month |-> t.month, day |-> t.day + k]
        BY <1>2, <2>1, <2>2, <2>4, PlusFields
      <3>2. Plus(d, j) = [year |-> d.year, month |-> d.month, day |-> d.day + j]
        BY <1>1, <2>4, PlusFields
      <3> QED BY <2>1, <2>2, <3>1, <3>2
    <2>5. CASE ~(d.day + j <= n)
      <3>1. Plus(t, k) = [year |-> NextMonth(t).year, month |-> NextMonth(t).month,
                          day |-> t.day + k - n]
        BY <1>2, <2>1, <2>2, <2>5, PlusFields
      <3>2. Plus(d, j) = [year |-> NextMonth(d).year, month |-> NextMonth(d).month,
                          day |-> d.day + j - n]
        BY <1>1, <2>5, PlusFields
      <3>3. t.day + k - n = d.day + j - n
        <4> HIDE DEF t, j, n
        <4> QED BY <1>1, <2>1, <2>2
      <3> QED BY <2>3, <3>1, <3>2, <3>3
    <2> QED BY <2>4, <2>5
  <1>4. CASE d.day = n
    <2>1. t.year = NextMonth(d).year /\ t.month = NextMonth(d).month /\ t.day = 1
      BY <1>4, TomorrowFields
    <2>2. LastDay(t.year, t.month) \in 28 .. 31
      BY <1>2, DateFields, LastDays
    <2>3. t.day + k <= LastDay(t.year, t.month)
      BY <2>1, <2>2
    <2>4. Plus(t, k) = [year |-> t.year, month |-> t.month, day |-> t.day + k]
      BY <1>2, <2>3, PlusFields
    <2>5. ~(d.day + j <= n) /\ d.day + j - n = t.day + k
      BY <1>1, <1>4, <2>1
    <2>6. Plus(d, j) = [year |-> NextMonth(d).year, month |-> NextMonth(d).month,
                        day |-> d.day + j - n]
      BY <1>1, <2>5, PlusFields
    <2> QED BY <2>1, <2>4, <2>5, <2>6
  <1> QED BY <1>1, <1>3, <1>4

LEMMA PlusNothing ==
  ASSUME NEW d, CalendarDay(d)
  PROVE  Plus(d, 0) = d
  <1>1. d \in Date /\ d.day \in Int /\ d.day + 0 <= LastDay(d.year, d.month) /\ d.day + 0 = d.day
    BY DateFields DEF CalendarDay
  <1>2. Plus(d, 0) = [year |-> d.year, month |-> d.month, day |-> d.day + 0]
    BY <1>1, PlusFields
  <1> QED BY <1>1, <1>2, DateShape

\* What NextIsFirstBillingDay asks of the weekly schedules.
LEMMA WeeklyIsFirst ==
  ASSUME NEW s, HasSchedule(s), s.cycle = "WEEKLY", NEW ref, CalendarDay(ref)
  PROVE  NextIsFirstBillingDay(s, ref)
  <1> DEFINE v == Weekday(s.start)
             w == Weekday(ref)
             t == Tomorrow(ref)
             Until(x) == IF v - x < 0 THEN v - x + 7 ELSE v - x
             next == NextBillingDate(s, ref)
  <1>1. ref \in Date /\ v \in 0 .. 6 /\ w \in 0 .. 6
    <2>1. s.start \in Date
      BY DEF HasSchedule
    <2> QED BY <2>1, Weekdays DEF CalendarDay
  <1>2. CalendarDay(t) /\ t \in Date
    BY TomorrowFields DEF CalendarDay
  <1>3. Weekday(t) = (w + 1) % 7
    BY <1>1, WeekdayOfPlus DEF Tomorrow
  <1>4. next = Plus(ref, Until(w)) /\ NextBillingDate(s, t) = Plus(t, Until(Weekday(t)))
    BY DEF NextBillingDate, NextWeekly
  <1>5. Until(w) \in 0 .. 6 /\ (w + Until(w)) % 7 = v /\ (Until(w) = 0 <=> v = w)
        /\ (v # w => Until((w + 1) % 7) = Until(w) - 1)
    <2> HIDE DEF v, w
    <2> QED BY <1>1
  <1>6. CalendarDay(next) /\ NotBefore(next, ref)
    BY <1>4, <1>5, PlusIsLater
  <1>7. Weekday(next) = v
    <2>1. Until(w) \in 0 .. 28
      BY <1>5
    <2>2. Weekday(next) = (w + Until(w)) % 7
      BY <1>1, <1>4, <2>1, WeekdayOfPlus
    <2> QED BY <1>5, <2>2
  <1>8. IsBillingDay(s, next) /\ (IsBillingDay(s, ref) <=> v = w)
    BY <1>7 DEF IsBillingDay
  <1>9. v = w => next = ref
    BY <1>4, <1>5, PlusNothing
  <1>10. v # w => next = NextBillingDate(s, t)
    <2> SUFFICES ASSUME v # w PROVE next = NextBillingDate(s, t)
      OBVIOUS
    <2> DEFINE k == Until(w) - 1
    <2>1. k \in 0 .. 6 /\ k + 1 = Until(w)
      <3> HIDE DEF v, w
      <3>1. Until(w) # 0 /\ Until(w) \in 0 .. 6
        BY <1>5
      <3> HIDE DEF Until
      <3> QED BY <3>1
    <2>2. NextBillingDate(s, t) = Plus(t, k)
      BY <1>3, <1>4, <1>5
    <2>3. Plus(t, k) = Plus(ref, k + 1)
      BY <2>1, PlusAfterTomorrow
    <2> QED BY <1>4, <2>1, <2>2, <2>3
  <1> HIDE DEF next, v, w
  <1> QED BY <1>6, <1>8, <1>9, <1>10 DEF NextIsFirstBillingDay, CalendarDay, next, t

\* The next billing date that the detail view and the notices compute is the first date,
\* from the day itself on, that the batch recognises as a billing day: for every schedule
\* and on every day of the calendar (_is_billing_day, _calculate_next_billing_date).
THEOREM NextIsFirst ==
  ASSUME NEW s, HasSchedule(s), NEW ref, CalendarDay(ref)
  PROVE  NextIsFirstBillingDay(s, ref)
  <1>1. s.cycle \in {"MONTHLY", "YEARLY", "WEEKLY"}
    BY DEF HasSchedule
  <1> QED BY <1>1, MonthlyIsFirst, YearlyIsFirst, WeeklyIsFirst

-----------------------------------------------------------------------------
(* Months, counted from the first: dates are ordered by month and day.     *)

MonthNo(d) == 12 * d.year + d.month

Length(d) == LastDay(d.year, d.month)

LEMMA DayFields ==
  ASSUME NEW d, CalendarDay(d)
  PROVE  /\ d \in Date /\ d.year \in Nat /\ d.year >= 1 /\ d.month \in 1 .. 12
         /\ d.day \in 1 .. 31 /\ d.day <= Length(d) /\ Length(d) \in 28 .. 31
         /\ MonthNo(d) \in Nat
  <1>1. d \in Date /\ d.day <= Length(d)
    BY DEF CalendarDay, Length
  <1>2. d.year \in Nat /\ d.year >= 1 /\ d.month \in 1 .. 12 /\ d.day \in 1 .. 31
    BY <1>1, DateFields
  <1>3. Length(d) \in 28 .. 31
    BY <1>2, LastDays DEF Length
  <1> QED BY <1>1, <1>2, <1>3 DEF MonthNo

LEMMA MonthNoFields ==
  ASSUME NEW d \in Date, NEW e \in Date
  PROVE  /\ MonthNo(d) \in Nat /\ d.day \in 1 .. 31
         /\ MonthNo(d) = MonthNo(e) <=> d.year = e.year /\ d.month = e.month
         /\ MonthNo(d) > MonthNo(e) <=>
               d.year > e.year \/ (d.year = e.year /\ d.month > e.month)
  <1> DEFINE y == d.year   m == d.month   z == e.year   n == e.month
  <1>1. y \in Nat /\ m \in 1 .. 12 /\ d.day \in 1 .. 31 /\ z \in Nat /\ n \in 1 .. 12
    BY DateFields
  <1>2. MonthNo(d) = 12 * y + m /\ MonthNo(e) = 12 * z + n
    BY DEF MonthNo
  <1> HIDE DEF y, m, z, n
  <1>3. 12 * y + m = 12 * z + n <=> y = z /\ m = n
    BY <1>1
  <1>4. 12 * y + m > 12 * z + n <=> y > z \/ (y = z /\ m > n)
    BY <1>1
  <1>5. MonthNo(d) \in Nat
    BY <1>1, <1>2
  <1> QED BY <1>1, <1>2, <1>3, <1>4, <1>5 DEF y, m, z, n

LEMMA SameMonth ==
  ASSUME NEW d \in Date, NEW e \in Date, MonthNo(d) = MonthNo(e)
  PROVE  /\ Length(d) = Length(e)
         /\ \A x : ClampDay(x, d) = ClampDay(x, e)
  BY MonthNoFields DEF Length, ClampDay

LEMMA SameDate ==
  ASSUME NEW d \in Date, NEW e \in Date, MonthNo(d) = MonthNo(e), d.day = e.day
  PROVE  d = e
  <1>1. d.year = e.year /\ d.month = e.month
    BY MonthNoFields
  <1>2. /\ d = [year |-> d.year, month |-> d.month, day |-> d.day]
        /\ e = [year |-> e.year, month |-> e.month, day |-> e.day]
    BY DateShape
  <1> QED BY <1>1, <1>2

\* The order of dates.
LEMMA InOrder ==
  ASSUME NEW d \in Date, NEW e \in Date
  PROVE  NotBefore(d, e) <=>
            MonthNo(d) > MonthNo(e) \/ (MonthNo(d) = MonthNo(e) /\ d.day >= e.day)
  <1>1. d.day \in Nat /\ e.day \in Nat
    BY DateFields
  <1> QED BY <1>1, MonthNoFields DEF NotBefore

LEMMA OrderIsTotal ==
  ASSUME NEW d \in Date, NEW e \in Date
  PROVE  /\ NotBefore(d, d)
         /\ NotBefore(d, e) \/ NotBefore(e, d)
         /\ NotBefore(d, e) /\ NotBefore(e, d) => d = e
  <1>1. /\ MonthNo(d) \in Nat /\ MonthNo(e) \in Nat /\ d.day \in Nat /\ e.day \in Nat
        /\ MonthNo(d) = MonthNo(e) /\ d.day = e.day => d = e
    BY MonthNoFields, SameDate
  <1> QED BY <1>1, InOrder

LEMMA OrderIsTransitive ==
  ASSUME NEW d \in Date, NEW e \in Date, NEW f \in Date, NotBefore(d, e), NotBefore(e, f)
  PROVE  NotBefore(d, f)
  <1>1. /\ MonthNo(d) \in Nat /\ MonthNo(e) \in Nat /\ MonthNo(f) \in Nat
        /\ d.day \in Nat /\ e.day \in Nat /\ f.day \in Nat
    BY MonthNoFields
  <1> QED BY <1>1, InOrder

LEMMA NextMonthNo ==
  ASSUME NEW d \in Date
  PROVE  NextMonth(d) \in Date /\ NextMonth(d).day = 1 /\ MonthNo(NextMonth(d)) = MonthNo(d) + 1
  <1>1. d.year \in Nat /\ d.month \in 1 .. 12
    BY DateFields
  <1>2. CASE d.month = 12
    BY <1>1, <1>2, NextMonthIsDate DEF MonthNo
  <1>3. CASE d.month # 12
    BY <1>1, <1>3, NextMonthIsDate DEF MonthNo
  <1> QED BY <1>2, <1>3

LEMMA PreviousMonthNo ==
  ASSUME NEW d \in Date, d.year > 1
  PROVE  PreviousMonth(d) \in Date /\ MonthNo(PreviousMonth(d)) = MonthNo(d) - 1
  <1> DEFINE e == PreviousMonth(d)
  <1>1. d.year \in Nat /\ d.month \in 1 .. 12 /\ MonthNo(d) = 12 * d.year + d.month
    BY DateFields DEF MonthNo
  <1>2. CASE d.month = 1
    <2>1. e = [year |-> d.year - 1, month |-> 12, day |-> 1]
      BY <1>2 DEF PreviousMonth
    <2>2. e.year = d.year - 1 /\ e.month = 12 /\ e \in Date
      <3>1. e.year = d.year - 1 /\ e.month = 12
        BY <2>1
      <3>2. d.year - 1 \in Nat /\ d.year - 1 >= 1
        BY <1>1
      <3>3. [year |-> d.year - 1, month |-> 12, day |-> 1] \in Date
        BY <3>2 DEF Date
      <3> QED BY <2>1, <3>1, <3>3
    <2> HIDE DEF e
    <2>3. MonthNo(e) = 12 * (d.year - 1) + 12
      BY <2>2 DEF MonthNo
    <2> QED BY <1>1, <1>2, <2>2, <2>3 DEF e
  <1>3. CASE d.month # 1
    <2>1. e = [d EXCEPT !.month = d.month - 1, !.day = 1]
      BY <1>3 DEF PreviousMonth
    <2>2. e = [year |-> d.year, month |-> d.month - 1, day |-> 1]
      BY <2>1, Redated
    <2>3. e.year = d.year /\ e.month = d.month - 1 /\ e \in Date
      <3>1. e.year = d.year /\ e.month = d.month - 1
        BY <2>2
      <3>2. d.month - 1 \in 1 .. 12 /\ d.year >= 1
        BY <1>1, <1>3
      <3>3. [year |-> d.year, month |-> d.month - 1, day |-> 1] \in Date
        BY <1>1, <3>2 DEF Date
      <3> QED BY <2>2, <3>1, <3>3
    <2> HIDE DEF e
    <2>4. MonthNo(e) = 12 * d.year + (d.month - 1)
      BY <2>3 DEF MonthNo
    <2> QED BY <1>1, <2>3, <2>4 DEF e
  <1> QED BY <1>2, <1>3

LEMMA TomorrowIsNext ==
  ASSUME NEW d, CalendarDay(d)
  PROVE  /\ CalendarDay(Tomorrow(d))
         /\ d.day < Length(d) => MonthNo(Tomorrow(d)) = MonthNo(d) /\ Tomorrow(d).day = d.day + 1
         /\ d.day = Length(d) => MonthNo(Tomorrow(d)) = MonthNo(d) + 1 /\ Tomorrow(d).day = 1
  <1>1. MonthNo(NextMonth(d)) = MonthNo(d) + 1
    BY NextMonthNo DEF CalendarDay
  <1> QED BY <1>1, TomorrowFields DEF MonthNo, Length

\* Nothing lies between a date and its tomorrow.
LEMMA NothingBetween ==
  ASSUME NEW d, CalendarDay(d), NEW e, CalendarDay(e)
  PROVE  /\ NotBefore(e, Tomorrow(d)) <=> ~NotBefore(d, e)
         /\ NotBefore(Tomorrow(d), d) /\ ~NotBefore(d, Tomorrow(d)) /\ Tomorrow(d) # d
  <1> DEFINE t == Tomorrow(d)
  <1>1. /\ d \in Date /\ d.day \in 1 .. 31 /\ d.day <= Length(d) /\ Length(d) \in 28 .. 31
        /\ e \in Date /\ e.day \in 1 .. 31 /\ e.day <= Length(e)
        /\ MonthNo(d) \in Nat /\ MonthNo(e) \in Nat
    BY DayFields
  <1>2. /\ t \in Date /\ t.day \in 1 .. 31
        /\ d.day < Length(d) => MonthNo(t) = MonthNo(d) /\ t.day = d.day + 1
        /\ d.day = Length(d) => MonthNo(t) = MonthNo(d) + 1 /\ t.day = 1
    BY TomorrowIsNext, DayFields
  <1>3. MonthNo(d) = MonthNo(e) => Length(d) = Length(e)
    BY <1>1, SameMonth
  <1> HIDE DEF t
  <1>4. NotBefore(e, t) <=> MonthNo(e) > MonthNo(t) \/ (MonthNo(e) = MonthNo(t) /\ e.day >= t.day)
    BY <1>1, <1>2, InOrder
  <1>5. NotBefore(d, e) <=> MonthNo(d) > MonthNo(e) \/ (MonthNo(d) = MonthNo(e) /\ d.day >= e.day)
    BY <1>1, InOrder
  <1>6. NotBefore(e, t) <=> ~NotBefore(d, e)
    BY <1>1, <1>2, <1>3, <1>4, <1>5
  <1>7. NotBefore(t, d) /\ ~NotBefore(d, t)
    BY <1>1, <1>2, InOrder
  <1> QED BY <1>6, <1>7 DEF t

LEMMA TodayAfterYesterday ==
  ASSUME NEW d, CalendarDay(d), d.year > 1
  PROVE  CalendarDay(Yesterday(d)) /\ Tomorrow(Yesterday(d)) = d
  <1> DEFINE e == Yesterday(d)
  <1>1. d \in Date /\ d.year \in Nat /\ d.month \in 1 .. 12 /\ d.day \in 1 .. 31 /\ d.day <= Length(d)
    BY DayFields
  <1>2. e \in Date
    BY <1>1, YesterdayIsDate
  <1>3. CASE d.day > 1
    <2>1. e = [d EXCEPT !.day = d.day - 1]
      BY <1>3 DEF Yesterday
    <2>2. e = [year |-> d.year, month |-> d.month, day |-> d.day - 1]
      BY <1>1, <2>1, OtherDay
    <2>3. e.year = d.year /\ e.month = d.month /\ e.day = d.day - 1
      BY <2>2
    <2> HIDE DEF e
    <2>4. MonthNo(e) = MonthNo(d) /\ Length(e) = Length(d)
      BY <2>3 DEF MonthNo, Length
    <2>5. CalendarDay(e) /\ e.day < Length(e)
      BY <1>1, <1>2, <2>3, <2>4, DayFields DEF CalendarDay, Length
    <2>6. MonthNo(Tomorrow(e)) = MonthNo(d) /\ Tomorrow(e).day = d.day /\ Tomorrow(e) \in Date
      BY <1>1, <2>3, <2>4, <2>5, TomorrowIsNext, DayFields
    <2> QED BY <1>1, <2>5, <2>6, SameDate DEF e
  <1>4. CASE d.day = 1
    <2>1. MonthNo(d) = MonthNo(e) + 1 /\ e.day = Length(e)
      <3>1. CASE d.month > 1
        <4> DEFINE x == LastDay(d.year, d.month - 1)
        <4>1. e = [d EXCEPT !.month = d.month - 1, !.day = x]
          BY <1>4, <3>1 DEF Yesterday
        <4> HIDE DEF x
        <4>2. e = [year |-> d.year, month |-> d.month - 1, day |-> x]
          BY <1>1, <4>1, Redated
        <4>3. e.year = d.year /\ e.month = d.month - 1 /\ e.day = x
          BY <4>2
        <4> HIDE DEF e
        <4> QED BY <1>1, <4>3 DEF MonthNo, Length, x
      <3>2. CASE d.month = 1
        <4>1. e = [year |-> d.year - 1, month |-> 12, day |-> 31]
          BY <1>4, <3>2 DEF Yesterday
        <4>2. e.year = d.year - 1 /\ e.month = 12 /\ e.day = 31
          BY <4>1
        <4> HIDE DEF e
        <4>3. Length(e) = 31
          BY <4>2 DEF Length, LastDay
        <4> QED BY <1>1, <3>2, <4>2, <4>3 DEF MonthNo
      <3> QED BY <1>1, <3>1, <3>2
    <2> HIDE DEF e
    <2>2. CalendarDay(e)
      <3>1. e.day \in Nat
        BY <1>2, DateFields
      <3> QED BY <1>2, <2>1, <3>1 DEF CalendarDay, Length
    <2>3. MonthNo(Tomorrow(e)) = MonthNo(d) /\ Tomorrow(e).day = d.day /\ Tomorrow(e) \in Date
      BY <1>4, <2>1, <2>2, TomorrowIsNext, DayFields
    <2> QED BY <1>1, <2>2, <2>3, SameDate DEF e
  <1> QED BY <1>1, <1>3, <1>4

-----------------------------------------------------------------------------
(* Billing cycles.                                                         *)

\* The day a setting names, or the last of a month that does not have it.
LEMMA Clamping ==
  ASSUME NEW x \in 1 .. 31, NEW d \in Date
  PROVE  /\ CalendarDay(ClampDay(x, d))
         /\ MonthNo(ClampDay(x, d)) = MonthNo(d) /\ Length(ClampDay(x, d)) = Length(d)
         /\ ClampDay(x, d).day = IF x > Length(d) THEN Length(d) ELSE x
         /\ Length(d) \in 28 .. 31
  <1> DEFINE e == ClampDay(x, d)
             y == IF x > Length(d) THEN Length(d) ELSE x
  <1>1. d.year \in Nat /\ d.year >= 1 /\ d.month \in 1 .. 12 /\ Length(d) \in 28 .. 31
    BY DateFields, LastDays DEF Length
  <1>2. e = [year |-> d.year, month |-> d.month, day |-> y]
    BY DEF ClampDay, InMonth, Clamped, Length
  <1>3. y \in 1 .. 31 /\ y <= Length(d)
    BY <1>1
  <1> HIDE DEF y
  <1>4. e \in Date /\ e.year = d.year /\ e.month = d.month /\ e.day = y
    BY <1>1, <1>2, <1>3 DEF Date
  <1> HIDE DEF e
  <1> QED BY <1>1, <1>3, <1>4 DEF CalendarDay, MonthNo, Length, e, y

\* A payment day: a date that clamping leaves alone.
OnDay(x, d) == d = ClampDay(x, d)

LEMMA DueInMonth ==
  ASSUME NEW x \in 1 .. 31, NEW d \in Date, NEW e \in Date
  PROVE  /\ OnDay(x, ClampDay(x, d))
         /\ OnDay(x, e) /\ MonthNo(e) = MonthNo(d) => e = ClampDay(x, d)
  <1>1. ClampDay(x, d) \in Date /\ MonthNo(ClampDay(x, d)) = MonthNo(d)
    BY Clamping DEF CalendarDay
  <1> QED BY <1>1, SameMonth DEF OnDay

\* Of the payment days from a month on, that of the month is the first, and that of the
\* next month the second.
LEMMA DueFrom ==
  ASSUME NEW x \in 1 .. 31, NEW d \in Date, NEW e \in Date, OnDay(x, e), MonthNo(e) >= MonthNo(d)
  PROVE  LET this == ClampDay(x, d)
             next == ClampDay(x, NextMonth(d))
         IN  /\ NotBefore(e, this)
             /\ e # this => NotBefore(e, next)
  <1> DEFINE this == ClampDay(x, d)
             next == ClampDay(x, NextMonth(d))
  <1>1. NextMonth(d) \in Date /\ MonthNo(NextMonth(d)) = MonthNo(d) + 1
    BY NextMonthNo
  <1>2. /\ this \in Date /\ MonthNo(this) = MonthNo(d)
        /\ next \in Date /\ MonthNo(next) = MonthNo(d) + 1
    BY <1>1, Clamping DEF CalendarDay
  <1>3. MonthNo(d) \in Nat /\ MonthNo(e) \in Nat
    BY MonthNoFields
  <1>4. MonthNo(e) = MonthNo(d) => e = this
    BY DueInMonth
  <1>5. MonthNo(e) = MonthNo(d) + 1 => e = next
    BY <1>1, DueInMonth
  <1> HIDE DEF this, next
  <1>6. MonthNo(e) > MonthNo(d) => NotBefore(e, this)
    BY <1>2, InOrder
  <1>7. MonthNo(e) > MonthNo(d) + 1 => NotBefore(e, next)
    BY <1>2, InOrder
  <1>8. NotBefore(this, this) /\ NotBefore(next, next)
    BY <1>2, OrderIsTotal
  <1> QED BY <1>3, <1>4, <1>5, <1>6, <1>7, <1>8 DEF this, next

\* The cycle is paid on the first payment day from its end on.
LEMMA PaymentIsFirst ==
  ASSUME NEW c \in Setting, NEW d, CalendarDay(d)
  PROVE  /\ CalendarDay(PaymentDate(c, d))
         /\ NotBefore(PaymentDate(c, d), d)
         /\ OnDay(c.payment, PaymentDate(c, d))
         /\ \A e \in Date : OnDay(c.payment, e) /\ NotBefore(e, d) => NotBefore(e, PaymentDate(c, d))
  <1> DEFINE this == ClampDay(c.payment, d)
             after == NextMonth(d)
             next == ClampDay(c.payment, after)
  <1>0. c.payment \in 1 .. 31 /\ d \in Date
    BY DayFields DEF Setting
  <1>1. after \in Date /\ MonthNo(after) = MonthNo(d) + 1 /\ MonthNo(d) \in Nat /\ d.day \in Nat
    BY <1>0, NextMonthNo, DayFields
  <1>2. CalendarDay(this) /\ this \in Date /\ MonthNo(this) = MonthNo(d) /\ OnDay(c.payment, this)
    BY <1>0, Clamping, DueInMonth, DayFields
  <1>3. CalendarDay(next) /\ next \in Date /\ MonthNo(next) = MonthNo(d) + 1 /\ OnDay(c.payment, next)
    BY <1>0, <1>1, Clamping, DueInMonth, DayFields
  <1>4. ASSUME NEW e \in Date, OnDay(c.payment, e), NotBefore(e, d)
        PROVE  NotBefore(e, this) /\ (e # this => NotBefore(e, next))
    <2>1. MonthNo(e) >= MonthNo(d)
      BY <1>0, <1>1, <1>4, InOrder, MonthNoFields
    <2> QED BY <1>0, <1>4, <2>1, DueFrom
  <1> HIDE DEF this, next, after
  <1>5. CASE NotBefore(this, d)
    <2>1. PaymentDate(c, d) = this
      BY <1>5 DEF PaymentDate, this
    <2>2. \A e \in Date : OnDay(c.payment, e) /\ NotBefore(e, d) => NotBefore(e, this)
      BY <1>4
    <2> QED BY <1>2, <1>5, <2>1, <2>2
  <1>6. CASE ~NotBefore(this, d)
    <2>1. PaymentDate(c, d) = next
      BY <1>6 DEF PaymentDate, this, next, after
    <2>2. NotBefore(next, d)
      BY <1>0, <1>1, <1>3, InOrder
    <2>3. \A e \in Date : OnDay(c.payment, e) /\ NotBefore(e, d) => NotBefore(e, next)
      BY <1>4, <1>6
    <2> QED BY <1>3, <2>1, <2>2, <2>3
  <1> QED BY <1>5, <1>6

\* The next payment is on the first payment day after the date.
LEMMA NextPaymentIsFirst ==
  ASSUME NEW c \in Setting, NEW d, CalendarDay(d)
  PROVE  /\ CalendarDay(NextPaymentDate(c, d))
         /\ ~NotBefore(d, NextPaymentDate(c, d))
         /\ OnDay(c.payment, NextPaymentDate(c, d))
         /\ \A e \in Date : OnDay(c.payment, e) /\ ~NotBefore(d, e) =>
               NotBefore(e, NextPaymentDate(c, d))
  <1> DEFINE this == ClampDay(c.payment, d)
             after == NextMonth(d)
             next == ClampDay(c.payment, after)
  <1>0. c.payment \in 1 .. 31 /\ d \in Date
    BY DayFields DEF Setting
  <1>1. after \in Date /\ MonthNo(after) = MonthNo(d) + 1 /\ MonthNo(d) \in Nat /\ d.day \in Nat
    BY <1>0, NextMonthNo, DayFields
  <1>2. CalendarDay(this) /\ this \in Date /\ MonthNo(this) = MonthNo(d) /\ OnDay(c.payment, this)
    BY <1>0, Clamping, DueInMonth, DayFields
  <1>3. CalendarDay(next) /\ next \in Date /\ MonthNo(next) = MonthNo(d) + 1 /\ OnDay(c.payment, next)
    BY <1>0, <1>1, Clamping, DueInMonth, DayFields
  <1>4. ASSUME NEW e \in Date, OnDay(c.payment, e), ~NotBefore(d, e)
        PROVE  NotBefore(e, this) /\ (e # this => NotBefore(e, next))
    <2>1. MonthNo(e) >= MonthNo(d)
      BY <1>0, <1>1, <1>4, InOrder, MonthNoFields
    <2> QED BY <1>0, <1>4, <2>1, DueFrom
  <1> HIDE DEF this, next, after
  <1>5. CASE ~NotBefore(d, this)
    <2>1. NextPaymentDate(c, d) = this
      BY <1>5 DEF NextPaymentDate, this
    <2>2. \A e \in Date : OnDay(c.payment, e) /\ ~NotBefore(d, e) => NotBefore(e, this)
      BY <1>4
    <2> QED BY <1>2, <1>5, <2>1, <2>2
  <1>6. CASE NotBefore(d, this)
    <2>1. NextPaymentDate(c, d) = next
      BY <1>6 DEF NextPaymentDate, this, next, after
    <2>2. ~NotBefore(d, next)
      BY <1>0, <1>1, <1>3, InOrder
    <2>3. \A e \in Date : OnDay(c.payment, e) /\ ~NotBefore(d, e) => NotBefore(e, next)
      BY <1>4, <1>6
    <2> QED BY <1>3, <2>1, <2>2, <2>3
  <1> QED BY <1>5, <1>6

\* The cycle that starts in the month of f, and the first day of the one after it.
NextStart(c, f) == ClampDay(c.start, NextMonth(f))

CycleFrom(c, f) == [start |-> ClampDay(c.start, f), end |-> Yesterday(NextStart(c, f))]

\* d lies in the cycle that starts in the month of f.
LiesIn(c, d, f) == NotBefore(d, ClampDay(c.start, f)) /\ ~NotBefore(d, NextStart(c, f))

LEMMA Starts ==
  ASSUME NEW c \in Setting, NEW f \in Date
  PROVE  /\ CalendarDay(ClampDay(c.start, f)) /\ MonthNo(ClampDay(c.start, f)) = MonthNo(f)
         /\ CalendarDay(NextStart(c, f)) /\ MonthNo(NextStart(c, f)) = MonthNo(f) + 1
         /\ NextMonth(f) \in Date /\ MonthNo(NextMonth(f)) = MonthNo(f) + 1
         /\ ClampDay(c.start, f) \in Date /\ NextStart(c, f) \in Date /\ MonthNo(f) \in Nat
  <1>1. c.start \in 1 .. 31
    BY DEF Setting
  <1>2. NextMonth(f) \in Date /\ MonthNo(NextMonth(f)) = MonthNo(f) + 1 /\ MonthNo(f) \in Nat
    BY NextMonthNo, MonthNoFields
  <1>3. CalendarDay(ClampDay(c.start, f)) /\ MonthNo(ClampDay(c.start, f)) = MonthNo(f)
    BY <1>1, Clamping
  <1>4. CalendarDay(NextStart(c, f)) /\ MonthNo(NextStart(c, f)) = MonthNo(f) + 1
    BY <1>1, <1>2, Clamping DEF NextStart
  <1> QED BY <1>2, <1>3, <1>4 DEF CalendarDay

\* A date is shown the cycle it lies in.
LEMMA CycleIsWhereItLies ==
  ASSUME NEW c \in Setting, NEW d, CalendarDay(d), d.year > 1, NEW f \in Date, LiesIn(c, d, f)
  PROVE  CycleOf(c, d) = CycleFrom(c, f)
  <1> DEFINE this == ClampDay(c.start, d)
             p == PreviousMonth(d)
  <1>0. d \in Date /\ MonthNo(d) \in Nat /\ d.day \in Nat
    BY DayFields
  <1>1. /\ ClampDay(c.start, f) \in Date /\ MonthNo(ClampDay(c.start, f)) = MonthNo(f)
        /\ NextStart(c, f) \in Date /\ MonthNo(NextStart(c, f)) = MonthNo(f) + 1
        /\ NextMonth(f) \in Date /\ MonthNo(NextMonth(f)) = MonthNo(f) + 1 /\ MonthNo(f) \in Nat
    BY Starts
  <1>2. p \in Date /\ MonthNo(p) = MonthNo(d) - 1
    BY <1>0, PreviousMonthNo
  <1>3. MonthNo(d) = MonthNo(f) \/ MonthNo(d) = MonthNo(f) + 1
    <2>1. MonthNo(d) >= MonthNo(f)
      BY <1>0, <1>1, InOrder DEF LiesIn
    <2>2. MonthNo(d) <= MonthNo(f) + 1
      BY <1>0, <1>1, InOrder DEF LiesIn
    <2> QED BY <1>0, <1>1, <2>1, <2>2
  <1>4. CASE MonthNo(d) = MonthNo(f)
    <2>1. this = ClampDay(c.start, f)
      BY <1>0, <1>4, SameMonth
    <2>2. NotBefore(d, this)
      BY <2>1 DEF LiesIn
    <2>3. ClampDay(c.start, NextMonth(d)) = NextStart(c, f)
      <3>1. NextMonth(d) \in Date /\ MonthNo(NextMonth(d)) = MonthNo(NextMonth(f))
        BY <1>0, <1>1, <1>4, NextMonthNo
      <3> QED BY <1>1, <3>1, SameMonth DEF NextStart
    <2> HIDE DEF this
    <2> QED BY <2>1, <2>2, <2>3 DEF CycleOf, CycleFrom, this
  <1>5. CASE MonthNo(d) = MonthNo(f) + 1
    <2>1. this = NextStart(c, f)
      BY <1>0, <1>1, <1>5, SameMonth DEF NextStart
    <2>2. ~NotBefore(d, this)
      BY <2>1 DEF LiesIn
    <2>3. ClampDay(c.start, p) = ClampDay(c.start, f)
      <3>1. MonthNo(p) = MonthNo(f)
        BY <1>0, <1>1, <1>2, <1>5
      <3> HIDE DEF p
      <3> QED BY <1>2, <3>1, SameMonth
    <2> HIDE DEF this
    <2> QED BY <2>1, <2>2, <2>3 DEF CycleOf, CycleFrom, this, p
  <1> QED BY <1>3, <1>4, <1>5

\* Every date lies in a cycle.
LEMMA LiesSomewhere ==
  ASSUME NEW c \in Setting, NEW d, CalendarDay(d), d.year > 1
  PROVE  \E f \in Date : LiesIn(c, d, f)
  <1> DEFINE this == ClampDay(c.start, d)
             p == PreviousMonth(d)
  <1>0. d \in Date /\ MonthNo(d) \in Nat /\ d.day \in Nat
    BY DayFields
  <1>1. CASE NotBefore(d, this)
    <2>1. NextStart(c, d) \in Date /\ MonthNo(NextStart(c, d)) = MonthNo(d) + 1
      BY <1>0, Starts
    <2>2. ~NotBefore(d, NextStart(c, d))
      BY <1>0, <2>1, InOrder
    <2> QED BY <1>0, <1>1, <2>2 DEF LiesIn
  <1>2. CASE ~NotBefore(d, this)
    <2>1. p \in Date /\ MonthNo(p) = MonthNo(d) - 1
      BY <1>0, PreviousMonthNo
    <2> HIDE DEF p
    <2>2. /\ ClampDay(c.start, p) \in Date /\ MonthNo(ClampDay(c.start, p)) = MonthNo(p)
          /\ NextMonth(p) \in Date /\ MonthNo(NextMonth(p)) = MonthNo(p) + 1
      BY <2>1, Starts
    <2>3. NotBefore(d, ClampDay(c.start, p))
      BY <1>0, <2>1, <2>2, InOrder
    <2>4. MonthNo(NextMonth(p)) = MonthNo(d)
      BY <1>0, <2>1, <2>2
    <2>5. NextStart(c, p) = this
      BY <1>0, <2>2, <2>4, SameMonth DEF NextStart
    <2> QED BY <1>2, <2>1, <2>3, <2>5 DEF LiesIn
  <1> QED BY <1>1, <1>2

\* A cycle ends on the day before the next one starts.
LEMMA CycleEnds ==
  ASSUME NEW c \in Setting, NEW d, CalendarDay(d), d.year > 1, NEW f \in Date, LiesIn(c, d, f)
  PROVE  LET end == Yesterday(NextStart(c, f))
         IN  CalendarDay(end) /\ Tomorrow(end) = NextStart(c, f) /\ NotBefore(end, d)
  <1> DEFINE e == NextStart(c, f)
  <1>1. CalendarDay(e) /\ e \in Date
    BY Starts
  <1>2. NotBefore(e, d)
    BY <1>1, OrderIsTotal, DayFields DEF LiesIn
  <1>3. e.year > 1
    <2>1. e.year \in Nat /\ d.year \in Nat
      BY <1>1, DayFields
    <2>2. e.year >= d.year
      BY <1>2, <2>1 DEF NotBefore
    <2> HIDE DEF e
    <2> QED BY <2>1, <2>2
  <1>4. CalendarDay(Yesterday(e)) /\ Tomorrow(Yesterday(e)) = e
    BY <1>1, <1>3, TodayAfterYesterday
  <1>5. NotBefore(Yesterday(e), d)
    BY <1>4, NothingBetween DEF LiesIn
  <1> QED BY <1>4, <1>5

\* With the default start day a cycle is paid on its last day, or on the day after when the
\* month is too short for the payment day: always in the month of the next start, or, for
\* payments on the 31st, in that before it.
LEMMA DefaultIsPaidAtTheEnd ==
  ASSUME NEW c \in Setting, c.start = DefaultStart(c.payment), NEW f \in Date,
         NEW end, CalendarDay(end), Tomorrow(end) = NextStart(c, f)
  PROVE  /\ PaymentDate(c, end) \in {end, Tomorrow(end)}
         /\ MonthNo(PaymentDate(c, end)) = IF c.payment = 31 THEN MonthNo(f) ELSE MonthNo(f) + 1
  <1> DEFINE n == NextStart(c, f)
             p == c.payment
             due == ClampDay(p, end)
  <1>0. p \in 1 .. 31 /\ c.start \in 1 .. 31 /\ c.start = IF p = 31 THEN 1 ELSE p + 1
    BY DEF Setting, DefaultStart
  <1>1. /\ end \in Date /\ end.day \in 1 .. 31 /\ end.day <= Length(end)
        /\ Length(end) \in 28 .. 31 /\ MonthNo(end) \in Nat
    BY DayFields
  <1>2. /\ n \in Date /\ MonthNo(n) = MonthNo(f) + 1 /\ Length(n) \in 28 .. 31 /\ MonthNo(f) \in Nat
        /\ n.day = IF c.start > Length(n) THEN Length(n) ELSE c.start
    <2>1. NextMonth(f) \in Date /\ n \in Date /\ MonthNo(n) = MonthNo(f) + 1 /\ MonthNo(f) \in Nat
      BY Starts
    <2>2. /\ Length(n) = Length(NextMonth(f)) /\ Length(NextMonth(f)) \in 28 .. 31
          /\ n.day = IF c.start > Length(NextMonth(f)) THEN Length(NextMonth(f)) ELSE c.start
      BY <1>0, <2>1, Clamping DEF NextStart
    <2> QED BY <2>1, <2>2
  <1>3. /\ end.day < Length(end) => MonthNo(n) = MonthNo(end) /\ n.day = end.day + 1
        /\ end.day = Length(end) => MonthNo(n) = MonthNo(end) + 1 /\ n.day = 1
    BY TomorrowIsNext
  <1>4. /\ due \in Date /\ MonthNo(due) = MonthNo(end)
        /\ due.day = IF p > Length(end) THEN Length(end) ELSE p
    BY <1>0, <1>1, Clamping DEF CalendarDay
  <1>5. NotBefore(due, end) => PaymentDate(c, end) = due
    BY DEF PaymentDate
  <1> HIDE DEF n, due, p
  <1>6. CASE p = 31
    <2>1. n.day = 1
      BY <1>0, <1>2, <1>6
    <2>2. end.day = Length(end) /\ MonthNo(end) = MonthNo(f)
      BY <1>1, <1>2, <1>3, <2>1
    <2>3. due.day = end.day
      BY <1>1, <1>4, <1>6, <2>2
    <2>4. due = end
      BY <1>1, <1>4, <2>3, SameDate
    <2>5. PaymentDate(c, end) = end
      BY <1>1, <1>5, <2>4, OrderIsTotal
    <2> QED BY <1>6, <2>2, <2>5 DEF p
  <1>7. CASE p # 31
    <2>1. n.day >= 2 /\ n.day = IF p + 1 > Length(n) THEN Length(n) ELSE p + 1
      BY <1>0, <1>2, <1>7
    <2>2. end.day < Length(end) /\ MonthNo(end) = MonthNo(n) /\ end.day = n.day - 1
      BY <1>1, <1>2, <1>3, <2>1
    <2>3. Length(end) = Length(n)
      BY <1>1, <1>2, <2>2, SameMonth
    <2>4. due.day = end.day \/ due.day = n.day
      BY <1>0, <1>2, <1>4, <2>1, <2>2, <2>3
    <2>5. due = end \/ due = n
      BY <1>1, <1>2, <1>4, <2>2, <2>4, SameDate
    <2>6. NotBefore(due, end)
      BY <1>1, <1>2, <1>4, <2>2, <2>4, InOrder
    <2> QED BY <1>2, <1>4, <1>5, <1>7, <2>2, <2>5, <2>6 DEF n, p
  <1> QED BY <1>6, <1>7

\* The billing cycles of a card neither overlap nor leave a gap, whatever days the card is
\* set to, and are paid in order; with the default start day, each on a date of its own; and
\* the payment announced next is that of the cycle or an earlier one (billing_cycle_utils).
\* In year 1, the first of datetime, there may be no month before.
THEOREM CyclesTileAlways ==
  ASSUME NEW c \in Setting, NEW d, CalendarDay(d), d.year > 1
  PROVE  CyclesTileAt(c, d)
  <1> DEFINE t == Tomorrow(d)
             cycle == ShownCycle(c, d)
             tomorrow == ShownCycle(c, t)
             next == NextPaymentDate(c, d)
  <1>1. PICK f \in Date : LiesIn(c, d, f)
    BY LiesSomewhere
  <1> DEFINE g == NextMonth(f)
             start == ClampDay(c.start, f)
             after == NextStart(c, f)
             end == Yesterday(after)
             paid == PaymentDate(c, end)
  <1>2. /\ d \in Date /\ CalendarDay(t) /\ t \in Date
        /\ NotBefore(t, d) /\ ~NotBefore(d, t) /\ t # d
    BY NothingBetween, TomorrowIsNext, DayFields
  <1>3. t.year > 1
    <2>1. t.year \in Nat /\ d.year \in Nat
      BY <1>2, DayFields
    <2>2. t.year >= d.year
      BY <1>2, <2>1 DEF NotBefore
    <2> HIDE DEF t
    <2> QED BY <2>1, <2>2
  <1>4. /\ CalendarDay(end) /\ end \in Date /\ Tomorrow(end) = after /\ NotBefore(end, d)
        /\ CalendarDay(after) /\ after \in Date /\ start \in Date /\ g \in Date
    BY <1>1, CycleEnds, Starts, DayFields
  <1>5. cycle = [start |-> start, end |-> end, payment |-> paid]
    <2>1. CycleOf(c, d) = CycleFrom(c, f)
      BY <1>1, CycleIsWhereItLies
    <2> QED BY <2>1 DEF ShownCycle, CycleFrom
  <1>6. /\ CalendarDay(paid) /\ paid \in Date /\ NotBefore(paid, end) /\ OnDay(c.payment, paid)
        /\ \A e \in Date : OnDay(c.payment, e) /\ NotBefore(e, end) => NotBefore(e, paid)
    BY <1>4, PaymentIsFirst, DayFields
  <1>7. /\ CalendarDay(next) /\ next \in Date /\ ~NotBefore(d, next) /\ OnDay(c.payment, next)
        /\ \A e \in Date : OnDay(c.payment, e) /\ ~NotBefore(d, e) => NotBefore(e, next)
    BY NextPaymentIsFirst, DayFields
  <1>8. /\ NotBefore(cycle.payment, cycle.end)
        /\ NotBefore(d, cycle.start) /\ NotBefore(cycle.end, d)
    BY <1>1, <1>4, <1>5, <1>6 DEF LiesIn
  <1>9. next \in {t, NextPaymentDate(c, t)}
    <2> DEFINE later == NextPaymentDate(c, t)
    <2>1. /\ later \in Date /\ ~NotBefore(t, later) /\ OnDay(c.payment, later)
          /\ \A e \in Date : OnDay(c.payment, e) /\ ~NotBefore(t, e) => NotBefore(e, later)
      BY <1>2, NextPaymentIsFirst, DayFields
    <2>2. NotBefore(next, t)
      BY <1>7, NothingBetween
    <2>3. ASSUME next # t PROVE next = later
      <3>1. ~NotBefore(t, next)
        BY <1>2, <1>7, <2>2, <2>3, OrderIsTotal
      <3>2. NotBefore(next, later)
        BY <1>7, <2>1, <3>1
      <3>3. ~NotBefore(d, later)
        BY <1>2, <2>1, OrderIsTransitive
      <3>4. NotBefore(later, next)
        BY <1>7, <2>1, <3>3
      <3> QED BY <1>7, <2>1, <3>2, <3>4, OrderIsTotal
    <2> QED BY <2>3
  <1>10. cycle.payment = d \/ NotBefore(cycle.payment, next)
    <2>1. NotBefore(paid, d)
      BY <1>2, <1>4, <1>6, OrderIsTransitive
    <2>2. ASSUME paid # d PROVE NotBefore(paid, next)
      <3>1. ~NotBefore(d, paid)
        BY <1>2, <1>6, <2>1, <2>2, OrderIsTotal
      <3> QED BY <1>6, <1>7, <3>1
    <2> HIDE DEF paid, next
    <2> QED BY <1>5, <2>2
  <1>11. c.start = DefaultStart(c.payment) => cycle.payment \in {cycle.end, Tomorrow(cycle.end)}
    BY <1>4, <1>5, DefaultIsPaidAtTheEnd
  <1>12. d # end => tomorrow = cycle
    <2> SUFFICES ASSUME d # end PROVE tomorrow = cycle
      OBVIOUS
    <2>1. NotBefore(d, start) /\ NotBefore(t, start)
      BY <1>1, <1>2, <1>4, OrderIsTransitive DEF LiesIn
    <2>2. ~NotBefore(d, end)
      BY <1>2, <1>4, OrderIsTotal
    <2>3. NotBefore(end, t)
      BY <1>4, <2>2, NothingBetween
    <2>4. ~NotBefore(t, after)
      BY <1>2, <1>4, <2>3, NothingBetween
    <2>5. LiesIn(c, t, f)
      BY <2>1, <2>4 DEF LiesIn
    <2>6. CycleOf(c, t) = CycleFrom(c, f)
      BY <1>2, <1>3, <2>5, CycleIsWhereItLies
    <2> HIDE DEF t
    <2> QED BY <1>5, <2>6 DEF ShownCycle, CycleFrom
  <1>13. CASE d # end
    <2>1. NotBefore(cycle.payment, cycle.payment)
      BY <1>5, <1>6, OrderIsTotal
    <2> HIDE DEF cycle, tomorrow, next, t, end
    <2> QED BY <1>5, <1>7, <1>8, <1>9, <1>10, <1>11, <1>12, <1>13, <2>1
            DEF CyclesTileAt, cycle, tomorrow, next, t
  <1>14. CASE d = end
    <2> DEFINE end2 == Yesterday(NextStart(c, g))
               paid2 == PaymentDate(c, end2)
    <2>1. t = after
      BY <1>4, <1>14
    <2>2. LiesIn(c, t, g)
      <3>1. /\ NextStart(c, g) \in Date /\ MonthNo(NextStart(c, g)) = MonthNo(after) + 1
            /\ MonthNo(after) \in Nat /\ after = ClampDay(c.start, g)
        BY <1>4, Starts, MonthNoFields DEF NextStart
      <3>2. NotBefore(t, ClampDay(c.start, g))
        BY <1>4, <2>1, <3>1, OrderIsTotal
      <3>3. ~NotBefore(t, NextStart(c, g))
        BY <1>4, <2>1, <3>1, InOrder
      <3> QED BY <3>2, <3>3 DEF LiesIn
    <2>3. tomorrow = [start |-> t, end |-> end2, payment |-> paid2]
      <3>1. CycleOf(c, t) = CycleFrom(c, g)
        BY <1>2, <1>3, <1>4, <2>2, CycleIsWhereItLies
      <3>2. ClampDay(c.start, g) = t
        BY <2>1 DEF NextStart
      <3> HIDE DEF t, g
      <3> QED BY <3>1, <3>2 DEF ShownCycle, CycleFrom
    <2>4. /\ CalendarDay(end2) /\ end2 \in Date /\ NotBefore(end2, t)
          /\ Tomorrow(end2) = NextStart(c, g)
      BY <1>2, <1>3, <1>4, <2>2, CycleEnds, DayFields
    <2>5. paid2 \in Date /\ NotBefore(paid2, end2) /\ OnDay(c.payment, paid2)
      BY <2>4, PaymentIsFirst, DayFields
    <2>6. NotBefore(paid2, paid)
      <3>1. NotBefore(end2, end)
        BY <1>2, <1>14, <2>4, OrderIsTransitive
      <3>2. NotBefore(paid2, end)
        BY <1>4, <2>4, <2>5, <3>1, OrderIsTransitive
      <3> QED BY <1>6, <2>5, <3>2
    <2>7. c.start = DefaultStart(c.payment) => paid2 # paid
      <3> SUFFICES ASSUME c.start = DefaultStart(c.payment) PROVE paid2 # paid
        OBVIOUS
      <3>1. MonthNo(g) = MonthNo(f) + 1 /\ MonthNo(f) \in Nat
        BY Starts
      <3>2. MonthNo(paid) = IF c.payment = 31 THEN MonthNo(f) ELSE MonthNo(f) + 1
        BY <1>4, DefaultIsPaidAtTheEnd
      <3>3. MonthNo(paid2) = IF c.payment = 31 THEN MonthNo(g) ELSE MonthNo(g) + 1
        BY <1>4, <2>4, DefaultIsPaidAtTheEnd
      <3> HIDE DEF paid, paid2, g
      <3> QED BY <3>1, <3>2, <3>3
    <2>8. d = cycle.end /\ tomorrow.start = t
      BY <1>5, <1>14, <2>3
    <2>9. /\ NotBefore(tomorrow.payment, cycle.payment)
          /\ c.start = DefaultStart(c.payment) => tomorrow.payment # cycle.payment
      <3> HIDE DEF paid, paid2
      <3> QED BY <1>5, <2>3, <2>6, <2>7
    <2> HIDE DEF cycle, tomorrow, next, t, end
    <2> QED BY <1>7, <1>8, <1>9, <1>10, <1>11, <2>8, <2>9
            DEF CyclesTileAt, cycle, tomorrow, next, t
  <1> QED BY <1>13, <1>14

-----------------------------------------------------------------------------
(* The days of a year, and what a year charges.                            *)

LEMMA UpTo ==
  ASSUME NEW n \in Nat
  PROVE  IsFiniteSet(1 .. n) /\ Cardinality(1 .. n) = n
  <1>1. 1 \in Int /\ n \in Int
    OBVIOUS
  <1>2. IsFiniteSet(1 .. n) /\ Cardinality(1 .. n) = IF 1 > n THEN 0 ELSE n - 1 + 1
    BY <1>1, FS_Interval
  <1> QED BY <1>2

\* The days before a year.
Before(y) == 365 * (y - 1) + LeapDays(y - 1)

LEMMA DaysOfFields ==
  ASSUME NEW y \in Nat, y >= 1, NEW d
  PROVE  d \in DaysOf(y) <=> CalendarDay(d) /\ d.year = y
  <1>1. ASSUME d \in DaysOf(y) PROVE CalendarDay(d) /\ d.year = y
    BY <1>1 DEF DaysOf
  <1>2. ASSUME CalendarDay(d), d.year = y PROVE d \in DaysOf(y)
    <2>1. d \in Date
      BY <1>2 DEF CalendarDay
    <2>2. /\ d = [year |-> y, month |-> d.month, day |-> d.day]
          /\ d.month \in 1 .. 12 /\ d.day \in 1 .. 31
      BY <1>2, <2>1, DateShape, DateFields
    <2>3. d \in [year : {y}, month : 1 .. 12, day : 1 .. 31]
      BY <2>2
    <2> QED BY <1>2, <2>3 DEF DaysOf
  <1> QED BY <1>1, <1>2

LEMMA OrdinalInYear ==
  ASSUME NEW d, CalendarDay(d)
  PROVE  /\ Before(d.year) \in Nat
         /\ LeapDay(d) \in {0, 1} /\ DaysBeforeMonth[d.month] \in 0 .. 334
         /\ Ordinal(d) = Before(d.year) + DaysBeforeMonth[d.month] + LeapDay(d) + d.day
         /\ Ordinal(d) \in Before(d.year) + 1 .. Before(d.year) + 366
  <1>1. d \in Date /\ d.year \in Nat /\ d.year >= 1 /\ d.month \in 1 .. 12 /\ d.day \in 1 .. 31
    BY DayFields
  <1>2. d.year - 1 \in Nat
    BY <1>1
  <1>3. LeapDays(d.year - 1) \in Nat
    BY <1>2, LeapDaysAreNatural
  <1>4. Before(d.year) \in Nat
    BY <1>2, <1>3 DEF Before
  <1>5. LeapDay(d) \in {0, 1}
    BY DEF LeapDay
  <1>6. DaysBeforeMonth[d.month] \in 0 .. 334
    BY <1>1, MonthStarts
  <1>7. Ordinal(d) = Before(d.year) + DaysBeforeMonth[d.month] + LeapDay(d) + d.day
    BY <1>1, OrdinalFields DEF Before
  <1>8. Ordinal(d) \in Before(d.year) + 1 .. Before(d.year) + 366
    <2> DEFINE b == Before(d.year)   m == DaysBeforeMonth[d.month]   p == LeapDay(d)   x == d.day
               o == Ordinal(d)
    <2>1. b \in Nat /\ m \in 0 .. 334 /\ p \in {0, 1} /\ x \in 1 .. 31 /\ o = b + m + p + x
      BY <1>1, <1>4, <1>5, <1>6, <1>7
    <2> HIDE DEF b, m, p, x, o
    <2>2. o \in b + 1 .. b + 366
      BY <2>1
    <2> QED BY <2>2 DEF b, o
  <1> QED BY <1>4, <1>5, <1>6, <1>7, <1>8

\* The months of a year follow one another.
LEMMA MonthsInYear ==
  ASSUME NEW y \in Nat, NEW m \in 1 .. 12, NEW n \in 1 .. 12, m < n
  PROVE  DaysBeforeMonth[m] + (IF m > 2 /\ IsLeap(y) THEN 1 ELSE 0) + LastDay(y, m)
         <= DaysBeforeMonth[n] + (IF n > 2 /\ IsLeap(y) THEN 1 ELSE 0)
  BY DEF DaysBeforeMonth, LastDay

LEMMA OrdinalsDiffer ==
  ASSUME NEW d, CalendarDay(d), NEW e, CalendarDay(e), d.year = e.year, Ordinal(d) = Ordinal(e)
  PROVE  d = e
  <1>1. /\ d \in Date /\ d.year \in Nat /\ d.month \in 1 .. 12 /\ d.day \in 1 .. 31
        /\ e \in Date /\ e.month \in 1 .. 12 /\ e.day \in 1 .. 31
        /\ d.day <= LastDay(d.year, d.month) /\ e.day <= LastDay(e.year, e.month)
    BY DayFields DEF Length
  <1> DEFINE p == DaysBeforeMonth[d.month] + LeapDay(d)
             q == DaysBeforeMonth[e.month] + LeapDay(e)
  <1>2. p + d.day = q + e.day /\ p \in Int /\ q \in Int
    <2> DEFINE b == Before(d.year)
    <2>1. b \in Nat /\ LeapDay(d) \in {0, 1} /\ DaysBeforeMonth[d.month] \in 0 .. 334
          /\ Ordinal(d) = b + DaysBeforeMonth[d.month] + LeapDay(d) + d.day
      BY OrdinalInYear
    <2>2. LeapDay(e) \in {0, 1} /\ DaysBeforeMonth[e.month] \in 0 .. 334
          /\ Ordinal(e) = b + DaysBeforeMonth[e.month] + LeapDay(e) + e.day
      BY OrdinalInYear
    <2>3. p \in Int /\ Ordinal(d) = b + p + d.day
      <3> DEFINE x == DaysBeforeMonth[d.month]   z == LeapDay(d)
      <3>1. x \in Int /\ z \in Int /\ b \in Int /\ d.day \in Int /\ p = x + z
            /\ Ordinal(d) = b + x + z + d.day
        BY <1>1, <2>1
      <3> HIDE DEF x, z, b, p
      <3> QED BY ONLY <3>1
    <2>4. q \in Int /\ Ordinal(e) = b + q + e.day
      <3> DEFINE x == DaysBeforeMonth[e.month]   z == LeapDay(e)
      <3>0. Ordinal(e) = b + x + z + e.day
        BY <2>2
      <3>1. x \in Int /\ z \in Int /\ b \in Int /\ e.day \in Int /\ q = x + z
            /\ Ordinal(e) = b + x + z + e.day
        <4>1. x \in Int /\ z \in Int /\ b \in Int /\ e.day \in Int /\ q = x + z
          BY <1>1, <2>1, <2>2
        <4> HIDE DEF x, z, b
        <4> QED BY ONLY <3>0, <4>1
      <3> HIDE DEF x, z, b, q
      <3> QED BY ONLY <3>1
    <2> HIDE DEF b, p, q
    <2>5. Ordinal(d) = Ordinal(e) /\ b \in Int /\ d.day \in Int /\ e.day \in Int
      BY <1>1, <2>1
    <2> QED BY ONLY <2>3, <2>4, <2>5
  <1>3. LastDay(d.year, d.month) \in Int /\ LastDay(e.year, e.month) \in Int
    BY <1>1, LastDays
  <1>4. ~(d.month < e.month)
    <2> SUFFICES ASSUME d.month < e.month PROVE FALSE
      OBVIOUS
    <2>1. p + LastDay(d.year, d.month) <= q
      BY <1>1, MonthsInYear DEF LeapDay
    <2> DEFINE n == LastDay(d.year, d.month)
    <2>2. n \in Int /\ d.day \in Int /\ d.day <= n /\ e.day >= 1 /\ e.day \in Int
          /\ p + n <= q
      BY <1>1, <1>3, <2>1
    <2> HIDE DEF p, q, n
    <2> QED BY ONLY <1>2, <2>2
  <1>5. ~(e.month < d.month)
    <2> SUFFICES ASSUME e.month < d.month PROVE FALSE
      OBVIOUS
    <2>1. q + LastDay(e.year, e.month) <= p
      BY <1>1, MonthsInYear DEF LeapDay
    <2> DEFINE n == LastDay(e.year, e.month)
    <2>2. n \in Int /\ e.day \in Int /\ e.day <= n /\ d.day >= 1 /\ d.day \in Int
          /\ q + n <= p
      BY <1>1, <1>3, <2>1
    <2> HIDE DEF p, q, n
    <2> QED BY ONLY <1>2, <2>2
  <1>6. d.month = e.month
    BY <1>1, <1>4, <1>5
  <1>7. p = q
    BY <1>6 DEF LeapDay
  <1>8. d.day = e.day
    <2> HIDE DEF p, q
    <2> QED BY <1>1, <1>2, <1>7
  <1> QED BY <1>1, <1>6, <1>8, DateShape

\* Every number up to 365 is that of a day of the year.
LEMMA DaysInYear ==
  ASSUME NEW y \in Nat, y >= 1, NEW k \in 1 .. 365
  PROVE  \E d \in DaysOf(y) : Ordinal(d) = Before(y) + k
  <1> DEFINE N == {n \in Nat : n \in 0 .. 364 =>
                       \E d \in DaysOf(y) : Ordinal(d) = Before(y) + (n + 1)}
             january == [year |-> y, month |-> 1, day |-> 1]
  <1>1. CalendarDay(january)
    <2>1. january \in Date
      BY DEF Date
    <2>2. LastDay(y, 1) \in 28 .. 31
      BY LastDays
    <2> QED BY <2>1, <2>2 DEF CalendarDay
  <1>2. 0 \in N
    <2>1. january \in DaysOf(y)
      BY <1>1, DaysOfFields
    <2>2. DaysBeforeMonth[1] = 0 /\ LeapDay(january) = 0
      BY DEF DaysBeforeMonth, LeapDay
    <2>3. Ordinal(january) = Before(y) + DaysBeforeMonth[january.month] + LeapDay(january) + january.day
          /\ Before(january.year) \in Nat
      BY <1>1, OrdinalInYear
    <2>4. january.month = 1 /\ january.day = 1 /\ january.year = y
      OBVIOUS
    <2> HIDE DEF january
    <2>5. Ordinal(january) = Before(y) + (0 + 1)
      BY <2>2, <2>3, <2>4
    <2> QED BY <2>1, <2>5
  <1>3. ASSUME NEW n \in Nat, n \in N PROVE n + 1 \in N
    <2> SUFFICES ASSUME n + 1 \in 0 .. 364
                 PROVE  \E d \in DaysOf(y) : Ordinal(d) = Before(y) + ((n + 1) + 1)
      OBVIOUS
    <2>1. n \in 0 .. 364 /\ n + 1 < 365
      OBVIOUS
    <2>2. PICK d \in DaysOf(y) : Ordinal(d) = Before(y) + (n + 1)
      BY <1>3, <2>1
    <2> DEFINE t == Tomorrow(d)
    <2>3. CalendarDay(d) /\ d.year = y
      BY DaysOfFields
    <2>4. /\ CalendarDay(t) /\ Ordinal(t) = Ordinal(d) + 1 /\ d.day <= LastDay(y, d.month)
          /\ d \in Date /\ d.month \in 1 .. 12 /\ d.day \in 1 .. 31 /\ LastDay(y, d.month) \in 28 .. 31
      BY <2>3, TomorrowFields, MidnightsAreDays, DayFields DEF Length
    <2>5. /\ Before(y) \in Nat
          /\ Ordinal(d) = Before(y) + DaysBeforeMonth[d.month] + LeapDay(d) + d.day
          /\ LeapDay(d) \in {0, 1} /\ DaysBeforeMonth[d.month] \in 0 .. 334
      <3> HIDE DEF t
      <3>1. /\ Before(d.year) \in Nat
            /\ Ordinal(d) = Before(d.year) + DaysBeforeMonth[d.month] + LeapDay(d) + d.day
            /\ LeapDay(d) \in {0, 1} /\ DaysBeforeMonth[d.month] \in 0 .. 334
        BY <2>3, OrdinalInYear
      <3> QED BY <2>3, <3>1
    <2>6. t.year = y
      <3>1. CASE d.day < LastDay(y, d.month)
        BY <2>3, <3>1, TomorrowFields
      <3>2. CASE d.day = LastDay(y, d.month)
        <4>1. d.month # 12
          <5> SUFFICES ASSUME d.month = 12 PROVE FALSE
            OBVIOUS
          <5>1. DaysBeforeMonth[d.month] = 334 /\ d.day = 31
            BY <3>2 DEF DaysBeforeMonth, LastDay
          <5>2. Ordinal(d) >= Before(y) + 365
            BY <2>5, <5>1
          <5> QED BY <2>1, <2>2, <2>5, <5>2
        <4>2. NextMonth(d).year = y
          BY <2>3, <2>4, <4>1, NextMonthIsDate
        <4> QED BY <2>3, <3>2, <4>2, TomorrowFields
      <3> QED BY <2>4, <3>1, <3>2
    <2>7. t \in DaysOf(y)
      BY <2>4, <2>6, DaysOfFields
    <2>8. Ordinal(t) = Before(y) + ((n + 1) + 1)
      <3> HIDE DEF t
      <3> QED BY <2>2, <2>4, <2>5
    <2> QED BY <2>7, <2>8
  <1> HIDE DEF N
  <1>4. Nat \subseteq N
    BY <1>2, <1>3, SetOfNaturals
  <1>5. k - 1 \in N /\ k - 1 \in 0 .. 364 /\ (k - 1) + 1 = k
    BY <1>4
  <1> QED BY <1>5 DEF N

-----------------------------------------------------------------------------
(* What a year charges.                                                    *)

BillingDays(s, y) == {d \in DaysOf(y) : IsBillingDay(s, d)}

LEMMA MonthlyCharges ==
  ASSUME NEW s, HasSchedule(s), s.cycle = "MONTHLY", NEW y \in Nat, y >= 1
  PROVE  Cardinality(BillingDays(s, y)) = 12
  <1> DEFINE f == [m \in 1 .. 12 |-> InMonth(s, y, m)]
             S == BillingDays(s, y)
  <1>1. ASSUME NEW m \in 1 .. 12
        PROVE  f[m] \in S /\ f[m].month = m
    <2>1. CalendarDay(InMonth(s, y, m))
      BY InMonthIsDay
    <2>2. /\ InMonth(s, y, m).year = y /\ InMonth(s, y, m).month = m
          /\ InMonth(s, y, m).day = Clamped(s, y, m)
      BY DEF InMonth
    <2>3. InMonth(s, y, m) \in DaysOf(y)
      BY <2>1, <2>2, DaysOfFields
    <2>4. IsBillingDay(s, InMonth(s, y, m))
      BY <2>2 DEF IsBillingDay
    <2> QED BY <2>2, <2>3, <2>4 DEF BillingDays
  <1>2. ASSUME NEW d \in S PROVE d.month \in 1 .. 12 /\ f[d.month] = d
    <2>1. CalendarDay(d) /\ d.year = y /\ IsBillingDay(s, d)
      BY DaysOfFields DEF BillingDays
    <2>2. d \in Date /\ d.month \in 1 .. 12
      BY <2>1, DayFields
    <2>3. d.day = Clamped(s, y, d.month)
      BY <2>1 DEF IsBillingDay
    <2>4. d = [year |-> y, month |-> d.month, day |-> Clamped(s, y, d.month)]
      BY <2>1, <2>2, <2>3, DateShape
    <2> QED BY <2>2, <2>4 DEF InMonth
  <1> HIDE DEF f, S
  <1>3. f \in [1 .. 12 -> S]
    BY <1>1 DEF f
  <1>4. f \in Bijection(1 .. 12, S)
    <2>1. \A m, n \in 1 .. 12 : f[m] = f[n] => m = n
      BY <1>1
    <2>2. \A d \in S : \E m \in 1 .. 12 : f[m] = d
      BY <1>2
    <2> QED BY <1>3, <2>1, <2>2, Fun_IsBij
  <1>5. IsFiniteSet(1 .. 12) /\ Cardinality(1 .. 12) = 12
    BY UpTo
  <1> QED BY <1>4, <1>5, FS_Bijection DEF ExistsBijection, S

LEMMA YearlyCharges ==
  ASSUME NEW s, HasSchedule(s), s.cycle = "YEARLY", NEW y \in Nat, y >= 1
  PROVE  Cardinality(BillingDays(s, y)) = 1
  <1> DEFINE m == s.start.month
             e == InMonth(s, y, m)
  <1>1. m \in 1 .. 12
    BY DateFields DEF HasSchedule
  <1>2. CalendarDay(e) /\ e.year = y /\ e.month = m /\ e.day = Clamped(s, y, m)
    BY <1>1, InMonthIsDay DEF InMonth
  <1>3. e \in BillingDays(s, y)
    <2>1. IsBillingDay(s, e)
      BY <1>2 DEF IsBillingDay
    <2> QED BY <1>2, <2>1, DaysOfFields DEF BillingDays
  <1>4. ASSUME NEW d \in BillingDays(s, y) PROVE d = e
    <2>1. CalendarDay(d) /\ d.year = y /\ IsBillingDay(s, d)
      BY DaysOfFields DEF BillingDays
    <2>2. d.month = m /\ d.day = Clamped(s, y, m)
      BY <2>1 DEF IsBillingDay
    <2>3. d \in Date
      BY <2>1 DEF CalendarDay
    <2> QED BY <2>1, <2>2, <2>3, DateShape DEF InMonth
  <1>5. BillingDays(s, y) = {e}
    BY <1>3, <1>4
  <1> QED BY <1>5, FS_Singleton

LEMMA WeeklyCharges ==
  ASSUME NEW s, HasSchedule(s), s.cycle = "WEEKLY", NEW y \in Nat, y >= 1
  PROVE  Cardinality(BillingDays(s, y)) \in 52 .. 53
  <1> DEFINE S == BillingDays(s, y)
             b == Before(y)
             w == Weekday(s.start)
  <1>1. w \in 0 .. 6
    BY Weekdays DEF HasSchedule
  <1>2. b \in Nat
    <2>1. y - 1 \in Nat
      OBVIOUS
    <2> QED BY <2>1, LeapDaysAreNatural DEF Before
  <1>3. ASSUME NEW d \in S
        PROVE  /\ CalendarDay(d) /\ d.year = y
               /\ Ordinal(d) \in b + 1 .. b + 366 /\ (Ordinal(d) + 6) % 7 = w
    <2>1. CalendarDay(d) /\ d.year = y /\ IsBillingDay(s, d)
      BY DaysOfFields DEF BillingDays
    <2> QED BY <2>1, OrdinalInYear DEF IsBillingDay, Weekday
  <1>4. ASSUME NEW k \in 1 .. 365, (b + k + 6) % 7 = w
        PROVE  \E d \in S : Ordinal(d) = b + k
    <2>1. PICK d \in DaysOf(y) : Ordinal(d) = b + k
      BY DaysInYear
    <2>2. IsBillingDay(s, d)
      BY <1>4, <2>1 DEF IsBillingDay, Weekday
    <2> QED BY <2>1, <2>2 DEF BillingDays
  <1>5. ASSUME NEW d \in S, NEW e \in S, Ordinal(d) = Ordinal(e) PROVE d = e
    BY <1>3, <1>5, OrdinalsDiffer
  <1> HIDE DEF S, b, w
  <1> DEFINE f == [d \in S |-> (Ordinal(d) - b - 1) \div 7 + 1]
  <1>6. f \in Injection(S, 1 .. 53)
    <2>1. ASSUME NEW d \in S PROVE f[d] \in 1 .. 53
      <3> DEFINE o == Ordinal(d)
      <3>1. o \in b + 1 .. b + 366
        BY <1>3
      <3> HIDE DEF o
      <3>2. (o - b - 1) \div 7 + 1 \in 1 .. 53
        BY <1>2, <3>1
      <3> QED BY <3>2 DEF o
    <2>2. ASSUME NEW d \in S, NEW e \in S, f[d] = f[e] PROVE d = e
      <3> DEFINE o == Ordinal(d)   p == Ordinal(e)
      <3>1. /\ o \in b + 1 .. b + 366 /\ (o + 6) % 7 = w
            /\ p \in b + 1 .. b + 366 /\ (p + 6) % 7 = w
        BY <1>3
      <3>2. (o - b - 1) \div 7 = (p - b - 1) \div 7
        <4>1. f[d] = (o - b - 1) \div 7 + 1 /\ f[e] = (p - b - 1) \div 7 + 1
          OBVIOUS
        <4>2. (o - b - 1) \div 7 \in Int /\ (p - b - 1) \div 7 \in Int
          <5> HIDE DEF o, p
          <5> QED BY <1>2, <3>1
        <4>3. f[d] = f[e]
          BY <2>2
        <4> HIDE DEF f, o, p
        <4> QED BY ONLY <4>1, <4>2, <4>3
      <3>3. o = p
        <4> HIDE DEF o, p
        <4> QED BY <1>2, <3>1, <3>2, SMTT(30)
      <3> QED BY <1>5, <3>3
    <2>3. f \in [S -> 1 .. 53]
      BY <2>1
    <2> HIDE DEF f
    <2> QED BY <2>2, <2>3, Fun_IsInj
  <1>7. IsFiniteSet(S) /\ Cardinality(S) <= 53
    <2>1. IsFiniteSet(1 .. 53) /\ Cardinality(1 .. 53) = 53
      BY UpTo
    <2>2. IsFiniteSet(S) /\ Cardinality(S) <= Cardinality(1 .. 53)
      BY <1>6, <2>1, FS_Injection
    <2> QED BY <2>1, <2>2
  <1>8. PICK r \in 1 .. 7 : (b + r + 6) % 7 = w
    <2> DEFINE r == ((w - b) % 7) + 1
    <2>1. r \in 1 .. 7
      BY <1>1, <1>2
    <2>2. (b + r + 6) % 7 = w
      BY <1>1, <1>2, SMTT(30)
    <2> HIDE DEF r
    <2> QED BY <2>1, <2>2
  <1> DEFINE g == [i \in 1 .. 52 |-> CHOOSE d \in S : Ordinal(d) = b + (r + 7 * (i - 1))]
  <1>9. ASSUME NEW i \in 1 .. 52 PROVE g[i] \in S /\ Ordinal(g[i]) = b + (r + 7 * (i - 1))
    <2> DEFINE k == r + 7 * (i - 1)
    <2>1. k \in 1 .. 365
      OBVIOUS
    <2>2. (b + k + 6) % 7 = w
      BY <1>2, <1>8, SMTT(30)
    <2> HIDE DEF k
    <2>3. \E d \in S : Ordinal(d) = b + k
      BY <1>4, <2>1, <2>2
    <2> QED BY <2>3 DEF k
  <1>10. g \in Injection(1 .. 52, S)
    <2>1. ASSUME NEW i \in 1 .. 52, NEW j \in 1 .. 52, g[i] = g[j] PROVE i = j
      <3> HIDE DEF g
      <3>1. b + (r + 7 * (i - 1)) = b + (r + 7 * (j - 1))
        BY <1>9, <2>1
      <3> QED BY <1>2, <3>1
    <2>2. g \in [1 .. 52 -> S]
      BY <1>9
    <2> HIDE DEF g
    <2> QED BY <2>1, <2>2, Fun_IsInj
  <1>11. Cardinality(S) >= 52
    <2>1. IsFiniteSet(1 .. 52) /\ Cardinality(1 .. 52) = 52
      BY UpTo
    <2>2. Cardinality(1 .. 52) <= Cardinality(S)
      <3> HIDE DEF g
      <3> QED BY <1>7, <1>10, FS_Injection
    <2> QED BY <1>7, <2>1, <2>2, FS_CardinalityType
  <1>12. Cardinality(S) \in Nat
    BY <1>7, FS_CardinalityType
  <1> QED BY <1>7, <1>11, <1>12 DEF S

\* A walk stays on days of the calendar, with the schedule or setting it began with.
WalkInv ==
    /\ CalendarDay(date) /\ date.year > 1
    /\ part = "subscription" => schedule \in Schedules
    /\ part = "cycle" => schedule \in Settings

LEMMA WalkIsSafe == Spec => []WalkInv
  <1>1. Init => WalkInv
    BY WalkAssumption DEF Init, WalkInv
  <1>2. WalkInv /\ [Next]_vars => WalkInv'
    <2> SUFFICES ASSUME WalkInv, [Next]_vars PROVE WalkInv'
      OBVIOUS
    <2>1. CASE Walk /\ UNCHANGED part
      <3>1. date' = Tomorrow(date) /\ UNCHANGED <<part, schedule>>
        BY <2>1 DEF Walk
      <3>2. CalendarDay(Tomorrow(date)) /\ date \in Date /\ date.year \in Nat
        BY TomorrowFields, DayFields DEF WalkInv
      <3>3. Tomorrow(date).year \in Nat /\ Tomorrow(date).year >= date.year
        BY <3>2, DayFields, PlusIsDate DEF Tomorrow
      <3>4. date'.year > 1
        <4> DEFINE a == date.year   b == Tomorrow(date).year
        <4>1. a \in Nat /\ b \in Nat /\ b >= a /\ a > 1 /\ date'.year = b
          BY <3>1, <3>2, <3>3 DEF WalkInv
        <4> HIDE DEF a, b
        <4> QED BY ONLY <4>1
      <3> QED BY <3>1, <3>2, <3>4 DEF WalkInv, CalendarDay
    <2>2. CASE UNCHANGED <<part, walkVars>>
      BY <2>2 DEF walkVars, WalkInv
    <2> QED BY <2>1, <2>2 DEF Next, vars
  <1> QED BY <1>1, <1>2, PTL DEF Spec

LEMMA Times ==
  ASSUME NEW a \in Nat, NEW n \in 52 .. 53
  PROVE  12 * (a * 4) <= a * n /\ a * n - 12 * (a * 4) <= 5 * a
  <1>1. CASE n = 52
    BY <1>1
  <1>2. CASE n = 53
    BY <1>2
  <1> QED BY <1>1, <1>2

\* The yearly cost of the summary against what a year charges, for any amount.
LEMMA YearIsCovered ==
  ASSUME NEW s, HasSchedule(s), NEW y \in Nat, y >= 1
  PROVE  LET charged == Price * Cardinality(BillingDays(s, y))
         IN  /\ YearlyTotal(s.cycle, Price) <= charged
             /\ charged - YearlyTotal(s.cycle, Price)
                    <= IF s.cycle = "WEEKLY" THEN 5 * Price ELSE 11
  <1> DEFINE n == Cardinality(BillingDays(s, y))
             total == YearlyTotal(s.cycle, Price)
  <1>0. Price \in Nat
    BY WalkAssumption
  <1>1. CASE s.cycle = "MONTHLY"
    <2>1. n = 12 /\ total = 12 * Price
      BY <1>1, MonthlyCharges DEF YearlyTotal, MonthlyAmount
    <2> HIDE DEF n, total
    <2> QED BY <1>0, <1>1, <2>1 DEF n, total
  <1>2. CASE s.cycle = "YEARLY"
    <2>1. n = 1 /\ total = 12 * (Price \div 12)
      BY <1>2, YearlyCharges DEF YearlyTotal, MonthlyAmount
    <2>2. 12 * (Price \div 12) <= Price /\ Price - 12 * (Price \div 12) <= 11
      BY <1>0
    <2>3. total <= Price * n /\ Price * n - total <= 11
      <3> HIDE DEF n, total
      <3> QED BY <1>0, <2>1, <2>2
    <2> HIDE DEF n, total
    <2> QED BY <1>2, <2>3 DEF n, total
  <1>3. CASE s.cycle = "WEEKLY"
    <2>1. n \in 52 .. 53 /\ total = 12 * (Price * 4)
      BY <1>3, WeeklyCharges DEF YearlyTotal, MonthlyAmount
    <2>2. total <= Price * n /\ Price * n - total <= 5 * Price
      <3> HIDE DEF n, total
      <3> QED BY <1>0, <2>1, Times
    <2> HIDE DEF n, total
    <2> QED BY <1>3, <2>2 DEF n, total
  <1> QED BY <1>1, <1>2, <1>3 DEF HasSchedule

\* On every day of a walk the next payment that is shown is the first day that
\* process_subscriptions charges, and the yearly cost of get_summary is what a year charges
\* but for what the division by twelve and months of four weeks leave out: for every schedule
\* and every amount, over any stretch of the calendar.
THEOREM DatesAlwaysAgree == Spec => []DatesAgree
  <1>1. WalkInv => DatesAgree
    <2> SUFFICES ASSUME WalkInv, part = "subscription"
                 PROVE  /\ NextIsFirstBillingDay(schedule, date)
                        /\ LET total == YearlyTotal(schedule.cycle, Price)
                           IN  /\ total <= ChargedIn(date.year)
                               /\ ChargedIn(date.year) - total
                                    <= IF schedule.cycle = "WEEKLY" THEN 5 * Price ELSE 11
                        /\ Ordinal(Tomorrow(date)) = Ordinal(date) + 1
                        /\ Yesterday(Tomorrow(date)) = date
      BY DEF DatesAgree
    <2>1. HasSchedule(schedule) /\ CalendarDay(date) /\ date.year \in Nat /\ date.year >= 1
      BY WalkAssumption, DayFields DEF WalkInv
    <2>2. NextIsFirstBillingDay(schedule, date)
      BY <2>1, NextIsFirst
    <2>3. Ordinal(Tomorrow(date)) = Ordinal(date) + 1 /\ Yesterday(Tomorrow(date)) = date
      BY <2>1, MidnightsAreDays
    <2>4. ChargedIn(date.year) = Price * Cardinality(BillingDays(schedule, date.year))
      BY DEF ChargedIn, BillingDays
    <2> QED BY <2>1, <2>2, <2>3, <2>4, YearIsCovered
  <1> QED BY <1>1, WalkIsSafe, PTL

\* The cycles of a card tile the calendar on every day of a walk, whatever its setting
\* (get_billing_cycle, get_next_payment_date).
THEOREM CyclesAlwaysTile == Spec => []CyclesTile
  <1>1. WalkInv => CyclesTile
    BY WalkAssumption, CyclesTileAlways DEF WalkInv, CyclesTile
  <1> QED BY <1>1, WalkIsSafe, PTL

-----------------------------------------------------------------------------
(* What is billed with a card.                                             *)

\* The calendar of CardBilling is that of BillingCycles.
LEMMA SameBilling ==
  /\ \A d, e : billing!NotBefore(d, e) <=> NotBefore(d, e)
  /\ \A p : billing!DefaultStart(p) = DefaultStart(p)
  /\ \A c, d : billing!CycleOf(c, d) = CycleOf(c, d)
  /\ \A c, d : billing!ShownCycle(c, d) = ShownCycle(c, d)
  /\ \A c, d, e : billing!AreCycle(c, d, e)
                    <=> d = ClampDay(c.start, d) /\ e = Yesterday(ClampDay(c.start, NextMonth(d)))
  <1>1. \A y, m : billing!LastDay(y, m) = LastDay(y, m)
    BY DEF billing!LastDay, billing!IsLeap, LastDay, IsLeap
  <1>2. /\ \A d, e : billing!NotBefore(d, e) <=> NotBefore(d, e)
        /\ \A p : billing!DefaultStart(p) = DefaultStart(p)
        /\ \A d : billing!NextMonth(d) = NextMonth(d)
        /\ \A d : billing!PreviousMonth(d) = PreviousMonth(d)
    BY DEF billing!NotBefore, NotBefore, billing!DefaultStart, DefaultStart,
           billing!NextMonth, NextMonth, billing!PreviousMonth, PreviousMonth
  <1>3. \A d : billing!Yesterday(d) = Yesterday(d)
    BY <1>1 DEF billing!Yesterday, Yesterday
  <1>4. \A x, d : billing!ClampDay(x, d) = ClampDay(x, d)
    BY <1>1 DEF billing!ClampDay, ClampDay, billing!InMonth, InMonth, billing!Clamped, Clamped
  <1>5. \A c, d : billing!CycleOf(c, d) = CycleOf(c, d)
    BY <1>2, <1>3, <1>4 DEF billing!CycleOf, CycleOf
  <1>6. \A c, e : billing!PaymentDate(c, e) = PaymentDate(c, e)
    BY <1>2, <1>4 DEF billing!PaymentDate, PaymentDate
  <1>7. \A c, d : billing!ShownCycle(c, d) = ShownCycle(c, d)
    BY <1>5, <1>6 DEF billing!ShownCycle, ShownCycle
  <1>8. \A c, d, e : billing!AreCycle(c, d, e)
                       <=> d = ClampDay(c.start, d) /\ e = Yesterday(ClampDay(c.start, NextMonth(d)))
    BY <1>2, <1>3, <1>4 DEF billing!AreCycle
  <1> QED BY <1>2, <1>5, <1>7, <1>8

\* The totals of CardBilling are the sums of Lemmas.
LEMMA CardTotals ==
  ASSUME NEW S, IsFiniteSet(S), NEW rows
  PROVE  billing!Total(rows, S) = SumFunctionOnSet([i \in S |-> rows[i].amount], S)
  <1> DEFINE f == [i \in S |-> rows[i].amount]
             Rec(h) == h = [s \in SUBSET S |-> IF s = {} THEN 0
                                ELSE rows[CHOOSE x \in s : TRUE].amount + h[s \ {CHOOSE x \in s : TRUE}]]
             k == CHOOSE h : Rec(h)
  <1>1. \A g : Rec(g) <=> Adds(g, f, S)
    <2> SUFFICES ASSUME NEW g PROVE Rec(g) <=> Adds(g, f, S)
      OBVIOUS
    <2>1. \A s \in SUBSET S : s # {} => rows[Pick(s)].amount = f[Pick(s)]
      BY Picked
    <2>2. [s \in SUBSET S |-> IF s = {} THEN 0 ELSE rows[Pick(s)].amount + g[s \ {Pick(s)}]]
            = [s \in SUBSET S |-> IF s = {} THEN 0 ELSE f[Pick(s)] + g[s \ {Pick(s)}]]
      <3> HIDE DEF f
      <3> QED BY <2>1
    <2> QED BY <2>2 DEF Adds, Pick
  <1>2. PICK g : Adds(g, f, S) /\ SumFunctionOnSet(f, S) = g[S]
    BY SumAdds
  <1>3. Rec(k)
    <2> HIDE DEF Rec, f
    <2>1. Rec(g)
      BY <1>1, <1>2
    <2> QED BY <2>1
  <1>4. billing!Total(rows, S) = k[S]
    BY DEF billing!Total, billing!MapThenSumSet, billing!MapThenFoldSet
  <1>5. k[S] = g[S]
    <2> HIDE DEF k, f, Rec
    <2>1. Adds(k, f, S)
      BY <1>1, <1>3
    <2> QED BY <1>2, <2>1, AddsSame
  <1> QED BY <1>2, <1>4, <1>5

\* So are the sums over bills in BillsAddUp.
LEMMA BillTotals ==
  ASSUME NEW S, IsFiniteSet(S), NEW field
  PROVE  billing!MapThenSumSet(LAMBDA b : b[field], S) = SumFunctionOnSet([b \in S |-> b[field]], S)
  <1> DEFINE f == [b \in S |-> b[field]]
             Rec(h) == h = [s \in SUBSET S |-> IF s = {} THEN 0
                                ELSE (CHOOSE x \in s : TRUE)[field] + h[s \ {CHOOSE x \in s : TRUE}]]
             k == CHOOSE h : Rec(h)
  <1>1. \A g : Rec(g) <=> Adds(g, f, S)
    <2> SUFFICES ASSUME NEW g PROVE Rec(g) <=> Adds(g, f, S)
      OBVIOUS
    <2>1. \A s \in SUBSET S : s # {} => Pick(s)[field] = f[Pick(s)]
      BY Picked
    <2>2. [s \in SUBSET S |-> IF s = {} THEN 0 ELSE Pick(s)[field] + g[s \ {Pick(s)}]]
            = [s \in SUBSET S |-> IF s = {} THEN 0 ELSE f[Pick(s)] + g[s \ {Pick(s)}]]
      <3> HIDE DEF f
      <3> QED BY <2>1
    <2> QED BY <2>2 DEF Adds, Pick
  <1>2. PICK g : Adds(g, f, S) /\ SumFunctionOnSet(f, S) = g[S]
    BY SumAdds
  <1>3. Rec(k)
    <2> HIDE DEF Rec, f
    <2>1. Rec(g)
      BY <1>1, <1>2
    <2> QED BY <2>1
  <1>4. billing!MapThenSumSet(LAMBDA b : b[field], S) = k[S]
    BY DEF billing!MapThenSumSet, billing!MapThenFoldSet
  <1>5. k[S] = g[S]
    <2> HIDE DEF k, f, Rec
    <2>1. Adds(k, f, S)
      BY <1>1, <1>3
    <2> QED BY <1>2, <2>1, AddsSame
  <1> QED BY <1>2, <1>4, <1>5

\* The days of a cycle are all shown that cycle.
LEMMA OneCycle ==
  ASSUME NEW c \in Setting, NEW d, CalendarDay(d), d.year > 1, NEW x, CalendarDay(x), x.year > 1,
         NotBefore(x, CycleOf(c, d).start), NotBefore(CycleOf(c, d).end, x)
  PROVE  ShownCycle(c, x) = ShownCycle(c, d)
  <1>1. PICK f \in Date : LiesIn(c, d, f)
    BY LiesSomewhere
  <1> DEFINE after == NextStart(c, f)
             end == Yesterday(after)
  <1>2. CycleOf(c, d) = [start |-> ClampDay(c.start, f), end |-> end]
    BY <1>1, CycleIsWhereItLies DEF CycleFrom
  <1>3. CalendarDay(end) /\ Tomorrow(end) = after
    BY <1>1, CycleEnds
  <1>4. NotBefore(x, ClampDay(c.start, f)) /\ NotBefore(end, x)
    <2> HIDE DEF end
    <2> QED BY <1>2
  <1>5. ~NotBefore(x, after)
    <2> HIDE DEF end, after
    <2> QED BY <1>3, <1>4, NothingBetween
  <1>6. LiesIn(c, x, f)
    BY <1>4, <1>5 DEF LiesIn
  <1>7. CycleOf(c, x) = CycleOf(c, d)
    BY <1>1, <1>6, CycleIsWhereItLies
  <1> QED BY <1>7 DEF ShownCycle

\* The first and last day of a cycle are known from themselves alone.
LEMMA CyclesAreWhole ==
  ASSUME NEW c \in Setting, NEW d, CalendarDay(d), d.year > 1
  PROVE  billing!AreCycle(c, CycleOf(c, d).start, CycleOf(c, d).end)
  <1>1. PICK f \in Date : LiesIn(c, d, f)
    BY LiesSomewhere
  <1> DEFINE x == ClampDay(c.start, f)
  <1>2. CycleOf(c, d) = [start |-> x, end |-> Yesterday(NextStart(c, f))]
    BY <1>1, CycleIsWhereItLies DEF CycleFrom
  <1>3. x \in Date /\ MonthNo(x) = MonthNo(f)
    BY Starts
  <1> HIDE DEF x
  <1>4. \A y : ClampDay(y, x) = ClampDay(y, f)
    BY <1>3, SameMonth
  <1>5. NextMonth(x) \in Date /\ NextMonth(f) \in Date /\ MonthNo(NextMonth(x)) = MonthNo(NextMonth(f))
    BY <1>3, NextMonthNo
  <1>6. ClampDay(c.start, NextMonth(x)) = NextStart(c, f)
    BY <1>5, SameMonth DEF NextStart
  <1>7. x = ClampDay(c.start, x)
    BY <1>4 DEF x
  <1> QED BY <1>2, <1>6, <1>7, SameBilling

\* And they are shown as that cycle.
LEMMA WholeIsShown ==
  ASSUME NEW c \in Setting, NEW d, CalendarDay(d), NEW e, billing!AreCycle(c, d, e)
  PROVE  ShownCycle(c, d).start = d /\ ShownCycle(c, d).end = e
  <1>1. d = ClampDay(c.start, d) /\ e = Yesterday(ClampDay(c.start, NextMonth(d)))
    BY SameBilling
  <1>2. NotBefore(d, d)
    BY OrderIsTotal DEF CalendarDay
  <1>3. CycleOf(c, d) = [start |-> d, end |-> e]
    BY <1>1, <1>2 DEF CycleOf
  <1> QED BY <1>3 DEF ShownCycle

-----------------------------------------------------------------------------
(* The inductive invariant of a card: its setting and its rows hold what   *)
(* the requests may have put there.                                        *)

Rows(rows) == {i \in CardIds : rows[i] # Null}

\* A transaction is on one of the dates.
ChargesFit ==
    /\ DOMAIN charges = CardIds
    /\ \A i \in Rows(charges) : charges[i].date \in Dates /\ charges[i].amount \in Int

\* A discount is filed under any day to begin with, and whatever day to end.
DiscountsFit ==
    /\ DOMAIN discounts = CardIds
    /\ \A i \in Rows(discounts) :
          /\ discounts[i].amount \in Nat
          /\ CalendarDay(discounts[i].start) /\ discounts[i].start.year > 1

CardInv ==
    /\ card # Null => card \in Setting
    /\ ChargesFit
    /\ DiscountsFit

\* A total of some rows is a sum of one function on all of them.
LEMMA CardTotalOf ==
  ASSUME NEW S \in SUBSET CardIds, NEW rows
  PROVE  billing!Total(rows, S) = SumFunctionOnSet([i \in CardIds |-> rows[i].amount], S)
  <1>1. IsFiniteSet(S)
    BY CardAssumption, FS_Subset
  <1> DEFINE f == [i \in S |-> rows[i].amount]
             g == [i \in CardIds |-> rows[i].amount]
  <1>2. \A i \in S : f[i] = g[i]
    OBVIOUS
  <1>3. billing!Total(rows, S) = SumFunctionOnSet(f, S)
    BY <1>1, CardTotals
  <1> HIDE DEF f, g
  <1>4. SumFunctionOnSet(f, S) = SumFunctionOnSet(g, S)
    BY <1>1, <1>2, SumSame
  <1> QED BY <1>3, <1>4 DEF g

\* The bill of a cycle: what Summary says of it.
Usage(u, cycle) == billing!Total(charges, billing!Billed(u, cycle))
Discount(cycle) == billing!Total(discounts, billing!FiledUnder(cycle))

BillOf(u, cycle) ==
    [cycle |-> cycle, usage |-> Usage(u, cycle), discount |-> Discount(cycle),
     payment |-> IF Usage(u, cycle) > Discount(cycle) THEN Usage(u, cycle) - Discount(cycle) ELSE 0]

\* Summary is the bill of the cycle that is shown.
LEMMA Bills ==
  ASSUME NEW u, NEW d
  PROVE  billing!Summary(u, d) = BillOf(u, ShownCycle(card, d))
  BY SameBilling DEF billing!Summary, BillOf, Usage, Discount

\* The days BillsAddUp asks a summary for; they are days of the calendar, and finitely many.
Asked == Dates \cup {discounts[i].start : i \in Rows(discounts)}

LEMMA AskedDays ==
  ASSUME CardInv
  PROVE  IsFiniteSet(Asked) /\ \A d \in Asked : CalendarDay(d) /\ d.year > 1
  <1>1. IsFiniteSet(Rows(discounts))
    BY CardAssumption, FS_Subset DEF Rows
  <1>2. IsFiniteSet(Asked)
    <2> DEFINE f == [i \in CardIds |-> discounts[i].start]
    <2>1. IsFiniteSet({f[i] : i \in Rows(discounts)})
      <3> HIDE DEF f
      <3> QED BY <1>1, FiniteImage
    <2>2. {f[i] : i \in Rows(discounts)} = {discounts[i].start : i \in Rows(discounts)}
      BY DEF Rows
    <2> QED BY <2>1, <2>2, CardAssumption, FS_Union DEF Asked
  <1>3. ASSUME NEW d \in Dates PROVE CalendarDay(d) /\ d.year > 1
    BY CardAssumption
  <1>4. ASSUME NEW i \in Rows(discounts)
        PROVE  CalendarDay(discounts[i].start) /\ discounts[i].start.year > 1
    BY DEF CardInv, DiscountsFit
  <1> QED BY <1>2, <1>3, <1>4 DEF Asked

\* A day lies in the cycle it is shown.
LEMMA InItsCycle ==
  ASSUME NEW c \in Setting, NEW d, CalendarDay(d), d.year > 1
  PROVE  /\ NotBefore(d, ShownCycle(c, d).start) /\ NotBefore(ShownCycle(c, d).end, d)
         /\ ShownCycle(c, d).start = CycleOf(c, d).start /\ ShownCycle(c, d).end = CycleOf(c, d).end
         /\ ShownCycle(c, d).payment = PaymentDate(c, ShownCycle(c, d).end)
         /\ ShownCycle(c, d) = [start |-> ShownCycle(c, d).start, end |-> ShownCycle(c, d).end,
                                payment |-> ShownCycle(c, d).payment]
  BY CyclesTileAlways DEF CyclesTileAt, ShownCycle

\* Cycles that share a transaction are one.
LEMMA BilledOnce ==
  ASSUME CardInv, card # Null, NEW u, NEW d \in Asked, NEW e \in Asked, NEW i,
         i \in billing!Billed(u, ShownCycle(card, d)), i \in billing!Billed(u, ShownCycle(card, e))
  PROVE  ShownCycle(card, d) = ShownCycle(card, e)
  <1> DEFINE x == charges[i].date
  <1>1. card \in Setting /\ x \in Dates
    BY DEF CardInv, ChargesFit, Rows, billing!Billed
  <1>2. x \in Asked /\ CalendarDay(x) /\ x.year > 1
    BY <1>1, AskedDays DEF Asked
  <1>3. ASSUME NEW a \in Asked, i \in billing!Billed(u, ShownCycle(card, a))
        PROVE  ShownCycle(card, x) = ShownCycle(card, a)
    <2>1. NotBefore(x, ShownCycle(card, a).start) /\ NotBefore(ShownCycle(card, a).end, x)
      BY <1>3, SameBilling DEF billing!Billed
    <2>2. CalendarDay(a) /\ a.year > 1
      BY AskedDays
    <2>3. NotBefore(x, CycleOf(card, a).start) /\ NotBefore(CycleOf(card, a).end, x)
      BY <1>1, <2>1, <2>2, InItsCycle
    <2> HIDE DEF x
    <2> QED BY <1>1, <1>2, <2>2, <2>3, OneCycle
  <1> QED BY <1>3

\* A transaction is billed in the cycle of its date.
LEMMA BilledSomewhere ==
  ASSUME CardInv, card # Null, NEW u, NEW i \in Rows(charges), charges[i].user = u
  PROVE  charges[i].date \in Asked /\ i \in billing!Billed(u, ShownCycle(card, charges[i].date))
  <1> DEFINE x == charges[i].date
  <1>1. card \in Setting /\ x \in Dates
    BY DEF CardInv, ChargesFit, Rows
  <1>2. x \in Asked /\ CalendarDay(x) /\ x.year > 1
    BY <1>1, AskedDays DEF Asked
  <1>3. NotBefore(x, ShownCycle(card, x).start) /\ NotBefore(ShownCycle(card, x).end, x)
    <2> HIDE DEF x
    <2> QED BY <1>1, <1>2, InItsCycle
  <1> QED BY <1>2, <1>3, SameBilling DEF billing!Billed, Rows

\* So are cycles that share a discount.
LEMMA CountedOnce ==
  ASSUME CardInv, card # Null, NEW d \in Asked, NEW e \in Asked, NEW i,
         i \in billing!FiledUnder(ShownCycle(card, d)), i \in billing!FiledUnder(ShownCycle(card, e))
  PROVE  ShownCycle(card, d) = ShownCycle(card, e)
  <1> DEFINE a == ShownCycle(card, d)   b == ShownCycle(card, e)
  <1>1. a.start = b.start /\ a.end = b.end
    BY DEF billing!FiledUnder
  <1>2. card \in Setting
    BY DEF CardInv
  <1>3. /\ a.payment = PaymentDate(card, a.end)
        /\ a = [start |-> a.start, end |-> a.end, payment |-> a.payment]
    BY <1>2, AskedDays, InItsCycle
  <1>4. /\ b.payment = PaymentDate(card, b.end)
        /\ b = [start |-> b.start, end |-> b.end, payment |-> b.payment]
    BY <1>2, AskedDays, InItsCycle
  <1> HIDE DEF a, b
  <1>5. a = b
    BY <1>1, <1>3, <1>4
  <1> QED BY <1>5 DEF a, b

\* The discounts whose days are those of a whole cycle by the setting of the card.
FiledNow == {i \in Rows(discounts) : billing!AreCycle(card, discounts[i].start, discounts[i].end)}

\* They are found in the cycle of their first day, and no cycle has another.
LEMMA CountedSomewhere ==
  ASSUME CardInv, card # Null, NEW i \in FiledNow
  PROVE  /\ discounts[i].start \in Asked
         /\ i \in billing!FiledUnder(ShownCycle(card, discounts[i].start))
  <1> DEFINE x == discounts[i].start
  <1>1. card \in Setting /\ i \in Rows(discounts) /\ billing!AreCycle(card, x, discounts[i].end)
    BY DEF CardInv, FiledNow
  <1>2. x \in Asked
    BY <1>1 DEF Asked
  <1>3. CalendarDay(x)
    BY <1>2, AskedDays
  <1> HIDE DEF x
  <1>4. ShownCycle(card, x).start = x /\ ShownCycle(card, x).end = discounts[i].end
    BY <1>1, <1>3, WholeIsShown
  <1>5. i \in billing!FiledUnder(ShownCycle(card, x))
    BY <1>1, <1>4 DEF billing!FiledUnder, Rows, x
  <1> QED BY <1>2, <1>5 DEF x

LEMMA CountedAreKept ==
  ASSUME CardInv, card # Null, NEW d \in Asked, NEW i \in billing!FiledUnder(ShownCycle(card, d))
  PROVE  i \in FiledNow
  <1>1. card \in Setting /\ CalendarDay(d) /\ d.year > 1
    BY AskedDays DEF CardInv
  <1>2. i \in Rows(discounts) /\ discounts[i].start = CycleOf(card, d).start
        /\ discounts[i].end = CycleOf(card, d).end
    BY <1>1, InItsCycle DEF billing!FiledUnder, Rows
  <1>3. billing!AreCycle(card, discounts[i].start, discounts[i].end)
    BY <1>1, <1>2, CyclesAreWhole
  <1> QED BY <1>2, <1>3 DEF FiledNow

\* The bills of a user, one for each cycle asked for, and the sum of one of their fields.
BillsOf(u) == {BillOf(u, ShownCycle(card, d)) : d \in Asked}
Over(u, field) == SumFunctionOnSet([b \in BillsOf(u) |-> b[field]], BillsOf(u))

\* There are finitely many of them, so that they can be added up.
LEMMA FiniteBills ==
  ASSUME CardInv, NEW u
  PROVE  IsFiniteSet(BillsOf(u))
  <1> DEFINE f == [d \in Asked |-> BillOf(u, ShownCycle(card, d))]
  <1>1. IsFiniteSet({f[d] : d \in Asked})
    <2> HIDE DEF f
    <2> QED BY AskedDays, FiniteImage
  <1>2. {f[d] : d \in Asked} = BillsOf(u)
    BY DEF BillsOf
  <1> QED BY <1>1, <1>2

\* The cycles cut the transactions of the user into parts, so that what they bill adds up
\* to all of them.
LEMMA UsageOver ==
  ASSUME CardInv, card # Null, NEW u
  PROVE  Over(u, "usage") = billing!Total(charges, {i \in Rows(charges) : charges[i].user = u})
  <1> DEFINE B == BillsOf(u)
             S == {i \in Rows(charges) : charges[i].user = u}
             P == [b \in B |-> billing!Billed(u, b.cycle)]
             f == [i \in CardIds |-> charges[i].amount]
             g == [b \in B |-> SumFunctionOnSet(f, P[b])]
  <1>1. IsFiniteSet(B)
    BY FiniteBills
  <1>2. ASSUME NEW b \in B
        PROVE  \E d \in Asked : b.cycle = ShownCycle(card, d) /\ b = BillOf(u, b.cycle)
    BY DEF BillsOf, BillOf
  <1>3. ASSUME NEW cycle PROVE billing!Billed(u, cycle) \in SUBSET S
    BY DEF billing!Billed, Rows
  <1>4. S \in SUBSET CardIds /\ IsFiniteSet(S)
    BY CardAssumption, FS_Subset DEF Rows
  <1>5. \A x \in S : f[x] \in Int
    BY DEF CardInv, ChargesFit, Rows
  <1>6. ASSUME NEW b \in B PROVE b["usage"] = g[b]
    <2>1. b["usage"] = billing!Total(charges, billing!Billed(u, b.cycle))
      <3>1. b = BillOf(u, b.cycle)
        BY <1>2
      <3>2. BillOf(u, b.cycle)["usage"] = Usage(u, b.cycle)
        BY DEF BillOf
      <3> QED BY <3>1, <3>2 DEF Usage
    <2>2. billing!Billed(u, b.cycle) \in SUBSET CardIds
      BY DEF billing!Billed
    <2>3. billing!Total(charges, billing!Billed(u, b.cycle))
            = SumFunctionOnSet(f, billing!Billed(u, b.cycle))
      BY <2>2, CardTotalOf
    <2> HIDE DEF f, B
    <2> QED BY <2>1, <2>3
  <1>7. \A b \in B, c \in B : b # c => P[b] \cap P[c] = {}
    <2> SUFFICES ASSUME NEW b \in B, NEW c \in B, NEW i, i \in P[b], i \in P[c] PROVE b = c
      OBVIOUS
    <2>1. PICK d \in Asked : b.cycle = ShownCycle(card, d)
      BY <1>2
    <2>2. PICK e \in Asked : c.cycle = ShownCycle(card, e)
      BY <1>2
    <2>3. i \in billing!Billed(u, b.cycle) /\ i \in billing!Billed(u, c.cycle)
      OBVIOUS
    <2>4. b.cycle = c.cycle
      BY <2>1, <2>2, <2>3, BilledOnce
    <2> HIDE DEF B, P
    <2> QED BY <1>2, <2>4
  <1>8. UNION {P[b] : b \in B} = S
    <2>1. ASSUME NEW i \in S PROVE \E b \in B : i \in P[b]
      <3>1. /\ charges[i].date \in Asked
            /\ i \in billing!Billed(u, ShownCycle(card, charges[i].date))
        BY BilledSomewhere
      <3> DEFINE b == BillOf(u, ShownCycle(card, charges[i].date))
      <3>2. b \in B /\ b.cycle = ShownCycle(card, charges[i].date)
        BY <3>1 DEF BillsOf, BillOf
      <3> HIDE DEF b, B
      <3> QED BY <3>1, <3>2
    <2>2. \A b \in B : P[b] \in SUBSET S
      BY <1>3
    <2> HIDE DEF B, P, S
    <2> QED BY <2>1, <2>2
  <1>9. P \in [B -> SUBSET S]
    BY <1>3
  <1>10. SumFunctionOnSet(g, B) = SumFunctionOnSet(f, S)
    <2> HIDE DEF B, S, P, f
    <2>1. SumFunctionOnSet(g, B) = SumFunctionOnSet(f, UNION {P[b] : b \in B})
      BY <1>1, <1>4, <1>5, <1>7, <1>9, SumOfParts
    <2> QED BY <1>8, <2>1
  <1>11. Over(u, "usage") = SumFunctionOnSet(g, B)
    <2> DEFINE h == [b \in B |-> b["usage"]]
    <2>1. \A b \in B : h[b] = g[b]
      BY <1>6
    <2> HIDE DEF h, g
    <2>2. SumFunctionOnSet(h, B) = SumFunctionOnSet(g, B)
      BY <1>1, <2>1, SumSame
    <2> QED BY <2>2 DEF Over, h
  <1>12. billing!Total(charges, S) = SumFunctionOnSet(f, S)
    BY <1>4, CardTotalOf
  <1> QED BY <1>10, <1>11, <1>12

\* The cycles cut the discounts that are kept into parts.
LEMMA DiscountOver ==
  ASSUME CardInv, card # Null, NEW u
  PROVE  /\ UNION {billing!FiledUnder(b.cycle) : b \in BillsOf(u)} = FiledNow
         /\ Over(u, "discount") = billing!Total(discounts, FiledNow)
  <1> DEFINE B == BillsOf(u)
             S == FiledNow
             P == [b \in B |-> billing!FiledUnder(b.cycle)]
             f == [i \in CardIds |-> discounts[i].amount]
             g == [b \in B |-> SumFunctionOnSet(f, P[b])]
  <1>1. IsFiniteSet(B)
    BY FiniteBills
  <1>2. ASSUME NEW b \in B
        PROVE  \E d \in Asked : b.cycle = ShownCycle(card, d) /\ b = BillOf(u, b.cycle)
    BY DEF BillsOf, BillOf
  <1>3. ASSUME NEW b \in B PROVE billing!FiledUnder(b.cycle) \in SUBSET S
    <2>1. PICK d \in Asked : b.cycle = ShownCycle(card, d)
      BY <1>2
    <2> QED BY <2>1, CountedAreKept
  <1>4. S \in SUBSET CardIds /\ S \in SUBSET Rows(discounts) /\ IsFiniteSet(S)
    BY CardAssumption, FS_Subset DEF Rows, FiledNow
  <1>5. \A x \in S : f[x] \in Int
    <2>1. \A x \in Rows(discounts) : discounts[x].amount \in Nat
      BY DEF CardInv, DiscountsFit
    <2>2. \A x \in S : f[x] = discounts[x].amount
      BY <1>4
    <2> HIDE DEF f, S
    <2> QED BY <1>4, <2>1, <2>2
  <1>6. ASSUME NEW b \in B PROVE b["discount"] = g[b]
    <2>1. b["discount"] = billing!Total(discounts, billing!FiledUnder(b.cycle))
      <3>1. b = BillOf(u, b.cycle)
        BY <1>2
      <3>2. BillOf(u, b.cycle)["discount"] = Discount(b.cycle)
        BY DEF BillOf
      <3> QED BY <3>1, <3>2 DEF Discount
    <2>2. billing!FiledUnder(b.cycle) \in SUBSET CardIds
      BY DEF billing!FiledUnder
    <2>3. billing!Total(discounts, billing!FiledUnder(b.cycle))
            = SumFunctionOnSet(f, billing!FiledUnder(b.cycle))
      BY <2>2, CardTotalOf
    <2> HIDE DEF f, B
    <2> QED BY <2>1, <2>3
  <1>7. \A b \in B, c \in B : b # c => P[b] \cap P[c] = {}
    <2> SUFFICES ASSUME NEW b \in B, NEW c \in B, NEW i, i \in P[b], i \in P[c] PROVE b = c
      OBVIOUS
    <2>1. PICK d \in Asked : b.cycle = ShownCycle(card, d)
      BY <1>2
    <2>2. PICK e \in Asked : c.cycle = ShownCycle(card, e)
      BY <1>2
    <2>3. i \in billing!FiledUnder(b.cycle) /\ i \in billing!FiledUnder(c.cycle)
      OBVIOUS
    <2>4. b.cycle = c.cycle
      BY <2>1, <2>2, <2>3, CountedOnce
    <2> HIDE DEF B, P
    <2> QED BY <1>2, <2>4
  <1>8. UNION {P[b] : b \in B} = S
    <2>1. ASSUME NEW i \in S PROVE \E b \in B : i \in P[b]
      <3>1. /\ discounts[i].start \in Asked
            /\ i \in billing!FiledUnder(ShownCycle(card, discounts[i].start))
        BY CountedSomewhere
      <3> DEFINE b == BillOf(u, ShownCycle(card, discounts[i].start))
      <3>2. b \in B /\ b.cycle = ShownCycle(card, discounts[i].start)
        BY <3>1 DEF BillsOf, BillOf
      <3> HIDE DEF b, B
      <3> QED BY <3>1, <3>2
    <2>2. \A b \in B : P[b] \in SUBSET S
      BY <1>3
    <2> HIDE DEF B, P, S
    <2> QED BY <2>1, <2>2
  <1>9. P \in [B -> SUBSET S]
    BY <1>3
  <1>10. UNION {billing!FiledUnder(b.cycle) : b \in B} = S
    <2>1. {billing!FiledUnder(b.cycle) : b \in B} = {P[b] : b \in B}
      <3> HIDE DEF B
      <3> QED OBVIOUS
    <2> HIDE DEF B, P, S
    <2> QED BY <1>8, <2>1
  <1>11. SumFunctionOnSet(g, B) = SumFunctionOnSet(f, S)
    <2> HIDE DEF B, S, P, f
    <2>1. SumFunctionOnSet(g, B) = SumFunctionOnSet(f, UNION {P[b] : b \in B})
      BY <1>1, <1>4, <1>5, <1>7, <1>9, SumOfParts
    <2> QED BY <1>8, <2>1
  <1>12. Over(u, "discount") = SumFunctionOnSet(g, B)
    <2> DEFINE h == [b \in B |-> b["discount"]]
    <2>1. \A b \in B : h[b] = g[b]
      BY <1>6
    <2> HIDE DEF h, g
    <2>2. SumFunctionOnSet(h, B) = SumFunctionOnSet(g, B)
      BY <1>1, <2>1, SumSame
    <2> QED BY <2>2 DEF Over, h
  <1>13. billing!Total(discounts, S) = SumFunctionOnSet(f, S)
    BY <1>4, CardTotalOf
  <1> HIDE DEF g, f, P
  <1> QED BY <1>10, <1>11, <1>12, <1>13

\* Bill by bill, what is to be paid is no less than the usage without the discount.
LEMMA PaymentOver ==
  ASSUME CardInv, card # Null, NEW u
  PROVE  Over(u, "payment") >= Over(u, "usage") - Over(u, "discount")
  <1> DEFINE B == BillsOf(u)
             p == [b \in B |-> b["payment"]]
             q == [b \in B |-> b["usage"]]
             d == [b \in B |-> b["discount"]]
  <1>1. IsFiniteSet(B)
    BY FiniteBills
  <1>2. ASSUME NEW cycle PROVE Usage(u, cycle) \in Int /\ Discount(cycle) \in Int
    <2>1. ASSUME NEW rows, NEW S \in SUBSET CardIds, \A i \in S : rows[i].amount \in Int
          PROVE  billing!Total(rows, S) \in Int
      <3> DEFINE f == [i \in CardIds |-> rows[i].amount]
      <3>1. billing!Total(rows, S) = SumFunctionOnSet(f, S)
        BY CardTotalOf
      <3>2. IsFiniteSet(S) /\ \A i \in S : f[i] \in Int
        BY <2>1, CardAssumption, FS_Subset
      <3> HIDE DEF f
      <3>3. SumFunctionOnSet(f, S) \in Int
        BY <3>2, SumByElement
      <3> QED BY <3>1, <3>3
    <2>2. /\ billing!Billed(u, cycle) \in SUBSET CardIds
          /\ \A i \in billing!Billed(u, cycle) : charges[i].amount \in Int
      BY DEF billing!Billed, CardInv, ChargesFit, Rows
    <2>3. /\ billing!FiledUnder(cycle) \in SUBSET CardIds
          /\ \A i \in billing!FiledUnder(cycle) : discounts[i].amount \in Int
      <3>1. \A i \in Rows(discounts) : discounts[i].amount \in Int
        <4>1. \A i \in Rows(discounts) : discounts[i].amount \in Nat
          BY DEF CardInv, DiscountsFit
        <4> QED BY <4>1
      <3> QED BY <3>1 DEF billing!FiledUnder, Rows
    <2> QED BY <2>1, <2>2, <2>3 DEF Usage, Discount
  <1>3. ASSUME NEW b \in B
        PROVE  p[b] \in Int /\ q[b] \in Int /\ d[b] \in Int /\ p[b] >= q[b] - d[b]
    <2>1. PICK a \in Asked : b = BillOf(u, ShownCycle(card, a))
      BY DEF BillsOf
    <2> DEFINE x == Usage(u, ShownCycle(card, a))   y == Discount(ShownCycle(card, a))
    <2>2. x \in Int /\ y \in Int
      BY <1>2
    <2>3. p[b] = (IF x > y THEN x - y ELSE 0) /\ q[b] = x /\ d[b] = y
      <3>1. p[b] = b["payment"] /\ q[b] = b["usage"] /\ d[b] = b["discount"]
        OBVIOUS
      <3> HIDE DEF p, q, d
      <3> QED BY <2>1, <3>1 DEF BillOf
    <2> HIDE DEF x, y, p, q, d
    <2> QED BY <2>2, <2>3
  <1>4. SumFunctionOnSet(p, B) >= SumFunctionOnSet(q, B) - SumFunctionOnSet(d, B)
    <2> HIDE DEF p, q, d, B
    <2> QED BY <1>1, <1>3, SumCompare
  <1> QED BY <1>4 DEF Over

\* The invariant is enough.
LEMMA CardAddsUp == CardInv => billing!BillsAddUp
  <1> SUFFICES ASSUME CardInv, card # Null, NEW u \in holders
               PROVE  LET asked == Dates \cup {discounts[i].start : i \in {i \in CardIds : discounts[i] # Null}}
                          bills == {billing!Summary(u, d) : d \in asked}
                          sum(field) == billing!MapThenSumSet(LAMBDA b : b[field], bills)
                          mine == {i \in CardIds : charges[i] # Null /\ charges[i].user = u}
                          kept == {i \in {i \in CardIds : discounts[i] # Null} :
                                      billing!AreCycle(card, discounts[i].start, discounts[i].end)}
                      IN  /\ sum("usage") = billing!Total(charges, mine)
                          /\ UNION {billing!FiledUnder(b.cycle) : b \in bills} = kept
                          /\ sum("discount") = billing!Total(discounts, kept)
                          /\ sum("payment") >= sum("usage") - sum("discount")
    BY DEF billing!BillsAddUp
  <1>1. {billing!Summary(u, d) : d \in Asked} = BillsOf(u)
    BY Bills DEF BillsOf
  <1>2. ASSUME NEW field
        PROVE  billing!MapThenSumSet(LAMBDA b : b[field], BillsOf(u)) = Over(u, field)
    BY FiniteBills, BillTotals DEF Over
  <1>3. {i \in CardIds : discounts[i] # Null} = Rows(discounts)
    BY DEF Rows
  <1>4. {i \in Rows(charges) : charges[i].user = u}
          = {i \in CardIds : charges[i] # Null /\ charges[i].user = u}
    BY DEF Rows
  <1>5. Over(u, "usage")
          = billing!Total(charges, {i \in CardIds : charges[i] # Null /\ charges[i].user = u})
    BY <1>4, UsageOver
  <1> QED BY <1>1, <1>2, <1>3, <1>5, DiscountOver, PaymentOver DEF Asked, FiledNow

\* ChargesFit and DiscountsFit, row by row, before a step and after it.
Filed(h) == h.amount \in Nat /\ CalendarDay(h.start) /\ h.start.year > 1

Entered(c) == c.date \in Dates /\ c.amount \in Int

LEMMA FitsFiled ==
  /\ ChargesFit <=> DOMAIN charges = CardIds /\ \A i \in CardIds : charges[i] = Null \/ Entered(charges[i])
  /\ DiscountsFit
       <=> DOMAIN discounts = CardIds /\ \A i \in CardIds : discounts[i] = Null \/ Filed(discounts[i])
  <1>1. ChargesFit <=> DOMAIN charges = CardIds /\ \A i \in CardIds : charges[i] = Null \/ Entered(charges[i])
    BY DEF ChargesFit, Rows, Entered
  <1>2. ASSUME NEW i \in CardIds
        PROVE  i \in Rows(discounts) <=> discounts[i] # Null
    BY DEF Rows
  <1>3. DiscountsFit
          <=> DOMAIN discounts = CardIds /\ \A i \in Rows(discounts) : Filed(discounts[i])
    BY DEF DiscountsFit, Filed
  <1>4. Rows(discounts) \subseteq CardIds
    BY DEF Rows
  <1> QED BY <1>1, <1>2, <1>3, <1>4

LEMMA FitsFiledNext ==
  /\ ChargesFit' <=> DOMAIN charges' = CardIds /\ \A i \in CardIds : charges'[i] = Null \/ Entered(charges'[i])
  /\ DiscountsFit'
       <=> DOMAIN discounts' = CardIds /\ \A i \in CardIds : discounts'[i] = Null \/ Filed(discounts'[i])
  <1>1. ChargesFit' <=> DOMAIN charges' = CardIds /\ \A i \in CardIds : charges'[i] = Null \/ Entered(charges'[i])
    BY DEF ChargesFit, Rows, Entered
  <1>2. ASSUME NEW i \in CardIds
        PROVE  i \in Rows(discounts') <=> discounts'[i] # Null
    BY DEF Rows
  <1>3. DiscountsFit'
          <=> DOMAIN discounts' = CardIds /\ \A i \in Rows(discounts') : Filed(discounts'[i])
    BY DEF DiscountsFit, Filed
  <1>4. Rows(discounts') \subseteq CardIds
    BY DEF Rows
  <1> QED BY <1>1, <1>2, <1>3, <1>4

\* The invariant holds when a card is new, and every request keeps it.
LEMMA CardBegins == Init => CardInv
  <1> SUFFICES ASSUME Init PROVE CardInv
    OBVIOUS
  <1>1. card = Null /\ charges = [i \in CardIds |-> Null]
        /\ discounts = [i \in CardIds |-> Null]
    BY DEF Init, billing!Init
  <1> QED BY <1>1, FitsFiled DEF CardInv

LEMMA CardStays == CardInv /\ billing!Next => CardInv'
  <1> SUFFICES ASSUME CardInv, billing!Next PROVE CardInv'
    OBVIOUS
  <1>0. /\ DOMAIN charges = CardIds /\ \A i \in CardIds : charges[i] = Null \/ Entered(charges[i])
        /\ DOMAIN discounts = CardIds /\ \A i \in CardIds : discounts[i] = Null \/ Filed(discounts[i])
        /\ card # Null => card \in Setting
    BY FitsFiled DEF CardInv
  <1>1. CASE \E u \in Holders, payment \in Days, start \in Days \cup {Null} :
                 billing!UpdateConfig(u, payment, start)
    <2> PICK u \in Holders, payment \in Days, start \in Days \cup {Null} :
                 billing!UpdateConfig(u, payment, start)
      BY <1>1
    <2> DEFINE day == IF start = Null THEN DefaultStart(payment) ELSE start
    <2>1. /\ card' = [payment |-> payment, start |-> day]
          /\ charges' = charges /\ discounts' = discounts
      BY SameBilling DEF billing!UpdateConfig
    <2>2. payment \in 1 .. 31 /\ (start # Null => start \in 1 .. 31)
      BY CardAssumption
    <2>3. DefaultStart(payment) \in 1 .. 31
      BY <2>2 DEF DefaultStart
    <2>4. day \in 1 .. 31
      BY <2>2, <2>3
    <2> HIDE DEF day
    <2>5. card' \in Setting
      BY <2>1, <2>2, <2>4 DEF Setting
    <2> QED BY <1>0, <2>1, <2>5, FitsFiledNext DEF CardInv
  <1>2. CASE \E u \in Holders, d \in Dates, amount \in Amounts : billing!Charge(u, d, amount)
    <2> PICK u \in Holders, d \in Dates, amount \in Amounts : billing!Charge(u, d, amount)
      BY <1>2
    <2>1. PICK j \in CardIds :
              charges' = [charges EXCEPT ![j] = [user |-> u, date |-> d, amount |-> amount]]
      BY DEF billing!Charge, billing!Unused
    <2>2. discounts' = discounts /\ card' = card
      BY DEF billing!Charge
    <2>3. Entered([user |-> u, date |-> d, amount |-> amount])
      BY CardAssumption DEF Entered
    <2>4. DOMAIN charges' = CardIds /\ \A i \in CardIds : charges'[i] = Null \/ Entered(charges'[i])
      BY <1>0, <2>1, <2>3
    <2> QED BY <1>0, <2>2, <2>4, FitsFiledNext DEF CardInv
  <1>3. CASE \E u \in Holders, filing \in Filings, amount \in Discounts :
                 billing!CreateDiscount(u, filing, amount)
    <2> PICK u \in Holders, filing \in Filings, amount \in Discounts :
                 billing!CreateDiscount(u, filing, amount)
      BY <1>3
    <2> DEFINE h == [user |-> u, amount |-> amount, start |-> filing.start, end |-> filing.end]
    <2>1. PICK j \in CardIds : discounts' = [discounts EXCEPT ![j] = h]
      BY DEF billing!CreateDiscount, billing!Unused
    <2>2. charges' = charges /\ card' = card
      BY DEF billing!CreateDiscount
    <2>3. Filed(h)
      <3>1. h.amount = amount /\ h.start = filing.start
        OBVIOUS
      <3>2. amount \in Nat /\ CalendarDay(filing.start) /\ filing.start.year > 1
        BY CardAssumption
      <3> HIDE DEF h
      <3> QED BY <3>1, <3>2 DEF Filed
    <2> HIDE DEF h
    <2>4. DOMAIN discounts' = CardIds /\ \A i \in CardIds : discounts'[i] = Null \/ Filed(discounts'[i])
      BY <1>0, <2>1, <2>3
    <2> QED BY <1>0, <2>2, <2>4, FitsFiledNext DEF CardInv
  <1>4. CASE \E u \in Holders, j \in CardIds : billing!DeleteDiscount(u, j)
    <2> PICK u \in Holders, j \in CardIds : billing!DeleteDiscount(u, j)
      BY <1>4
    <2>1. discounts' = [discounts EXCEPT ![j] = Null] /\ charges' = charges /\ card' = card
         
      BY DEF billing!DeleteDiscount
    <2>2. DOMAIN discounts' = CardIds /\ \A i \in CardIds : discounts'[i] = Null \/ Filed(discounts'[i])
      BY <1>0, <2>1
    <2> QED BY <1>0, <2>1, <2>2, FitsFiledNext DEF CardInv
  <1>5. CASE \E u \in Holders, j \in CardIds, amount \in Discounts :
                 billing!UpdateDiscount(u, j, amount)
    <2> PICK u \in Holders, j \in CardIds, amount \in Discounts : billing!UpdateDiscount(u, j, amount)
      BY <1>5
    <2> DEFINE h == [discounts[j] EXCEPT !.amount = amount]
    <2>1. discounts[j] # Null /\ discounts' = [discounts EXCEPT ![j] = h] /\ charges' = charges
          /\ card' = card
      BY DEF billing!UpdateDiscount
    <2>2. Filed(h)
      <3> DEFINE o == discounts[j]
      <3>1. Filed(o) /\ amount \in Nat
        BY <1>0, <2>1, CardAssumption
      <3>2. "amount" \in DOMAIN o => h.amount = amount
        OBVIOUS
      <3>3. h.start = o.start
        OBVIOUS
      <3> QED BY <3>1, <3>2, <3>3 DEF Filed
    <2> HIDE DEF h
    <2>3. DOMAIN discounts' = CardIds /\ \A i \in CardIds : discounts'[i] = Null \/ Filed(discounts'[i])
      BY <1>0, <2>1, <2>2
    <2> QED BY <1>0, <2>1, <2>3, FitsFiledNext DEF CardInv
  <1>6. CASE \E u \in Holders : billing!Join(u) \/ billing!Leave(u)
    <2>1. charges' = charges /\ discounts' = discounts /\ card' = card
      BY <1>6 DEF billing!Join, billing!Leave
    <2> QED BY <1>0, <2>1, FitsFiledNext DEF CardInv
  <1> QED BY <1>1, <1>2, <1>3, <1>4, <1>5, <1>6 DEF billing!Next

\* Over the cycles of a card the bills of a user count every transaction of the user once;
\* they count once each discount filed under the days of a whole cycle by the setting the
\* card has now, and no other; and they ask for no less than was used without what was
\* discounted: whatever setting follows which, whatever days clients file discounts under
\* (create_discount compares them with nothing), whoever shares the card and for any number
\* of rows, dates and amounts.
THEOREM BillsAlwaysAddUp == Spec => []BillsAddUp
  <1>1. CardInv /\ [Next]_vars => CardInv'
    <2> SUFFICES ASSUME CardInv, [Next]_vars PROVE CardInv'
      OBVIOUS
    <2>1. CASE UNCHANGED cardVars
      BY <2>1 DEF cardVars, CardInv, ChargesFit, DiscountsFit, Rows
    <2>2. CASE billing!Next
      BY <2>2, CardStays
    <2> QED BY <2>1, <2>2 DEF Next, vars
  <1>2. CardInv => BillsAddUp
    BY CardAddsUp DEF BillsAddUp
  <1> QED BY CardBegins, <1>1, <1>2, PTL DEF Spec

-----------------------------------------------------------------------------
(* The books of a family: what the views compute with queries of their own *)
(* are sums over the same transactions.                                    *)

\* The calendar of Household is that of BillingDates.
LEMMA SameBooks ==
  /\ \A d, e : books!NotBefore(d, e) <=> NotBefore(d, e)
  /\ \A y, m : books!LastDay(y, m) = LastDay(y, m)
  /\ \A d, k : books!Plus(d, k) = Plus(d, k)
  /\ \A d : books!Weekday(d) = Weekday(d)
  /\ \A d : books!Yesterday(d) = Yesterday(d)
  <1>1. \A y, m : books!LastDay(y, m) = LastDay(y, m)
    BY DEF books!LastDay, books!IsLeap, LastDay, IsLeap
  <1>2. /\ \A d, e : books!NotBefore(d, e) <=> NotBefore(d, e)
        /\ \A d : books!NextMonth(d) = NextMonth(d)
    BY DEF books!NotBefore, NotBefore, books!NextMonth, NextMonth
  <1>3. \A d, k : books!Plus(d, k) = Plus(d, k)
    BY <1>1, <1>2 DEF books!Plus, Plus
  <1>4. \A d : books!Yesterday(d) = Yesterday(d)
    BY <1>1 DEF books!Yesterday, Yesterday
  <1>5. \A d : books!Ordinal(d) = Ordinal(d)
    BY DEF books!Ordinal, Ordinal, books!DaysBeforeMonth, DaysBeforeMonth, books!IsLeap, IsLeap
  <1>6. \A d : books!Weekday(d) = Weekday(d)
    BY <1>5 DEF books!Weekday, Weekday
  <1> QED BY <1>1, <1>2, <1>3, <1>4, <1>6

-----------------------------------------------------------------------------
(* The inductive invariant of the books.                                   *)

Recorded == {i \in Ids : entries[i] # Null}

BookInv ==
    /\ DOMAIN entries = Ids /\ DOMAIN budgets = Ids
    /\ \A i \in Ids : entries[i] = Null \/ entries[i].of \in Kinds
    /\ \A i \in Ids : budgets[i] = Null \/ budgets[i].of.amount \in Int
    /\ IsFiniteSet(members)

LEMMA BooksBegin == Init => BookInv
  BY FS_EmptySet DEF Init, books!Init, BookInv

LEMMA BooksStep == BookInv /\ books!Next => BookInv'
  <1> SUFFICES ASSUME BookInv, books!Next PROVE BookInv'
    OBVIOUS
  <1>1. CASE \E u \in Users, kind \in Kinds : books!Record(u, kind)
    <2> PICK u \in Users, kind \in Kinds : books!Record(u, kind)
      BY <1>1
    <2> DEFINE e == [user |-> u, tagged |-> u \in members, of |-> kind]
    <2>1. PICK j \in Ids : entries' = [entries EXCEPT ![j] = e]
      BY DEF books!Record, books!Unused
    <2>2. e.of \in Kinds
      OBVIOUS
    <2>3. budgets' = budgets /\ members' = members
      BY DEF books!Record
    <2> HIDE DEF e
    <2> QED BY <2>1, <2>2, <2>3 DEF BookInv
  <1>2. CASE \E j \in Ids : books!Erase(j)
    BY <1>2 DEF books!Erase, BookInv
  <1>3. CASE \E u \in Users, plan \in Plans : books!CreateBudget(u, plan)
    <2> PICK u \in Users, plan \in Plans : books!CreateBudget(u, plan)
      BY <1>3
    <2> DEFINE b == [user |-> u, of |-> plan]
    <2>1. PICK j \in Ids : budgets' = [budgets EXCEPT ![j] = b]
      BY DEF books!CreateBudget, books!Unused
    <2>2. b.of.amount \in Int
      BY BookAssumption
    <2>3. entries' = entries /\ members' = members
      BY DEF books!CreateBudget
    <2> HIDE DEF b
    <2> QED BY <2>1, <2>2, <2>3 DEF BookInv
  <1>4. CASE \E u \in Users, plan \in Plans, j \in Ids : books!UpdateBudget(u, j, plan)
    <2> PICK u \in Users, plan \in Plans, j \in Ids : books!UpdateBudget(u, j, plan)
      BY <1>4
    <2> DEFINE b == [[budgets[j] EXCEPT !.of.category = plan.category] EXCEPT !.of.amount = plan.amount]
    <2>1. /\ budgets[j] # Null /\ budgets' = [budgets EXCEPT ![j] = b]
          /\ entries' = entries /\ members' = members
      BY DEF books!UpdateBudget, BookInv
    <2>2. b.of.amount \in Int
      <3> DEFINE o == budgets[j].of
                 c == [o EXCEPT !.category = plan.category]
                 d == [c EXCEPT !.amount = plan.amount]
      <3>1. o.amount \in Int /\ plan.amount \in Int
        BY <2>1, BookAssumption DEF BookInv
      <3>2. c.amount = o.amount
        OBVIOUS
      <3>3. d.amount \in Int
        BY <3>1, <3>2
      <3>4. b.of = d \/ b.of = o
        OBVIOUS
      <3> QED BY <3>1, <3>3, <3>4
    <2> HIDE DEF b
    <2> QED BY <2>1, <2>2 DEF BookInv
  <1>5. CASE \E u \in Users, j \in Ids : books!DeleteBudget(u, j)
    BY <1>5 DEF books!DeleteBudget, BookInv
  <1>6. CASE \E u \in Users : books!Join(u) \/ books!Leave(u)
    BY <1>6, FS_AddElement, FS_RemoveElement DEF books!Join, books!Leave, BookInv
  <1> QED BY <1>1, <1>2, <1>3, <1>4, <1>5, <1>6 DEF books!Next

\* What is known of a transaction on record.
LEMMA RecordedFields ==
  ASSUME BookInv, NEW i \in Recorded
  PROVE  /\ i \in Ids /\ CalendarDay(entries[i].of.date) /\ entries[i].of.date.year > 1
         /\ entries[i].of.date.year \in Nat /\ entries[i].of.date.month \in 1 .. 12
         /\ entries[i].of.date.day \in 1 .. 31
         /\ entries[i].of.date.day <= LastDay(entries[i].of.date.year, entries[i].of.date.month)
         /\ entries[i].of.amount \in Int
         /\ entries[i].of.category # Null /\ entries[i].of.area # Null
  <1> DEFINE k == entries[i].of
  <1>1. i \in Ids /\ k \in Kinds
    BY DEF BookInv, Recorded
  <1>2. CalendarDay(k.date) /\ k.date.year > 1 /\ k.amount \in Int /\ k.category # Null /\ k.area # Null
    BY <1>1, BookAssumption
  <1>3. k.date.year \in Nat /\ k.date.month \in 1 .. 12 /\ k.date.day \in 1 .. 31
        /\ k.date.day <= LastDay(k.date.year, k.date.month)
    <2> DEFINE d == k.date
    <2>1. CalendarDay(d)
      BY <1>2
    <2> HIDE DEF d, k
    <2>2. d.year \in Nat /\ d.month \in 1 .. 12 /\ d.day \in 1 .. 31
      BY <2>1, DayFields
    <2>3. d.day <= LastDay(d.year, d.month)
      BY <2>1 DEF CalendarDay
    <2> QED BY <2>2, <2>3 DEF d
  <1> QED BY <1>1, <1>2, <1>3

-----------------------------------------------------------------------------
(* Sums of the views.                                                      *)

Amount == [i \in Ids |-> entries[i].of.amount]

\* The totals of Household are sums of the amounts.
LEMMA EntryTotals ==
  ASSUME NEW S \in SUBSET Ids
  PROVE  books!Total(S) = SumFunctionOnSet(Amount, S)
  <1>0. IsFiniteSet(S)
    BY BookAssumption, FS_Subset
  <1> DEFINE f == [i \in S |-> entries[i].of.amount]
             Rec(h) == h = [s \in SUBSET S |-> IF s = {} THEN 0
                                ELSE entries[CHOOSE x \in s : TRUE].of.amount + h[s \ {CHOOSE x \in s : TRUE}]]
             k == CHOOSE h : Rec(h)
  <1>1. \A g : Rec(g) <=> Adds(g, f, S)
    <2> SUFFICES ASSUME NEW g PROVE Rec(g) <=> Adds(g, f, S)
      OBVIOUS
    <2>1. \A s \in SUBSET S : s # {} => entries[Pick(s)].of.amount = f[Pick(s)]
      BY Picked
    <2>2. [s \in SUBSET S |-> IF s = {} THEN 0 ELSE entries[Pick(s)].of.amount + g[s \ {Pick(s)}]]
            = [s \in SUBSET S |-> IF s = {} THEN 0 ELSE f[Pick(s)] + g[s \ {Pick(s)}]]
      <3> HIDE DEF f
      <3> QED BY <2>1
    <2> QED BY <2>2 DEF Adds, Pick
  <1>2. PICK g : Adds(g, f, S) /\ SumFunctionOnSet(f, S) = g[S]
    BY <1>0, SumAdds
  <1>3. Rec(k)
    <2> HIDE DEF Rec, f
    <2>1. Rec(g)
      BY <1>1, <1>2
    <2> QED BY <2>1
  <1>4. books!Total(S) = k[S]
    BY DEF books!Total, books!MapThenSumSet, books!MapThenFoldSet
  <1>5. k[S] = g[S]
    <2> HIDE DEF k, f, Rec
    <2>1. Adds(k, f, S)
      BY <1>1, <1>3
    <2> QED BY <1>0, <1>2, <2>1, AddsSame
  <1>6. SumFunctionOnSet(f, S) = SumFunctionOnSet(Amount, S)
    <2>1. \A x \in S : f[x] = Amount[x]
      BY DEF Amount
    <2> HIDE DEF f
    <2> QED BY <1>0, <2>1, SumSame
  <1> QED BY <1>2, <1>4, <1>5, <1>6

LEMMA SumsOf ==
  ASSUME NEW f, IsFiniteSet(DOMAIN f)
  PROVE  books!SumOf(f) = SumFunctionOnSet(f, DOMAIN f)
  <1> DEFINE S == DOMAIN f
             Rec(h) == h = [s \in SUBSET S |-> IF s = {} THEN 0
                                ELSE f[CHOOSE x \in s : TRUE] + h[s \ {CHOOSE x \in s : TRUE}]]
             k == CHOOSE h : Rec(h)
  <1>1. \A g : Rec(g) <=> Adds(g, f, S)
    BY DEF Adds, Pick
  <1>2. PICK g : Adds(g, f, S) /\ SumFunctionOnSet(f, S) = g[S]
    BY SumAdds
  <1>3. Rec(k)
    <2> HIDE DEF Rec
    <2>1. Rec(g)
      BY <1>1, <1>2
    <2> QED BY <2>1
  <1>4. books!SumOf(f) = k[S]
    BY DEF books!SumOf, books!MapThenSumSet, books!MapThenFoldSet
  <1>5. k[S] = g[S]
    <2> HIDE DEF k, S, Rec
    <2>1. Adds(k, f, S)
      BY <1>1, <1>3
    <2> QED BY <1>2, <2>1, AddsSame DEF S
  <1> QED BY <1>2, <1>4, <1>5

\* So is what budgets have been used for.
LEMMA UsedTotals ==
  ASSUME NEW S, IsFiniteSet(S), NEW view
  PROVE  books!MapThenSumSet(LAMBDA i : view[i].actual, S)
           = SumFunctionOnSet([i \in S |-> view[i].actual], S)
  <1> DEFINE f == [i \in S |-> view[i].actual]
             Rec(h) == h = [s \in SUBSET S |-> IF s = {} THEN 0
                                ELSE view[CHOOSE x \in s : TRUE].actual + h[s \ {CHOOSE x \in s : TRUE}]]
             k == CHOOSE h : Rec(h)
  <1>1. \A g : Rec(g) <=> Adds(g, f, S)
    <2> SUFFICES ASSUME NEW g PROVE Rec(g) <=> Adds(g, f, S)
      OBVIOUS
    <2>1. \A s \in SUBSET S : s # {} => view[Pick(s)].actual = f[Pick(s)]
      BY Picked
    <2>2. [s \in SUBSET S |-> IF s = {} THEN 0 ELSE view[Pick(s)].actual + g[s \ {Pick(s)}]]
            = [s \in SUBSET S |-> IF s = {} THEN 0 ELSE f[Pick(s)] + g[s \ {Pick(s)}]]
      <3> HIDE DEF f
      <3> QED BY <2>1
    <2> QED BY <2>2 DEF Adds, Pick
  <1>2. PICK g : Adds(g, f, S) /\ SumFunctionOnSet(f, S) = g[S]
    BY SumAdds
  <1>3. Rec(k)
    <2> HIDE DEF Rec, f
    <2>1. Rec(g)
      BY <1>1, <1>2
    <2> QED BY <2>1
  <1>4. books!MapThenSumSet(LAMBDA i : view[i].actual, S) = k[S]
    BY DEF books!MapThenSumSet, books!MapThenFoldSet
  <1>5. k[S] = g[S]
    <2> HIDE DEF k, f, Rec
    <2>1. Adds(k, f, S)
      BY <1>1, <1>3
    <2> QED BY <1>2, <2>1, AddsSame
  <1> QED BY <1>2, <1>4, <1>5

LEMMA RecordedSums ==
  ASSUME BookInv, NEW S \in SUBSET Recorded
  PROVE  /\ IsFiniteSet(S) /\ S \in SUBSET Ids /\ \A i \in S : Amount[i] \in Int
         /\ books!Total(S) = SumFunctionOnSet(Amount, S)
         /\ books!Total(S) \in Int
  <1>1. S \in SUBSET Ids /\ IsFiniteSet(S)
    BY BookAssumption, FS_Subset DEF Recorded
  <1>2. \A i \in S : Amount[i] \in Int
    <2> SUFFICES ASSUME NEW i \in S PROVE Amount[i] \in Int
      OBVIOUS
    <2>1. i \in Ids /\ entries[i].of.amount \in Int
      BY RecordedFields
    <2> QED BY <2>1 DEF Amount
  <1> QED BY <1>1, <1>2, EntryTotals, SumByElement

\* A breakdown of transactions by a field has, for each value, their total.
Valued(S, field, v) == {i \in S : entries[i].of[field] = v}

LEMMA GroupAt ==
  ASSUME BookInv, NEW S \in SUBSET Recorded, NEW field, NEW v
  PROVE  books!At(books!GroupBy(S, field), v) = books!Total(Valued(S, field, v))
  <1> DEFINE f == books!GroupBy(S, field)
  <1>1. DOMAIN f = {entries[i].of[field] : i \in S}
    BY DEF books!GroupBy
  <1>2. v \in DOMAIN f => f[v] = books!Total(Valued(S, field, v))
    BY DEF books!GroupBy, Valued
  <1>3. v \notin DOMAIN f => Valued(S, field, v) = {}
    BY <1>1 DEF Valued
  <1>4. books!Total({}) = 0
    BY RecordedSums, SumByElement
  <1>5. books!At(f, v) = IF v \in DOMAIN f THEN f[v] ELSE 0
    BY DEF books!At
  <1> HIDE DEF f
  <1>6. books!At(f, v) = books!Total(Valued(S, field, v))
    BY <1>2, <1>3, <1>4, <1>5
  <1> QED BY <1>6 DEF f

LEMMA BreakdownAddsUp ==
  ASSUME BookInv, NEW S \in SUBSET Recorded, NEW field
  PROVE  books!SumOf(books!GroupBy(S, field)) = books!Total(S)
  <1> DEFINE f == books!GroupBy(S, field)
             key == [i \in S |-> entries[i].of[field]]
             D == {key[i] : i \in S}
             g == [v \in D |-> SumFunctionOnSet(Amount, {i \in S : key[i] = v})]
  <1>1. IsFiniteSet(S) /\ S \in SUBSET Ids /\ \A i \in S : Amount[i] \in Int
    BY RecordedSums
  <1>2. D = {entries[i].of[field] : i \in S}
    OBVIOUS
  <1>3. IsFiniteSet(D)
    <2> HIDE DEF key
    <2> QED BY <1>1, FiniteImage
  <1>4. f = g
    <2>1. f = [v \in {entries[i].of[field] : i \in S} |->
                  books!Total({i \in S : entries[i].of[field] = v})]
      BY DEF books!GroupBy
    <2>2. ASSUME NEW v
          PROVE  books!Total({i \in S : entries[i].of[field] = v})
                   = SumFunctionOnSet(Amount, {i \in S : key[i] = v})
      <3>1. {i \in S : entries[i].of[field] = v} = {i \in S : key[i] = v}
        OBVIOUS
      <3>2. {i \in S : key[i] = v} \in SUBSET Ids
        BY <1>1
      <3> QED BY <3>1, <3>2, EntryTotals
    <2> HIDE DEF key, f
    <2> QED BY <1>2, <2>1, <2>2
  <1>5. books!SumOf(f) = SumFunctionOnSet(g, D)
    <2>1. DOMAIN g = D
      OBVIOUS
    <2> HIDE DEF g, D, f
    <2> QED BY <1>3, <1>4, <2>1, SumsOf
  <1>6. SumFunctionOnSet(g, D) = SumFunctionOnSet(Amount, S)
    <2>1. \A i \in S : key[i] \in D
      OBVIOUS
    <2> HIDE DEF key, D
    <2> QED BY <1>1, <1>3, <2>1, SumByKey
  <1> QED BY <1>5, <1>6, RecordedSums

\* The transactions of a month, those of a user in it, and what they have spent.
MonthOf(y, m) == {i \in Recorded : entries[i].of.date.year = y /\ entries[i].of.date.month = m}

OwnOf(u, y, m) == {i \in MonthOf(y, m) : entries[i].user = u}

Spent(u, y, m) == books!Expenses(OwnOf(u, y, m))

LEMMA SpentAre ==
  ASSUME NEW u, NEW y, NEW m
  PROVE  /\ MonthOf(y, m) \in SUBSET Recorded /\ OwnOf(u, y, m) \in SUBSET Recorded
         /\ Spent(u, y, m) \in SUBSET Recorded
         /\ books!Income(OwnOf(u, y, m)) \in SUBSET Recorded
  BY DEF MonthOf, OwnOf, Spent, books!Expenses, books!Income

LEMMA BetweenDates ==
  ASSUME NEW from, NEW to
  PROVE  books!Between(from, to) = {i \in Recorded : /\ NotBefore(entries[i].of.date, from)
                                                     /\ NotBefore(to, entries[i].of.date)}
  BY SameBooks DEF books!Between, Recorded

LEMMA InTheMonth ==
  ASSUME BookInv, NEW y \in Nat, NEW m \in 1 .. 12
  PROVE  /\ books!Between(books!On(y, m, 1), books!EndOf(y, m)) = MonthOf(y, m)
         /\ books!EndOf(y, m) = books!On(y, m, books!LastDay(y, m))
         /\ \A u : books!Own(u, books!On(y, m, 1), books!EndOf(y, m)) = OwnOf(u, y, m)
  <1> DEFINE a == books!On(y, m, 1)
             z == books!EndOf(y, m)
             l == LastDay(y, m)
  <1>1. l \in 28 .. 31
    BY LastDays
  <1>2. /\ a.year = y /\ a.month = m /\ a.day = 1
        /\ z.year = y /\ z.month = m /\ z.day = l
    BY SameBooks DEF books!On, books!EndOf
  <1>3. ASSUME NEW i \in Recorded
        PROVE  NotBefore(entries[i].of.date, a) /\ NotBefore(z, entries[i].of.date)
                 <=> entries[i].of.date.year = y /\ entries[i].of.date.month = m
    <2> DEFINE d == entries[i].of.date
    <2>1. /\ d.year \in Nat /\ d.month \in 1 .. 12 /\ d.day \in 1 .. 31
          /\ d.day <= LastDay(d.year, d.month)
      BY RecordedFields
    <2> HIDE DEF a, z, l, d
    <2>2. d.year = y /\ d.month = m => d.day <= l
      BY <2>1 DEF l
    <2>3. NotBefore(d, a) /\ NotBefore(z, d) <=> d.year = y /\ d.month = m
      BY <1>1, <1>2, <2>1, <2>2 DEF NotBefore
    <2> QED BY <2>3 DEF d
  <1>4. books!Between(a, z) = MonthOf(y, m)
    <2> HIDE DEF a, z
    <2> QED BY <1>3, BetweenDates DEF MonthOf
  <1>5. \A u : books!Own(u, a, z) = OwnOf(u, y, m)
    BY <1>4 DEF books!Own, OwnOf
  <1>6. z = books!On(y, m, books!LastDay(y, m))
    BY DEF books!EndOf
  <1> QED BY <1>4, <1>5, <1>6

\* The month before.
LEMMA MonthBefore ==
  ASSUME NEW y \in Nat, y > 1, NEW m \in 1 .. 12
  PROVE  /\ books!PreviousMonth(y, m).year \in Nat \ {0}
         /\ books!PreviousMonth(y, m).month \in 1 .. 12
         /\ (IF m = 1 THEN books!On(y - 1, 12, 31) ELSE books!EndOf(y, m - 1))
              = books!EndOf(books!PreviousMonth(y, m).year, books!PreviousMonth(y, m).month)
  <1>1. CASE m = 1
    <2>1. books!PreviousMonth(y, m).year = y - 1 /\ books!PreviousMonth(y, m).month = 12
      BY <1>1 DEF books!PreviousMonth
    <2>2. books!LastDay(y - 1, 12) = 31
      BY DEF books!LastDay
    <2>3. books!EndOf(y - 1, 12) = books!On(y - 1, 12, 31)
      BY <2>2 DEF books!EndOf
    <2> QED BY <1>1, <2>1, <2>3
  <1>2. CASE m # 1
    <2>1. books!PreviousMonth(y, m).year = y /\ books!PreviousMonth(y, m).month = m - 1
      BY <1>2 DEF books!PreviousMonth
    <2> QED BY <1>2, <2>1
  <1> QED BY <1>1, <1>2

\* What the statistics of a month are.
LEMMA MonthFields ==
  ASSUME BookInv, NEW u, NEW y \in Nat, NEW m \in 1 .. 12
  PROVE  LET stats == books!Monthly(u, y, m)
         IN  /\ stats.income = books!Total(books!Income(OwnOf(u, y, m)))
             /\ stats.expense = books!Total(Spent(u, y, m))
             /\ stats.categories = books!GroupBy(Spent(u, y, m), "category")
             /\ stats.assets = books!GroupBy(Spent(u, y, m), "asset")
             /\ stats.budgets = books!AgainstBudgets(u, y, m, stats.categories)
             /\ stats.categories = books!ByCategory(u, books!On(y, m, 1), books!EndOf(y, m))
  <1> DEFINE own == books!Own(u, books!On(y, m, 1), books!EndOf(y, m))
             cats == books!ByCategory(u, books!On(y, m, 1), books!EndOf(y, m))
             stats == books!Monthly(u, y, m)
  <1>1. /\ stats.income = books!Total(books!Income(own))
        /\ stats.expense = books!Total(books!Expenses(own))
        /\ stats.categories = cats
        /\ stats.assets = books!GroupBy(books!Expenses(own), "asset")
        /\ stats.budgets = books!AgainstBudgets(u, y, m, cats)
    BY DEF books!Monthly
  <1>2. own = OwnOf(u, y, m)
    BY InTheMonth
  <1>3. cats = books!GroupBy(books!Expenses(own), "category")
    BY DEF books!ByCategory
  <1> HIDE DEF own, cats, stats
  <1>4. /\ stats.income = books!Total(books!Income(OwnOf(u, y, m)))
        /\ stats.expense = books!Total(Spent(u, y, m))
        /\ stats.categories = books!GroupBy(Spent(u, y, m), "category")
        /\ stats.assets = books!GroupBy(Spent(u, y, m), "asset")
        /\ stats.budgets = books!AgainstBudgets(u, y, m, stats.categories)
        /\ stats.categories = cats
    BY <1>1, <1>2, <1>3 DEF Spent
  <1> QED BY <1>4 DEF stats, cats

\* And what they are compared with.
LEMMA MonthBeforeFields ==
  ASSUME BookInv, NEW u, NEW y \in Nat, y > 1, NEW m \in 1 .. 12
  PROVE  LET stats == books!Monthly(u, y, m)
             last == books!PreviousMonth(y, m)
         IN  /\ stats.before = [c \in DOMAIN stats.categories |->
                                   books!At(books!GroupBy(Spent(u, last.year, last.month), "category"), c)]
             /\ stats.expenseBefore = books!Total(Spent(u, last.year, last.month))
  <1> DEFINE stats == books!Monthly(u, y, m)
             last == books!PreviousMonth(y, m)
             from == books!On(last.year, last.month, 1)
             to == IF m = 1 THEN books!On(y - 1, 12, 31) ELSE books!EndOf(y, m - 1)
  <1>1. /\ stats.before = [c \in DOMAIN stats.categories |-> books!At(books!ByCategory(u, from, to), c)]
        /\ stats.expenseBefore = books!Total(books!Expenses(books!Own(u, from, to)))
    BY DEF books!Monthly
  <1>2. last.year \in Nat /\ last.month \in 1 .. 12 /\ to = books!EndOf(last.year, last.month)
    BY MonthBefore
  <1>3. books!Own(u, from, to) = OwnOf(u, last.year, last.month)
    <2> HIDE DEF to, last
    <2> QED BY <1>2, InTheMonth
  <1>4. books!ByCategory(u, from, to) = books!GroupBy(Spent(u, last.year, last.month), "category")
    BY <1>3 DEF books!ByCategory, Spent
  <1> HIDE DEF stats, from, to, last
  <1>5. /\ stats.before = [c \in DOMAIN stats.categories |->
                                   books!At(books!GroupBy(Spent(u, last.year, last.month), "category"), c)]
        /\ stats.expenseBefore = books!Total(Spent(u, last.year, last.month))
    BY <1>1, <1>3, <1>4 DEF Spent
  <1> QED BY <1>5 DEF stats, last

\* The transactions of a year.
OwnIn(u, y) == {i \in Recorded : entries[i].of.date.year = y /\ entries[i].user = u}

LEMMA InTheYear ==
  ASSUME BookInv, NEW u, NEW y \in Nat
  PROVE  books!Own(u, books!On(y, 1, 1), books!On(y, 12, 31)) = OwnIn(u, y)
  <1> DEFINE a == books!On(y, 1, 1)
             z == books!On(y, 12, 31)
  <1>1. /\ a.year = y /\ a.month = 1 /\ a.day = 1
        /\ z.year = y /\ z.month = 12 /\ z.day = 31
    BY DEF books!On
  <1>2. ASSUME NEW i \in Recorded
        PROVE  NotBefore(entries[i].of.date, a) /\ NotBefore(z, entries[i].of.date)
                 <=> entries[i].of.date.year = y
    <2> DEFINE d == entries[i].of.date
    <2>1. d.year \in Nat /\ d.month \in 1 .. 12 /\ d.day \in 1 .. 31
      BY RecordedFields
    <2> HIDE DEF a, z, d
    <2>2. NotBefore(d, a) /\ NotBefore(z, d) <=> d.year = y
      BY <1>1, <2>1 DEF NotBefore
    <2> QED BY <2>2 DEF d
  <1> HIDE DEF a, z
  <1>3. books!Between(a, z) = {i \in Recorded : entries[i].of.date.year = y}
    BY <1>2, BetweenDates
  <1>4. books!Own(u, a, z) = OwnIn(u, y)
    BY <1>3 DEF books!Own, OwnIn
  <1> QED BY <1>4 DEF a, z

\* The months of the view of a year.
LEMMA MonthOfYear ==
  ASSUME BookInv, NEW u, NEW y \in Nat, NEW m \in 1 .. 12
  PROVE  books!Yearly(u, y).months[m] = [income |-> books!Total(books!Income(OwnOf(u, y, m))),
                                         expense |-> books!Total(Spent(u, y, m))]
  <1> DEFINE own == books!Own(u, books!On(y, 1, 1), books!On(y, 12, 31))
             income(n) == {i \in books!Income(own) : entries[i].of.date.month = n}
             expense(n) == {i \in books!Expenses(own) : entries[i].of.date.month = n}
             year == books!Yearly(u, y)
             all == [n \in 1 .. 12 |-> [income |-> books!Total(income(n)),
                                        expense |-> books!Total(expense(n))]]
  <1>1. year.months = all
    BY DEF books!Yearly
  <1>2. own = OwnIn(u, y)
    BY InTheYear
  <1>3. income(m) = books!Income(OwnOf(u, y, m))
    BY <1>2 DEF books!Income, OwnOf, OwnIn, MonthOf
  <1>4. expense(m) = Spent(u, y, m)
    BY <1>2 DEF books!Expenses, Spent, OwnOf, OwnIn, MonthOf
  <1>5. all[m] = [income |-> books!Total(income(m)), expense |-> books!Total(expense(m))]
    OBVIOUS
  <1> HIDE DEF own, income, expense, all, year
  <1>6. year.months[m] = [income |-> books!Total(books!Income(OwnOf(u, y, m))),
                          expense |-> books!Total(Spent(u, y, m))]
    BY <1>1, <1>3, <1>4, <1>5
  <1> QED BY <1>6 DEF year

\* The months of a year add up to its categories.
LEMMA YearAddsUp ==
  ASSUME BookInv, NEW u, NEW y \in Nat
  PROVE  LET year == books!Yearly(u, y)
         IN  books!SumOf(year.categories)
               = books!SumOf([m \in 1 .. 12 |-> year.months[m].expense])
  <1> DEFINE year == books!Yearly(u, y)
             own == books!Own(u, books!On(y, 1, 1), books!On(y, 12, 31))
             S == books!Expenses(OwnIn(u, y))
             key == [i \in S |-> entries[i].of.date.month]
             D == 1 .. 12
             g == [m \in D |-> SumFunctionOnSet(Amount, {i \in S : key[i] = m})]
             h == [m \in D |-> year.months[m].expense]
  <1>1. year.categories = books!GroupBy(S, "category")
    <2>1. year.categories = books!GroupBy(books!Expenses(own), "category")
      BY DEF books!Yearly
    <2>2. own = OwnIn(u, y)
      BY InTheYear
    <2> HIDE DEF own
    <2> QED BY <2>1, <2>2
  <1>2. S \in SUBSET Recorded
    BY DEF books!Expenses, OwnIn
  <1>3. IsFiniteSet(S) /\ S \in SUBSET Ids /\ (\A i \in S : Amount[i] \in Int)
        /\ books!Total(S) = SumFunctionOnSet(Amount, S)
    <2> HIDE DEF S
    <2> QED BY <1>2, RecordedSums
  <1>4. \A i \in S : key[i] \in D
    <2> SUFFICES ASSUME NEW i \in S PROVE key[i] \in D
      OBVIOUS
    <2>1. i \in Recorded
      BY <1>2
    <2>2. entries[i].of.date.month \in 1 .. 12
      BY <2>1, RecordedFields
    <2> QED BY <2>2
  <1>5. ASSUME NEW m \in D PROVE h[m] = g[m]
    <2>1. h[m] = books!Total(Spent(u, y, m))
      <3>1. year.months[m] = [income |-> books!Total(books!Income(OwnOf(u, y, m))),
                              expense |-> books!Total(Spent(u, y, m))]
        BY MonthOfYear
      <3> HIDE DEF year
      <3> QED BY <3>1
    <2>2. Spent(u, y, m) = {i \in S : key[i] = m}
      BY DEF Spent, books!Expenses, OwnOf, OwnIn, MonthOf
    <2>3. books!Total(Spent(u, y, m)) = SumFunctionOnSet(Amount, Spent(u, y, m))
      BY SpentAre, RecordedSums
    <2>4. g[m] = SumFunctionOnSet(Amount, {i \in S : key[i] = m})
      OBVIOUS
    <2> HIDE DEF h, g, S, key, D
    <2> QED BY <2>1, <2>2, <2>3, <2>4
  <1>6. h = g
    <2>1. h = [m \in D |-> h[m]] /\ g = [m \in D |-> g[m]]
      OBVIOUS
    <2> HIDE DEF h, g, D
    <2> QED BY <1>5, <2>1
  <1>7. IsFiniteSet(D)
    <2> HIDE DEF g, h, S, key
    <2>1. 1 \in Int /\ 12 \in Int
      OBVIOUS
    <2> QED BY <2>1, FS_Interval, Zenon
  <1>8. books!SumOf(h) = SumFunctionOnSet(g, D)
    <2>1. DOMAIN h = D
      OBVIOUS
    <2> HIDE DEF h, g, D
    <2> QED BY <1>6, <1>7, <2>1, SumsOf
  <1>9. SumFunctionOnSet(g, D) = SumFunctionOnSet(Amount, S)
    <2> HIDE DEF S, key, D
    <2> QED BY <1>3, <1>4, <1>7, SumByKey
  <1>10. books!SumOf(year.categories) = books!Total(S)
    <2> HIDE DEF S, year
    <2> QED BY <1>1, <1>2, BreakdownAddsUp
  <1>11. books!SumOf(year.categories) = books!SumOf(h)
    <2> HIDE DEF S, year, h, g, D
    <2> QED BY <1>3, <1>8, <1>9, <1>10
  <1> QED BY <1>11

\* The three views of a budget, and the figures of an analysis.
LEMMA BudgetViews ==
  ASSUME BookInv, NEW u, NEW y \in Nat, NEW m \in 1 .. 12
  PROVE  books!Performance(u, y, m) = books!Monthly(u, y, m).budgets
  <1>1. books!Performance(u, y, m)
          = books!AgainstBudgets(u, y, m, books!ByCategory(u, books!On(y, m, 1), books!EndOf(y, m)))
    BY DEF books!Performance, books!EndOf
  <1> QED BY <1>1, MonthFields

LEMMA AnalysisAgrees ==
  ASSUME BookInv, NEW u, NEW y \in Nat, y > 1, NEW m \in 1 .. 12
  PROVE  LET stats == books!Monthly(u, y, m)
         IN  books!Trends(u, y, m)
               = [c \in DOMAIN stats.categories |->
                     [now |-> stats.categories[c], before |-> stats.before[c]]]
  <1> DEFINE stats == books!Monthly(u, y, m)
             last == books!PreviousMonth(y, m)
             now == books!ByCategory(u, books!On(y, m, 1), books!On(y, m, books!LastDay(y, m)))
             before == books!ByCategory(u, books!On(last.year, last.month, 1),
                             books!On(last.year, last.month, books!LastDay(last.year, last.month)))
  <1>1. books!Trends(u, y, m)
          = [c \in DOMAIN now |-> [now |-> now[c], before |-> books!At(before, c)]]
    BY DEF books!Trends
  <1>2. now = stats.categories
    <2>1. stats.categories = books!ByCategory(u, books!On(y, m, 1), books!EndOf(y, m))
      BY MonthFields
    <2> QED BY <2>1 DEF books!EndOf
  <1>3. last.year \in Nat /\ last.month \in 1 .. 12
    BY MonthBefore
  <1>4. before = books!GroupBy(Spent(u, last.year, last.month), "category")
    <2> HIDE DEF last
    <2> DEFINE z == last.year
               n == last.month
    <2>1. before = books!ByCategory(u, books!On(z, n, 1), books!EndOf(z, n))
      BY DEF books!EndOf
    <2> HIDE DEF z, n, before
    <2>2. books!Own(u, books!On(z, n, 1), books!EndOf(z, n)) = OwnOf(u, z, n)
      BY <1>3, InTheMonth DEF z, n
    <2>3. before = books!GroupBy(Spent(u, z, n), "category")
      BY <2>1, <2>2 DEF books!ByCategory, Spent
    <2> QED BY <2>3 DEF z, n
  <1>5. stats.before = [c \in DOMAIN stats.categories |->
                           books!At(books!GroupBy(Spent(u, last.year, last.month), "category"), c)]
    BY ONLY BookInv, y \in Nat, y > 1, m \in 1 .. 12, MonthBeforeFields, ZenonT(30) DEF stats, last
  <1> HIDE DEF stats, now, before, last
  <1>6. \A c \in DOMAIN stats.categories : stats.before[c] = books!At(before, c)
    BY <1>4, <1>5
  <1>7. books!Trends(u, y, m)
               = [c \in DOMAIN stats.categories |->
                     [now |-> stats.categories[c], before |-> stats.before[c]]]
    BY <1>1, <1>2, <1>6
  <1> QED BY <1>7 DEF stats

\* What the month before is said to have spent is what its own view says.
LEMMA ComparedWithIt ==
  ASSUME BookInv, NEW u, NEW y \in Nat, y > 1, NEW m \in 1 .. 12
  PROVE  LET last == books!PreviousMonth(y, m)
         IN  books!Monthly(u, y, m).expenseBefore = books!Monthly(u, last.year, last.month).expense
  <1> DEFINE last == books!PreviousMonth(y, m)
  <1>1. last.year \in Nat /\ last.month \in 1 .. 12
    BY MonthBefore
  <1>2. books!Monthly(u, y, m).expenseBefore = books!Total(Spent(u, last.year, last.month))
    BY MonthBeforeFields
  <1> HIDE DEF last
  <1>3. books!Monthly(u, last.year, last.month).expense = books!Total(Spent(u, last.year, last.month))
    BY <1>1, MonthFields
  <1>4. books!Monthly(u, y, m).expenseBefore = books!Monthly(u, last.year, last.month).expense
    BY <1>2, <1>3
  <1> QED BY <1>4 DEF last

\* The figures of a budget.
LEMMA BudgetFigures ==
  ASSUME BookInv, NEW u, NEW y \in Nat, NEW m \in 1 .. 12
  PROVE  LET view == books!Monthly(u, y, m).budgets
         IN  /\ DOMAIN view = books!BudgetsOf(u, y, m)
             /\ \A i \in DOMAIN view :
                   /\ i \in Ids /\ budgets[i].of.amount \in Int /\ view[i].actual \in Int
                   /\ view[i].actual
                        = books!Total(Valued(Spent(u, y, m), "category", budgets[i].of.category))
                   /\ view[i].actual
                        = books!At(books!Monthly(u, y, m).categories, budgets[i].of.category)
                   /\ view[i].remaining = budgets[i].of.amount - view[i].actual
  <1> DEFINE cats == books!Monthly(u, y, m).categories
             view == books!Monthly(u, y, m).budgets
             S == Spent(u, y, m)
  <1>1. view = books!AgainstBudgets(u, y, m, cats) /\ cats = books!GroupBy(S, "category")
    BY MonthFields
  <1> HIDE DEF cats, view, S
  <1>2. view = [i \in books!BudgetsOf(u, y, m) |->
                   [actual |-> books!At(cats, budgets[i].of.category),
                    remaining |-> budgets[i].of.amount - books!At(cats, budgets[i].of.category)]]
    BY <1>1 DEF books!AgainstBudgets
  <1>3. DOMAIN view = books!BudgetsOf(u, y, m)
    BY <1>2
  <1>4. ASSUME NEW i \in DOMAIN view
        PROVE  /\ i \in Ids /\ budgets[i].of.amount \in Int /\ view[i].actual \in Int
               /\ view[i].actual = books!Total(Valued(S, "category", budgets[i].of.category))
               /\ view[i].actual = books!At(cats, budgets[i].of.category)
               /\ view[i].remaining = budgets[i].of.amount - view[i].actual
    <2>1. i \in Ids /\ budgets[i].of.amount \in Int
      BY <1>3 DEF books!BudgetsOf, BookInv
    <2> DEFINE c == budgets[i].of.category
    <2>2. view[i].actual = books!At(cats, c)
          /\ view[i].remaining = budgets[i].of.amount - books!At(cats, c)
      BY <1>2, <1>3
    <2>3. S \in SUBSET Recorded
      BY SpentAre DEF S
    <2> HIDE DEF c
    <2>4. books!At(cats, c) = books!Total(Valued(S, "category", c))
      BY <1>1, <2>3, GroupAt
    <2>5. books!Total(Valued(S, "category", c)) \in Int
      <3>1. Valued(S, "category", c) \in SUBSET Recorded
        BY <2>3 DEF Valued
      <3> QED BY <3>1, RecordedSums
    <2> QED BY <2>1, <2>2, <2>4, <2>5 DEF c
  <1>5. /\ DOMAIN view = books!BudgetsOf(u, y, m)
        /\ \A i \in DOMAIN view :
                   /\ i \in Ids /\ budgets[i].of.amount \in Int /\ view[i].actual \in Int
                   /\ view[i].actual
                        = books!Total(Valued(S, "category", budgets[i].of.category))
                   /\ view[i].actual = books!At(cats, budgets[i].of.category)
                   /\ view[i].remaining = budgets[i].of.amount - view[i].actual
    BY <1>3, <1>4
  <1> QED BY <1>5 DEF view, cats, S

LEMMA ExceededBudgets ==
  ASSUME BookInv, NEW u, NEW y \in Nat, NEW m \in 1 .. 12
  PROVE  LET view == books!Monthly(u, y, m).budgets
         IN  books!OverBudget(u, y, m)
               = [i \in {i \in DOMAIN view : view[i].remaining < 0} |-> 0 - view[i].remaining]
  <1> DEFINE cats == books!Monthly(u, y, m).categories
             view == books!Monthly(u, y, m).budgets
             used(i) == books!At(cats, budgets[i].of.category)
             B == books!BudgetsOf(u, y, m)
  <1>1. cats = books!ByCategory(u, books!On(y, m, 1), books!On(y, m, books!LastDay(y, m)))
    BY MonthFields DEF books!EndOf
  <1>2. books!OverBudget(u, y, m)
          = [i \in {i \in B : used(i) > budgets[i].of.amount} |-> used(i) - budgets[i].of.amount]
    <2> HIDE DEF cats
    <2> QED BY <1>1 DEF books!OverBudget
  <1>3. /\ DOMAIN view = B
        /\ \A i \in DOMAIN view :
              /\ i \in Ids /\ budgets[i].of.amount \in Int /\ view[i].actual \in Int
              /\ view[i].actual = used(i)
              /\ view[i].remaining = budgets[i].of.amount - view[i].actual
    BY BudgetFigures
  <1> HIDE DEF view, B, used
  <1>4. ASSUME NEW i \in B
        PROVE  /\ used(i) > budgets[i].of.amount <=> view[i].remaining < 0
               /\ used(i) - budgets[i].of.amount = 0 - view[i].remaining
    <2> DEFINE a == budgets[i].of.amount
               v == view[i].actual
               r == view[i].remaining
               w == used(i)
    <2>1. a \in Int /\ v \in Int /\ w = v /\ r = a - v
      BY <1>3
    <2> HIDE DEF a, v, r, w
    <2>2. (w > a <=> r < 0) /\ w - a = 0 - r
      BY <2>1
    <2> QED BY <2>2 DEF a, r, w
  <1>5. {i \in B : used(i) > budgets[i].of.amount} = {i \in DOMAIN view : view[i].remaining < 0}
    BY <1>3, <1>4
  <1>6. \A i \in {i \in DOMAIN view : view[i].remaining < 0} :
           used(i) - budgets[i].of.amount = 0 - view[i].remaining
    BY <1>3, <1>4
  <1>7. books!OverBudget(u, y, m)
          = [i \in {i \in DOMAIN view : view[i].remaining < 0} |-> 0 - view[i].remaining]
    <2> DEFINE D == {i \in DOMAIN view : view[i].remaining < 0}
    <2>1. books!OverBudget(u, y, m) = [i \in D |-> used(i) - budgets[i].of.amount]
      BY <1>2, <1>5
    <2>2. \A i \in D : used(i) - budgets[i].of.amount = 0 - view[i].remaining
      BY <1>6
    <2>3. [i \in D |-> used(i) - budgets[i].of.amount] = [i \in D |-> 0 - view[i].remaining]
      <3> HIDE DEF D
      <3> QED BY <2>2
    <2> QED BY <2>1, <2>3
  <1> QED BY <1>7 DEF view

\* Budgets of different categories count the expenses of these categories once.
LEMMA BudgetsCountOnce ==
  ASSUME BookInv, NEW u, NEW y \in Nat, NEW m \in 1 .. 12,
         NEW view, view = books!Monthly(u, y, m).budgets, NEW S \in SUBSET DOMAIN view,
         \A i, j \in S : i # j => budgets[i].of.category # budgets[j].of.category
  PROVE  SumFunctionOnSet([i \in S |-> view[i].actual], S)
           = books!Total({j \in books!Expenses(books!Own(u, books!On(y, m, 1), books!EndOf(y, m))) :
                            \E i \in S : entries[j].of.category = budgets[i].of.category})
  <1> DEFINE E == Spent(u, y, m)
             P == [i \in S |-> Valued(E, "category", budgets[i].of.category)]
             g == [i \in S |-> SumFunctionOnSet(Amount, P[i])]
             f == [i \in S |-> view[i].actual]
             All == {j \in E : \E i \in S : entries[j].of.category = budgets[i].of.category}
  <1>1. IsFiniteSet(S)
    <2>1. S \in SUBSET Ids
      BY BudgetFigures
    <2> QED BY <2>1, BookAssumption, FS_Subset
  <1>2. E \in SUBSET Recorded
    BY SpentAre
  <1>3. IsFiniteSet(E) /\ (\A i \in E : Amount[i] \in Int)
    <2> HIDE DEF E
    <2> QED BY <1>2, RecordedSums
  <1>4. ASSUME NEW i \in S
        PROVE  /\ P[i] = Valued(E, "category", budgets[i].of.category)
               /\ P[i] \in SUBSET E
               /\ f[i] = g[i]
    <2>1. P[i] = Valued(E, "category", budgets[i].of.category)
      OBVIOUS
    <2>2. P[i] \in SUBSET E
      BY <2>1 DEF Valued
    <2>3. view[i].actual = books!Total(Valued(E, "category", budgets[i].of.category))
      BY BudgetFigures
    <2>4. f[i] = view[i].actual /\ g[i] = SumFunctionOnSet(Amount, P[i])
      OBVIOUS
    <2> HIDE DEF f, g, P, E
    <2>5. books!Total(P[i]) = SumFunctionOnSet(Amount, P[i])
      BY <1>2, <2>2, RecordedSums
    <2> QED BY <2>1, <2>2, <2>3, <2>4, <2>5
  <1>5. f = g
    <2>1. f = [i \in S |-> f[i]] /\ g = [i \in S |-> g[i]]
      OBVIOUS
    <2> HIDE DEF f, g, P
    <2> QED BY <1>4, <2>1
  <1>7. P \in [S -> SUBSET E] /\ \A i \in S, j \in S : i # j => P[i] \cap P[j] = {}
    <2>1. P = [i \in S |-> P[i]]
      OBVIOUS
    <2> HIDE DEF P, E
    <2>2. P \in [S -> SUBSET E]
      BY <1>4, <2>1
    <2>3. \A i \in S, j \in S : i # j => P[i] \cap P[j] = {}
      BY <1>4 DEF Valued
    <2> QED BY <2>2, <2>3
  <1>8. UNION {P[i] : i \in S} = All
    <2> HIDE DEF P, E
    <2>1. ASSUME NEW x PROVE x \in UNION {P[i] : i \in S} <=> x \in All
      <3>1. x \in UNION {P[i] : i \in S} <=> \E i \in S : x \in P[i]
        OBVIOUS
      <3>2. \A i \in S : x \in P[i] <=> x \in E /\ entries[x].of.category = budgets[i].of.category
        BY <1>4 DEF Valued
      <3> QED BY <3>1, <3>2
    <2> HIDE DEF All
    <2> QED BY <2>1
  <1>9. SumFunctionOnSet(g, S) = SumFunctionOnSet(Amount, All)
    <2>1. SumFunctionOnSet(g, S) = SumFunctionOnSet(Amount, UNION {P[i] : i \in S})
      <3> HIDE DEF P, E
      <3> QED BY <1>1, <1>3, <1>7, SumOfParts
    <2> QED BY <1>8, <2>1
  <1>10. books!Total(All) = SumFunctionOnSet(Amount, All)
    <2>1. All \in SUBSET Recorded
      BY <1>2
    <2> HIDE DEF All
    <2> QED BY <2>1, RecordedSums
  <1>11. All = {j \in books!Expenses(books!Own(u, books!On(y, m, 1), books!EndOf(y, m))) :
                            \E i \in S : entries[j].of.category = budgets[i].of.category}
    BY InTheMonth DEF Spent
  <1> HIDE DEF g, All
  <1> QED BY <1>5, <1>9, <1>10, <1>11 DEF f

\* The export of a category has what the statistics count for it.
LEMMA ExportsAgree ==
  ASSUME BookInv, NEW u, NEW y \in Nat, NEW m \in 1 .. 12,
         NEW c \in DOMAIN books!Monthly(u, y, m).categories
  PROVE  books!Monthly(u, y, m).categories[c]
           = books!Total(books!Expenses(
                 books!Exported(u, books!On(y, m, 1), books!EndOf(y, m), c, Null)))
  <1> DEFINE S == Spent(u, y, m)
             cats == books!Monthly(u, y, m).categories
             X == books!Expenses(books!Exported(u, books!On(y, m, 1), books!EndOf(y, m), c, Null))
  <1>1. cats = books!GroupBy(S, "category")
    BY MonthFields
  <1>2. S \in SUBSET Recorded
    BY SpentAre
  <1>3. cats[c] = books!Total({i \in S : entries[i].of.category = c})
        /\ \E i \in S : c = entries[i].of.category
    <2> HIDE DEF cats, S
    <2>1. c \in DOMAIN cats
      BY DEF cats
    <2> QED BY <1>1, <2>1 DEF books!GroupBy
  <1>4. c # Null
    <2>1. PICK i \in S : c = entries[i].of.category
      BY <1>3
    <2>2. i \in Recorded
      BY <1>2
    <2> QED BY <2>1, <2>2, RecordedFields
  <1>5. X = {i \in S : entries[i].of.category = c}
    <2>1. books!Own(u, books!On(y, m, 1), books!EndOf(y, m)) = OwnOf(u, y, m)
      BY InTheMonth
    <2>2. \A i : c \in {Null, entries[i].of.category} /\ Null \in {Null, entries[i].of.area}
                    <=> entries[i].of.category = c
      BY <1>4
    <2> QED BY <2>1, <2>2 DEF Spent, books!Exported, books!Expenses
  <1> HIDE DEF X, S
  <1> QED BY <1>3, <1>5 DEF X

\* What the group sees of a month, what it sees of a user, and what users keep to themselves.
Shared(y, m) ==
    {i \in books!Expenses(MonthOf(y, m)) : entries[i].tagged /\ ~entries[i].of.private}

SharedBy(u, y, m) == {i \in Shared(y, m) : entries[i].user = u}

Kept(u, y, m) == {i \in Spent(u, y, m) : entries[i].of.private \/ ~entries[i].tagged}

LEMMA SharedAre ==
  ASSUME BookInv, NEW u, NEW y \in Nat, NEW m \in 1 .. 12
  PROVE  /\ books!OfGroup(y, m) = Shared(y, m)
         /\ Shared(y, m) \in SUBSET Recorded /\ SharedBy(u, y, m) \in SUBSET Recorded
         /\ Kept(u, y, m) \in SUBSET Recorded
         /\ Kept(u, y, m) = {i \in books!Expenses(books!Own(u, books!On(y, m, 1), books!EndOf(y, m))) :
                                entries[i].of.private \/ ~entries[i].tagged}
  <1>1. books!OfGroup(y, m) = Shared(y, m)
    BY InTheMonth DEF books!OfGroup, Shared
  <1>2. books!Own(u, books!On(y, m, 1), books!EndOf(y, m)) = OwnOf(u, y, m)
    BY InTheMonth
  <1>3. Shared(y, m) \in SUBSET Recorded /\ SharedBy(u, y, m) \in SUBSET Recorded
    BY DEF Shared, SharedBy, books!Expenses, MonthOf
  <1>4. Kept(u, y, m) \in SUBSET Recorded
    BY SpentAre DEF Kept
  <1>5. Kept(u, y, m) = {i \in books!Expenses(books!Own(u, books!On(y, m, 1), books!EndOf(y, m))) :
                                entries[i].of.private \/ ~entries[i].tagged}
    BY <1>2 DEF Kept, Spent
  <1> QED BY <1>1, <1>3, <1>4, <1>5

\* Two parts of what is on record.
LEMMA TotalOfParts ==
  ASSUME BookInv, NEW A \in SUBSET Recorded, NEW C \in SUBSET Recorded, A \cap C = {}
  PROVE  /\ books!Total(A \cup C) = books!Total(A) + books!Total(C)
         /\ books!Total(A) \in Int /\ books!Total(C) \in Int
  <1>1. A \cup C \in SUBSET Recorded
    OBVIOUS
  <1>2. /\ IsFiniteSet(A) /\ IsFiniteSet(C) /\ \A i \in A \cup C : Amount[i] \in Int
        /\ books!Total(A) = SumFunctionOnSet(Amount, A) /\ books!Total(C) = SumFunctionOnSet(Amount, C)
        /\ books!Total(A \cup C) = SumFunctionOnSet(Amount, A \cup C)
        /\ books!Total(A) \in Int /\ books!Total(C) \in Int
    BY <1>1, RecordedSums
  <1> QED BY <1>2, SumOfUnion

\* The expenses of the group, by member, are those of the group.
LEMMA MembersAddUp ==
  ASSUME BookInv, NEW y \in Nat, NEW m \in 1 .. 12
  PROVE  books!SumOf(books!ByMember(y, m)) = books!Total(Shared(y, m))
  <1> DEFINE S == Shared(y, m)
             f == books!ByMember(y, m)
             key == [i \in S |-> entries[i].user]
             D == {key[i] : i \in S}
             g == [v \in D |-> SumFunctionOnSet(Amount, {i \in S : key[i] = v})]
  <1>1. S \in SUBSET Recorded /\ books!OfGroup(y, m) = S
    BY SharedAre
  <1>2. IsFiniteSet(S) /\ (\A i \in S : Amount[i] \in Int)
        /\ books!Total(S) = SumFunctionOnSet(Amount, S)
    <2> HIDE DEF S
    <2> QED BY <1>1, RecordedSums
  <1>3. D = {entries[i].user : i \in S}
    OBVIOUS
  <1>4. IsFiniteSet(D)
    <2> HIDE DEF key, S
    <2> QED BY <1>2, FiniteImage
  <1>5. f = g
    <2>1. f = [v \in {entries[i].user : i \in S} |-> books!Total({i \in S : entries[i].user = v})]
      <3> HIDE DEF S
      <3> QED BY <1>1 DEF books!ByMember
    <2>2. ASSUME NEW v
          PROVE  books!Total({i \in S : entries[i].user = v})
                   = SumFunctionOnSet(Amount, {i \in S : key[i] = v})
      <3>1. {i \in S : entries[i].user = v} = {i \in S : key[i] = v}
        OBVIOUS
      <3>2. {i \in S : key[i] = v} \in SUBSET Recorded
        BY <1>1
      <3> HIDE DEF key, S
      <3> QED BY <3>1, <3>2, RecordedSums
    <2> HIDE DEF key, f, S
    <2> QED BY <1>3, <2>1, <2>2
  <1>6. books!SumOf(f) = SumFunctionOnSet(g, D)
    <2>1. DOMAIN g = D
      OBVIOUS
    <2> HIDE DEF g, D, f, S
    <2> QED BY <1>4, <1>5, <2>1, SumsOf
  <1>7. SumFunctionOnSet(g, D) = SumFunctionOnSet(Amount, S)
    <2>1. \A i \in S : key[i] \in D
      OBVIOUS
    <2> HIDE DEF key, D, S
    <2> QED BY <1>2, <1>4, <2>1, SumByKey
  <1>8. books!SumOf(f) = books!Total(S)
    <2> HIDE DEF f, g, D, S
    <2> QED BY <1>2, <1>6, <1>7
  <1> QED BY <1>8

\* What the group's view says of a user.
LEMMA UsageFields ==
  ASSUME BookInv, NEW u \in members, NEW y \in Nat, NEW m \in 1 .. 12
  PROVE  /\ books!Usage(y, m)[u].total = books!Total(SharedBy(u, y, m))
         /\ books!SumOf(books!Usage(y, m)[u].assets) = books!Usage(y, m)[u].total
  <1> DEFINE S == Shared(y, m)
             T == SharedBy(u, y, m)
             f == books!ByMember(y, m)
             use == books!Usage(y, m)
  <1>1. books!OfGroup(y, m) = S /\ S \in SUBSET Recorded /\ T \in SUBSET Recorded
    BY SharedAre
  <1>2. T = {i \in S : entries[i].user = u}
    BY DEF SharedBy
  <1> HIDE DEF S, T
  <1>3. use[u] = [total |-> books!At(f, u), assets |-> books!GroupBy(T, "asset")]
    BY <1>1, <1>2 DEF books!Usage
  <1>4. /\ DOMAIN f = {entries[i].user : i \in S}
        /\ u \in DOMAIN f => f[u] = books!Total(T)
    BY <1>1, <1>2 DEF books!ByMember
  <1>5. books!At(f, u) = IF u \in DOMAIN f THEN f[u] ELSE 0
    BY DEF books!At
  <1>6. u \notin DOMAIN f => T = {}
    BY <1>2, <1>4
  <1>7. books!Total({}) = 0
    BY RecordedSums, SumByElement
  <1> HIDE DEF f, use
  <1>8. books!At(f, u) = books!Total(T)
    BY <1>4, <1>5, <1>6, <1>7
  <1>9. books!SumOf(books!GroupBy(T, "asset")) = books!Total(T)
    BY <1>1, BreakdownAddsUp
  <1>10. use[u].total = books!Total(T) /\ books!SumOf(use[u].assets) = use[u].total
    BY <1>3, <1>8, <1>9
  <1> QED BY <1>10 DEF use, T

\* It differs from the user's own view by what they keep to themselves.
LEMMA GroupAgrees ==
  ASSUME BookInv, NEW u \in members, NEW y \in Nat, NEW m \in 1 .. 12
  PROVE  /\ books!Total(Spent(u, y, m)) - books!Total(SharedBy(u, y, m))
              = books!Total(Kept(u, y, m))
         /\ books!Total(books!Expenses(books!Listed(u, TRUE, books!On(y, m, 1), books!EndOf(y, m))))
              = books!SumOf(books!ByMember(y, m))
                + books!Total({i \in Kept(u, y, m) : entries[i].tagged})
  <1> DEFINE G == SharedBy(u, y, m)
             K == Kept(u, y, m)
             H == {i \in K : entries[i].tagged}
             L == books!Expenses(books!Listed(u, TRUE, books!On(y, m, 1), books!EndOf(y, m)))
  <1>1. G \in SUBSET Recorded /\ K \in SUBSET Recorded /\ Shared(y, m) \in SUBSET Recorded
    BY SharedAre
  <1>2. Spent(u, y, m) = G \cup K /\ G \cap K = {}
    BY DEF Spent, SharedBy, Shared, Kept, OwnOf, books!Expenses
  <1>3. L = Shared(y, m) \cup H
    <2>1. books!Listed(u, TRUE, books!On(y, m, 1), books!EndOf(y, m))
            = {i \in MonthOf(y, m) :
                  entries[i].tagged /\ (entries[i].user = u \/ ~entries[i].of.private)}
      BY InTheMonth DEF books!Listed
    <2> QED BY <2>1 DEF Shared, Kept, Spent, OwnOf, books!Expenses
  <1>4. H \in SUBSET Recorded /\ Shared(y, m) \cap H = {}
    BY <1>1 DEF Shared, Kept
  <1> HIDE DEF G, K, H, L
  <1>5. books!Total(Spent(u, y, m)) = books!Total(G) + books!Total(K)
        /\ books!Total(G) \in Int /\ books!Total(K) \in Int
    BY <1>1, <1>2, TotalOfParts
  <1>6. books!Total(L) = books!Total(Shared(y, m)) + books!Total(H)
    BY <1>1, <1>3, <1>4, TotalOfParts
  <1>7. books!Total(Spent(u, y, m)) - books!Total(G) = books!Total(K)
    BY <1>5
  <1>8. books!Total(L) = books!SumOf(books!ByMember(y, m)) + books!Total(H)
    BY <1>6, MembersAddUp
  <1> QED BY <1>7, <1>8 DEF G, K, L, H

\* What a user can open is what one of their lists has.
LEMMA ListsAgree ==
  ASSUME NEW u, NEW from, NEW to
  PROVE  books!Listed(u, TRUE, from, to) \cup books!Listed(u, FALSE, from, to)
           = {i \in books!Between(from, to) : books!Viewable(u, i)}
  <1>1. books!Listed(u, FALSE, from, to) = {i \in books!Between(from, to) : entries[i].user = u}
    BY DEF books!Listed, books!Own
  <1>2. CASE u \in members
    <2>1. books!Listed(u, TRUE, from, to)
            = {i \in books!Between(from, to) :
                  entries[i].tagged /\ (entries[i].user = u \/ ~entries[i].of.private)}
      BY <1>2 DEF books!Listed
    <2> QED BY <1>1, <1>2, <2>1 DEF books!Viewable
  <1>3. CASE u \notin members
    <2>1. books!Listed(u, TRUE, from, to) = {i \in books!Between(from, to) : entries[i].user = u}
      BY <1>3 DEF books!Listed, books!Own
    <2> QED BY <1>1, <1>3, <2>1 DEF books!Viewable
  <1> QED BY <1>2, <1>3

-----------------------------------------------------------------------------
(* Weeks.                                                                  *)

LEMMA PlusNo ==
  ASSUME NEW d, CalendarDay(d), NEW k \in 0 .. 28
  PROVE  /\ Plus(d, k) \in Date
         /\ d.day + k <= Length(d) =>
               MonthNo(Plus(d, k)) = MonthNo(d) /\ Plus(d, k).day = d.day + k
         /\ d.day + k > Length(d) =>
               MonthNo(Plus(d, k)) = MonthNo(d) + 1 /\ Plus(d, k).day = d.day + k - Length(d)
  <1> DEFINE e == Plus(d, k)
             n == Length(d)
             x == NextMonth(d)
  <1>1. d \in Date /\ d.day \in 1 .. 31 /\ n \in 28 .. 31 /\ e \in Date
    BY DayFields, PlusIsDate
  <1>2. e = IF d.day + k <= n THEN [year |-> d.year, month |-> d.month, day |-> d.day + k]
            ELSE [year |-> x.year, month |-> x.month, day |-> d.day + k - n]
    BY <1>1, PlusFields DEF Length
  <1>3. MonthNo(x) = MonthNo(d) + 1
    BY <1>1, NextMonthNo
  <1> HIDE DEF e, n, x
  <1>4. CASE d.day + k <= n
    <2>1. e.year = d.year /\ e.month = d.month /\ e.day = d.day + k
      BY <1>2, <1>4
    <2>2. MonthNo(e) = MonthNo(d)
      BY <2>1 DEF MonthNo
    <2>3. ~(d.day + k > n)
      BY <1>1, <1>4
    <2> QED BY <1>1, <2>1, <2>2, <2>3 DEF e, n
  <1>5. CASE d.day + k > n
    <2>1. ~(d.day + k <= n)
      BY <1>1, <1>5
    <2>2. e.year = x.year /\ e.month = x.month /\ e.day = d.day + k - n
      BY <1>2, <2>1
    <2>3. MonthNo(e) = MonthNo(x)
      BY <2>2 DEF MonthNo
    <2> QED BY <1>1, <1>3, <2>1, <2>2, <2>3 DEF e, n
  <1>6. d.day + k <= n \/ d.day + k > n
    BY <1>1
  <1> QED BY <1>4, <1>5, <1>6

\* Days back and forth.
LEMMA MinusThenPlus ==
  ASSUME NEW d, CalendarDay(d), d.year > 1, NEW k \in 0 .. 6
  PROVE  CalendarDay(books!Minus(d, k)) /\ Plus(books!Minus(d, k), k) = d
  <1> DEFINE f == books!Minus(d, k)
             first == [d EXCEPT !.day = 1]
             e == Yesterday(first)
  <1>1. /\ d \in Date /\ d.year \in Nat /\ d.month \in 1 .. 12 /\ d.day \in 1 .. 31
        /\ d.day <= Length(d) /\ Length(d) \in 28 .. 31 /\ MonthNo(d) \in Nat
    BY DayFields
  <1>2. f = IF d.day > k THEN [d EXCEPT !.day = d.day - k]
            ELSE [e EXCEPT !.day = e.day + d.day - k]
    BY SameBooks DEF books!Minus
  <1>3. CASE d.day > k
    <2>1. f = [year |-> d.year, month |-> d.month, day |-> d.day - k]
      BY <1>1, <1>2, <1>3, OtherDay
    <2>2. d.day - k \in 1 .. 31
      BY <1>1, <1>3
    <2>3. f.year = d.year /\ f.month = d.month /\ f.day = d.day - k /\ f \in Date
      <3>1. f.year = d.year /\ f.month = d.month /\ f.day = d.day - k
        BY <2>1
      <3>2. d.year \in Nat /\ d.year >= 1 /\ d.month \in 1 .. 12 /\ d.day - k \in 1 .. 31
        BY <1>1, <2>2, DateFields
      <3>3. [year |-> d.year, month |-> d.month, day |-> d.day - k] \in Date
        <4> DEFINE x == d.day - k
        <4>1. x \in 1 .. 31
          BY <3>2
        <4> HIDE DEF x
        <4>2. [year |-> d.year, month |-> d.month, day |-> x] \in Date
          BY <3>2, <4>1, MadeDate
        <4> QED BY <4>2 DEF x
      <3> QED BY <2>1, <3>1, <3>3
    <2> HIDE DEF f
    <2>4. MonthNo(f) = MonthNo(d) /\ Length(f) = Length(d)
      BY <2>3 DEF MonthNo, Length
    <2>5. CalendarDay(f)
      BY <1>1, <2>3, <2>4 DEF CalendarDay, Length
    <2>6. f.day + k = d.day /\ f.day + k <= Length(f)
      BY <1>1, <2>3, <2>4
    <2>7. Plus(f, k) \in Date /\ MonthNo(Plus(f, k)) = MonthNo(d) /\ Plus(f, k).day = d.day
      BY <2>4, <2>5, <2>6, PlusNo
    <2>8. Plus(f, k) = d
      BY <1>1, <2>7, SameDate
    <2> QED BY <2>5, <2>8 DEF f
  <1>4. CASE ~(d.day > k)
    <2>1. first = [year |-> d.year, month |-> d.month, day |-> 1]
      BY <1>1, OtherDay
    <2>2. first.year = d.year /\ first.month = d.month /\ first.day = 1 /\ first \in Date
      <3>1. first.year = d.year /\ first.month = d.month /\ first.day = 1
        BY <2>1
      <3>2. d.year \in Nat /\ d.year >= 1 /\ d.month \in 1 .. 12 /\ 1 \in 1 .. 31
        BY <1>1, DateFields
      <3>3. [year |-> d.year, month |-> d.month, day |-> 1] \in Date
        <4> DEFINE x == 1
        <4>1. x \in 1 .. 31
          BY <3>2
        <4> HIDE DEF x
        <4>2. [year |-> d.year, month |-> d.month, day |-> x] \in Date
          BY <3>2, <4>1, MadeDate
        <4> QED BY <4>2 DEF x
      <3> QED BY <2>1, <3>1, <3>3
    <2> HIDE DEF first
    <2>3. MonthNo(first) = MonthNo(d) /\ CalendarDay(first)
      BY <1>1, <2>2, LastDays DEF MonthNo, CalendarDay, Length
    <2>4. CalendarDay(e) /\ Tomorrow(e) = first
      BY <1>1, <2>2, <2>3, TodayAfterYesterday
    <2> HIDE DEF e
    <2>5. /\ e \in Date /\ e.day \in 1 .. 31 /\ e.day <= Length(e) /\ Length(e) \in 28 .. 31
          /\ MonthNo(e) \in Nat
      BY <2>4, DayFields
    <2>6. e.day = Length(e) /\ MonthNo(e) = MonthNo(d) - 1
      <3>1. /\ e.day < Length(e) => first.day = e.day + 1
            /\ e.day = Length(e) => MonthNo(first) = MonthNo(e) + 1
        BY <2>4, TomorrowIsNext
      <3> QED BY <1>1, <2>2, <2>3, <2>5, <3>1
    <2>7. f = [year |-> e.year, month |-> e.month, day |-> e.day + d.day - k]
      BY <1>2, <1>4, <2>5, OtherDay
    <2>8. e.day + d.day - k \in 1 .. 31 /\ e.day + d.day - k <= Length(e)
      BY <1>1, <1>4, <2>5, <2>6
    <2>9. f.year = e.year /\ f.month = e.month /\ f.day = e.day + d.day - k /\ f \in Date
      <3>1. f.year = e.year /\ f.month = e.month /\ f.day = e.day + d.day - k
        BY <2>7
      <3>2. e.year \in Nat /\ e.year >= 1 /\ e.month \in 1 .. 12 /\ e.day + d.day - k \in 1 .. 31
        BY <2>5, <2>8, DateFields
      <3>3. [year |-> e.year, month |-> e.month, day |-> e.day + d.day - k] \in Date
        <4> DEFINE x == e.day + d.day - k
        <4>1. x \in 1 .. 31
          BY <3>2
        <4> HIDE DEF x
        <4>2. [year |-> e.year, month |-> e.month, day |-> x] \in Date
          BY <3>2, <4>1, MadeDate
        <4> QED BY <4>2 DEF x
      <3> QED BY <2>7, <3>1, <3>3
    <2> HIDE DEF f
    <2>10. MonthNo(f) = MonthNo(e) /\ Length(f) = Length(e)
      BY <2>9 DEF MonthNo, Length
    <2>11. CalendarDay(f)
      BY <2>8, <2>9, <2>10 DEF CalendarDay, Length
    <2>12. f.day + k > Length(f) /\ f.day + k - Length(f) = d.day
      BY <1>1, <2>5, <2>6, <2>9, <2>10
    <2>13. Plus(f, k) \in Date /\ MonthNo(Plus(f, k)) = MonthNo(d) /\ Plus(f, k).day = d.day
      <3>1. MonthNo(Plus(f, k)) = MonthNo(f) + 1 /\ Plus(f, k).day = d.day /\ Plus(f, k) \in Date
        BY <2>11, <2>12, PlusNo
      <3>2. MonthNo(f) + 1 = MonthNo(d)
        BY <1>1, <2>6, <2>10
      <3> QED BY <3>1, <3>2
    <2>14. Plus(f, k) = d
      BY <1>1, <2>13, SameDate
    <2> QED BY <2>11, <2>14 DEF f
  <1> QED BY <1>3, <1>4

\* The days of a week are those from its first to its last, each once.
LEMMA DaysOfWeek ==
  ASSUME NEW d, CalendarDay(d)
  PROVE  /\ \A k \in 0 .. 6 : NotBefore(Plus(d, k), d) /\ NotBefore(Plus(d, 6), Plus(d, k))
         /\ \A j, k \in 0 .. 6 : Plus(d, j) = Plus(d, k) => j = k
         /\ \A e : CalendarDay(e) /\ NotBefore(e, d) /\ NotBefore(Plus(d, 6), e) =>
               \E k \in 0 .. 6 : e = Plus(d, k)
  <1> DEFINE p(k) == Plus(d, k)
             n == Length(d)
             M == MonthNo(d)
             x == d.day
  <1>1. d \in Date /\ x \in 1 .. 31 /\ x <= n /\ n \in 28 .. 31 /\ M \in Nat
    BY DayFields
  <1>2. ASSUME NEW k \in 0 .. 6
        PROVE  /\ p(k) \in Date
               /\ x + k <= n => MonthNo(p(k)) = M /\ p(k).day = x + k
               /\ x + k > n => MonthNo(p(k)) = M + 1 /\ p(k).day = x + k - n
    BY PlusNo
  <1>3. ASSUME NEW k \in 0 .. 6
        PROVE  NotBefore(p(k), d) /\ NotBefore(p(6), p(k))
    <2>1. NotBefore(p(k), d) <=> MonthNo(p(k)) > M \/ (MonthNo(p(k)) = M /\ p(k).day >= x)
      BY <1>1, <1>2, InOrder
    <2>2. p(6) \in Date /\ p(k) \in Date
      BY <1>2
    <2>3. NotBefore(p(6), p(k)) <=> MonthNo(p(6)) > MonthNo(p(k))
                                      \/ (MonthNo(p(6)) = MonthNo(p(k)) /\ p(6).day >= p(k).day)
      BY <2>2, InOrder
    <2>4. /\ x + 6 <= n => MonthNo(p(6)) = M /\ p(6).day = x + 6
          /\ x + 6 > n => MonthNo(p(6)) = M + 1 /\ p(6).day = x + 6 - n
      BY <1>2
    <2>5. /\ x + k <= n => MonthNo(p(k)) = M /\ p(k).day = x + k
          /\ x + k > n => MonthNo(p(k)) = M + 1 /\ p(k).day = x + k - n
      BY <1>2
    <2> HIDE DEF p, n, M, x
    <2> QED BY <1>1, <2>1, <2>3, <2>4, <2>5
  <1>4. ASSUME NEW j \in 0 .. 6, NEW k \in 0 .. 6, p(j) = p(k)
        PROVE  j = k
    <2>1. /\ x + j <= n => MonthNo(p(k)) = M /\ p(k).day = x + j
          /\ x + j > n => MonthNo(p(k)) = M + 1 /\ p(k).day = x + j - n
      BY <1>2, <1>4
    <2>2. /\ x + k <= n => MonthNo(p(k)) = M /\ p(k).day = x + k
          /\ x + k > n => MonthNo(p(k)) = M + 1 /\ p(k).day = x + k - n
      BY <1>2
    <2> HIDE DEF p, n, M, x
    <2> QED BY <1>1, <2>1, <2>2
  <1>5. ASSUME NEW e, CalendarDay(e), NotBefore(e, d), NotBefore(p(6), e)
        PROVE  \E k \in 0 .. 6 : e = p(k)
    <2> DEFINE N == MonthNo(e)
               z == e.day
    <2>1. e \in Date /\ z \in 1 .. 31 /\ z <= Length(e) /\ N \in Nat
      BY <1>5, DayFields
    <2>2. N = M => z <= n
      BY <1>1, <2>1, SameMonth
    <2>3. N > M \/ (N = M /\ z >= x)
      BY <1>1, <1>5, <2>1, InOrder
    <2>4. p(6) \in Date
      BY <1>2
    <2>5. MonthNo(p(6)) > N \/ (MonthNo(p(6)) = N /\ p(6).day >= z)
      BY <1>5, <2>1, <2>4, InOrder
    <2>6. /\ x + 6 <= n => MonthNo(p(6)) = M /\ p(6).day = x + 6
          /\ x + 6 > n => MonthNo(p(6)) = M + 1 /\ p(6).day = x + 6 - n
      BY <1>2
    <2>7. ASSUME NEW k \in 0 .. 6, MonthNo(p(k)) = N, p(k).day = z
          PROVE  e = p(k)
      <3>1. p(k) \in Date
        BY <1>2
      <3> QED BY <2>1, <2>7, <3>1, SameDate
    <2>8. CASE N = M
      <3> DEFINE k == z - x
      <3>1. k \in 0 .. 6 /\ x + k = z /\ x + k <= n
        <4> HIDE DEF p, n, M, x, N, z
        <4> QED BY <1>1, <2>1, <2>2, <2>3, <2>5, <2>6, <2>8 DEF k
      <3> HIDE DEF k
      <3>2. MonthNo(p(k)) = N /\ p(k).day = z
        BY <1>2, <2>8, <3>1
      <3> QED BY <2>7, <3>1, <3>2
    <2>9. CASE N # M
      <3> DEFINE k == z + n - x
      <3>1. k \in 0 .. 6 /\ x + k - n = z /\ x + k > n /\ N = M + 1
        <4> HIDE DEF p, n, M, x, N, z
        <4> QED BY <1>1, <2>1, <2>3, <2>5, <2>6, <2>9 DEF k
      <3> HIDE DEF k
      <3>2. MonthNo(p(k)) = N /\ p(k).day = z
        BY <1>2, <3>1
      <3> QED BY <2>7, <3>1, <3>2
    <2> QED BY <2>8, <2>9
  <1> QED BY <1>3, <1>4, <1>5

\* What a user has spent from a day to another.
SpentBetween(u, from, to) == books!Expenses(books!Own(u, from, to))

LEMMA SpentFrom ==
  ASSUME NEW u, NEW from, NEW to
  PROVE  /\ SpentBetween(u, from, to) \in SUBSET Recorded
         /\ \A i \in SpentBetween(u, from, to) :
               NotBefore(entries[i].of.date, from) /\ NotBefore(to, entries[i].of.date)
  BY BetweenDates DEF SpentBetween, books!Expenses, books!Own

LEMMA WeekFields ==
  ASSUME NEW u, NEW day
  PROVE  LET week == books!Weekly(u, day)
             S == SpentBetween(u, week.from, Plus(week.from, 6))
         IN  /\ week.from = books!Minus(day, Weekday(day))
             /\ week.total = books!Total(S)
             /\ week.areas = books!GroupBy(S, "area")
             /\ week.days = [k \in 0 .. 6 |-> books!At(books!GroupBy(S, "date"), Plus(week.from, k))]
  <1> DEFINE week == books!Weekly(u, day)
             from == books!Minus(day, books!Weekday(day))
             T == books!Expenses(books!Own(u, from, books!Plus(from, 6)))
             S == SpentBetween(u, week.from, Plus(week.from, 6))
  <1>1. /\ week.from = from /\ week.total = books!Total(T) /\ week.areas = books!GroupBy(T, "area")
        /\ week.days = [k \in 0 .. 6 |-> books!At(books!GroupBy(T, "date"), books!Plus(from, k))]
    BY DEF books!Weekly
  <1>2. from = books!Minus(day, Weekday(day))
    BY SameBooks
  <1> HIDE DEF from, week
  <1>3. T = S
    BY <1>1, SameBooks DEF SpentBetween
  <1>4. \A k \in 0 .. 6 : books!Plus(from, k) = Plus(week.from, k)
    BY <1>1, SameBooks
  <1> HIDE DEF T, S
  <1>5. week.days = [k \in 0 .. 6 |-> books!At(books!GroupBy(S, "date"), Plus(week.from, k))]
    BY <1>1, <1>3, <1>4
  <1>6. /\ week.from = books!Minus(day, Weekday(day))
        /\ week.total = books!Total(S)
        /\ week.areas = books!GroupBy(S, "area")
    BY <1>1, <1>2, <1>3
  <1> QED BY <1>5, <1>6 DEF week, S

\* The days of a week add up to it, as do its areas, and the day asked for is one of them.
LEMMA WeekAddsUp ==
  ASSUME BookInv, NEW u, NEW day, CalendarDay(day), day.year > 1
  PROVE  LET week == books!Weekly(u, day)
         IN  /\ books!SumOf(week.days) = week.total
             /\ books!SumOf(week.areas) = week.total
             /\ NotBefore(day, week.from) /\ NotBefore(Plus(week.from, 6), day)
  <1> DEFINE week == books!Weekly(u, day)
             from == week.from
             S == SpentBetween(u, from, Plus(from, 6))
             D == 0 .. 6
             P == [k \in D |-> Valued(S, "date", Plus(from, k))]
             g == [k \in D |-> SumFunctionOnSet(Amount, P[k])]
             f == week.days
  <1>1. /\ from = books!Minus(day, Weekday(day))
        /\ week.total = books!Total(S) /\ week.areas = books!GroupBy(S, "area")
        /\ f = [k \in D |-> books!At(books!GroupBy(S, "date"), Plus(from, k))]
    BY WeekFields
  <1>2. Weekday(day) \in 0 .. 6
    BY Weekdays DEF CalendarDay
  <1>3. CalendarDay(from) /\ Plus(from, Weekday(day)) = day
    BY <1>1, <1>2, MinusThenPlus
  <1> HIDE DEF week, from, S
  <1>4. NotBefore(day, from) /\ NotBefore(Plus(from, 6), day)
    BY <1>2, <1>3, DaysOfWeek
  <1>5. S \in SUBSET Recorded
        /\ \A i \in S : NotBefore(entries[i].of.date, from) /\ NotBefore(Plus(from, 6), entries[i].of.date)
    BY SpentFrom DEF S
  <1>6. IsFiniteSet(S) /\ (\A i \in S : Amount[i] \in Int) /\ IsFiniteSet(D)
        /\ books!Total(S) = SumFunctionOnSet(Amount, S)
    <2>1. IsFiniteSet(0 .. 6)
      <3>1. 0 \in Int /\ 6 \in Int
        OBVIOUS
      <3> QED BY <3>1, FS_Interval, Zenon
    <2> QED BY <1>5, <2>1, RecordedSums
  <1>7. ASSUME NEW k \in D
        PROVE  /\ P[k] = Valued(S, "date", Plus(from, k))
               /\ P[k] \in SUBSET S
               /\ f[k] = g[k]
    <2>1. P[k] = Valued(S, "date", Plus(from, k)) /\ g[k] = SumFunctionOnSet(Amount, P[k])
      OBVIOUS
    <2>2. P[k] \in SUBSET S
      BY <2>1 DEF Valued
    <2> HIDE DEF P, g
    <2>3. f[k] = books!At(books!GroupBy(S, "date"), Plus(from, k))
      <3> HIDE DEF f
      <3> QED BY <1>1
    <2> HIDE DEF f
    <2>4. f[k] = books!Total(P[k])
      BY <1>5, <2>1, <2>3, GroupAt
    <2>5. books!Total(P[k]) = SumFunctionOnSet(Amount, P[k])
      BY <1>5, <2>2, RecordedSums
    <2> QED BY <2>1, <2>2, <2>4, <2>5
  <1>8. f = g
    <2>1. g = [k \in D |-> g[k]]
      OBVIOUS
    <2>2. f = [k \in D |-> f[k]]
      <3> DEFINE h(k) == books!At(books!GroupBy(S, "date"), Plus(from, k))
      <3>1. f = [k \in D |-> h(k)]
        BY <1>1
      <3> HIDE DEF f, h, D
      <3> QED BY <3>1
    <2> HIDE DEF f, g, P, D
    <2> QED BY <1>7, <2>1, <2>2
  <1>9. P \in [D -> SUBSET S] /\ \A j \in D, k \in D : j # k => P[j] \cap P[k] = {}
    <2>1. P = [k \in D |-> P[k]]
      OBVIOUS
    <2> HIDE DEF P
    <2>2. \A j \in D, k \in D : j # k => Plus(from, j) # Plus(from, k)
      BY <1>3, DaysOfWeek
    <2> HIDE DEF D
    <2>3. P \in [D -> SUBSET S]
      BY <1>7, <2>1
    <2>4. \A j \in D, k \in D : j # k => P[j] \cap P[k] = {}
      BY <1>7, <2>2 DEF Valued
    <2> QED BY <2>3, <2>4
  <1>10. UNION {P[k] : k \in D} = S
    <2> HIDE DEF P
    <2>1. ASSUME NEW i \in S
          PROVE  \E k \in D : i \in P[k]
      <3> DEFINE e == entries[i].of.date
      <3>1. i \in Recorded /\ NotBefore(e, from) /\ NotBefore(Plus(from, 6), e)
        BY <1>5
      <3>2. CalendarDay(e)
        BY <3>1, RecordedFields
      <3>3. PICK k \in 0 .. 6 : e = Plus(from, k)
        <4> HIDE DEF e
        <4> QED BY <1>3, <3>1, <3>2, DaysOfWeek
      <3>4. i \in P[k]
        BY <1>7, <3>3 DEF Valued
      <3> QED BY <3>4
    <2> HIDE DEF D
    <2> QED BY <1>7, <2>1
  <1>11. books!SumOf(f) = SumFunctionOnSet(g, D)
    <2>1. DOMAIN g = D
      OBVIOUS
    <2> HIDE DEF f, g, D
    <2> QED BY <1>6, <1>8, <2>1, SumsOf
  <1>12. SumFunctionOnSet(g, D) = SumFunctionOnSet(Amount, S)
    <2>1. SumFunctionOnSet(g, D) = SumFunctionOnSet(Amount, UNION {P[k] : k \in D})
      <3> HIDE DEF P, D
      <3> QED BY <1>6, <1>9, SumOfParts
    <2> HIDE DEF g, P, D
    <2> QED BY <1>10, <2>1
  <1> HIDE DEF f, g, D, P
  <1>13. books!SumOf(f) = week.total
    BY <1>1, <1>6, <1>11, <1>12
  <1>14. books!SumOf(week.areas) = week.total
    BY <1>1, <1>5, BreakdownAddsUp
  <1> QED BY <1>4, <1>13, <1>14 DEF f, week, from

\* The export of an area has what the statistics count for it.
LEMMA AreaExportsAgree ==
  ASSUME BookInv, NEW u, NEW day, NEW area \in DOMAIN books!Weekly(u, day).areas
  PROVE  LET week == books!Weekly(u, day)
         IN  week.areas[area] = books!Total(books!Expenses(
                 books!Exported(u, week.from, Plus(week.from, 6), Null, area)))
  <1> DEFINE week == books!Weekly(u, day)
             S == SpentBetween(u, week.from, Plus(week.from, 6))
             X == books!Expenses(books!Exported(u, week.from, Plus(week.from, 6), Null, area))
  <1>1. week.areas = books!GroupBy(S, "area")
    BY WeekFields
  <1>2. S \in SUBSET Recorded
    BY SpentFrom
  <1>3. area \in DOMAIN week.areas
    OBVIOUS
  <1> HIDE DEF week
  <1>4. week.areas[area] = books!Total({i \in S : entries[i].of.area = area})
        /\ \E i \in S : area = entries[i].of.area
    <2> HIDE DEF S
    <2> QED BY <1>1, <1>3 DEF books!GroupBy
  <1>5. area # Null
    <2> HIDE DEF S
    <2>1. PICK i \in S : area = entries[i].of.area
      BY <1>4
    <2>2. i \in Recorded
      BY <1>2
    <2> QED BY <2>1, <2>2, RecordedFields
  <1>6. X = {i \in S : entries[i].of.area = area}
    <2>1. \A i : Null \in {Null, entries[i].of.category} /\ area \in {Null, entries[i].of.area}
                    <=> entries[i].of.area = area
      BY <1>5
    <2> QED BY <2>1 DEF SpentBetween, books!Exported, books!Expenses
  <1>7. week.areas[area] = books!Total(X)
    <2> HIDE DEF S, X
    <2> QED BY <1>4, <1>6
  <1> QED BY <1>7 DEF week

LEMMA AskedMonths ==
  ASSUME NEW at \in books!Months
  PROVE  at.year \in Nat /\ at.year > 1 /\ at.month \in 1 .. 12
  <1>1. PICK kind \in Kinds : at = [year |-> kind.date.year, month |-> kind.date.month]
    BY DEF books!Months
  <1> DEFINE d == kind.date
  <1>2. CalendarDay(d) /\ d.year > 1
    BY BookAssumption
  <1>3. at.year = d.year /\ at.month = d.month
    BY <1>1
  <1> HIDE DEF d
  <1> QED BY <1>2, <1>3, DayFields

LEMMA MonthAgrees ==
  ASSUME BookInv, NEW u, NEW y \in Nat, y > 1, NEW m \in 1 .. 12
  PROVE  LET stats == books!Monthly(u, y, m)
             last == books!PreviousMonth(y, m)
         IN  /\ books!SumOf(stats.categories) = stats.expense
             /\ books!SumOf(stats.assets) = stats.expense
             /\ books!Yearly(u, y).months[m] = [income |-> stats.income, expense |-> stats.expense]
  <1> DEFINE stats == books!Monthly(u, y, m)
  <1>1. /\ stats.income = books!Total(books!Income(OwnOf(u, y, m)))
        /\ stats.expense = books!Total(Spent(u, y, m))
        /\ stats.categories = books!GroupBy(Spent(u, y, m), "category")
        /\ stats.assets = books!GroupBy(Spent(u, y, m), "asset")
    BY MonthFields
  <1> HIDE DEF stats
  <1>2. books!SumOf(stats.categories) = stats.expense /\ books!SumOf(stats.assets) = stats.expense
    BY <1>1, SpentAre, BreakdownAddsUp
  <1>3. books!Yearly(u, y).months[m] = [income |-> stats.income, expense |-> stats.expense]
    BY <1>1, MonthOfYear
  <1> QED BY <1>2, <1>3 DEF stats

LEMMA BooksAgree == BookInv => books!ViewsAgree
  <1> SUFFICES ASSUME BookInv PROVE books!ViewsAgree
    OBVIOUS
  <1>1. ASSUME NEW u \in Users, NEW at \in books!Months
        PROVE
        LET y == at.year
            m == at.month
            stats == books!Monthly(u, y, m)
            list(family) == books!Listed(u, family, books!On(y, m, 1), books!EndOf(y, m))
            kept == {i \in books!Expenses(books!Own(u, books!On(y, m, 1), books!EndOf(y, m))) :
                        entries[i].of.private \/ ~entries[i].tagged}
        IN  /\ books!SumOf(stats.categories) = stats.expense
            /\ books!SumOf(stats.assets) = stats.expense
            /\ books!Yearly(u, y).months[m] = [income |-> stats.income, expense |-> stats.expense]
            /\ books!Performance(u, y, m) = stats.budgets
            /\ books!Trends(u, y, m) = [c \in DOMAIN stats.categories |->
                                     [now |-> stats.categories[c], before |-> stats.before[c]]]
            /\ LET last == books!PreviousMonth(y, m)
               IN  stats.expenseBefore = books!Monthly(u, last.year, last.month).expense
            /\ books!OverBudget(u, y, m) =
                  [i \in {i \in DOMAIN stats.budgets : stats.budgets[i].remaining < 0} |->
                      0 - stats.budgets[i].remaining]
            /\ \A S \in SUBSET DOMAIN stats.budgets :
                  (\A i, j \in S : i # j => budgets[i].of.category # budgets[j].of.category) =>
                      books!MapThenSumSet(LAMBDA i : stats.budgets[i].actual, S)
                        = books!Total({j \in books!Expenses(books!Own(u, books!On(y, m, 1), books!EndOf(y, m))) :
                                    \E i \in S : entries[j].of.category = budgets[i].of.category})
            /\ \A c \in DOMAIN stats.categories :
                  stats.categories[c]
                    = books!Total(books!Expenses(books!Exported(u, books!On(y, m, 1), books!EndOf(y, m), c, Null)))
            /\ u \in members =>
                  /\ books!SumOf(books!Usage(y, m)[u].assets) = books!Usage(y, m)[u].total
                  /\ stats.expense - books!Usage(y, m)[u].total = books!Total(kept)
                  /\ books!Total(books!Expenses(list(TRUE)))
                       = books!SumOf(books!ByMember(y, m)) + books!Total({i \in kept : entries[i].tagged})
            /\ list(TRUE) \cup list(FALSE)
                 = {i \in books!Between(books!On(y, m, 1), books!EndOf(y, m)) : books!Viewable(u, i)}
    <2> DEFINE y == at.year
               m == at.month
               stats == books!Monthly(u, y, m)
               kept == {i \in books!Expenses(books!Own(u, books!On(y, m, 1), books!EndOf(y, m))) :
                          entries[i].of.private \/ ~entries[i].tagged}
    <2>1. y \in Nat /\ y > 1 /\ m \in 1 .. 12
      BY AskedMonths
    <2> HIDE DEF y, m
    <2>2. /\ books!SumOf(stats.categories) = stats.expense
          /\ books!SumOf(stats.assets) = stats.expense
          /\ books!Yearly(u, y).months[m] = [income |-> stats.income, expense |-> stats.expense]
      BY <2>1, MonthAgrees
    <2>3. books!Performance(u, y, m) = stats.budgets
      BY <2>1, BudgetViews
    <2>4. books!Trends(u, y, m) = [c \in DOMAIN stats.categories |->
                                     [now |-> stats.categories[c], before |-> stats.before[c]]]
      BY <2>1, AnalysisAgrees
    <2>5. LET last == books!PreviousMonth(y, m)
          IN  stats.expenseBefore = books!Monthly(u, last.year, last.month).expense
      BY <2>1, ComparedWithIt
    <2>6. books!OverBudget(u, y, m) =
                  [i \in {i \in DOMAIN stats.budgets : stats.budgets[i].remaining < 0} |->
                      0 - stats.budgets[i].remaining]
      BY <2>1, ExceededBudgets
    <2>7. ASSUME NEW S \in SUBSET DOMAIN stats.budgets,
                 \A i, j \in S : i # j => budgets[i].of.category # budgets[j].of.category
          PROVE  books!MapThenSumSet(LAMBDA i : stats.budgets[i].actual, S)
                   = books!Total({j \in books!Expenses(books!Own(u, books!On(y, m, 1), books!EndOf(y, m))) :
                                    \E i \in S : entries[j].of.category = budgets[i].of.category})
      <3> DEFINE f == [i \in S |-> stats.budgets[i].actual]
      <3>1. IsFiniteSet(S)
        <4>1. S \in SUBSET Ids
          BY <2>1, BudgetFigures
        <4> QED BY <4>1, BookAssumption, FS_Subset
      <3>2. books!MapThenSumSet(LAMBDA i : stats.budgets[i].actual, S) = SumFunctionOnSet(f, S)
        BY <3>1, UsedTotals
      <3>3. SumFunctionOnSet(f, S)
              = books!Total({j \in books!Expenses(books!Own(u, books!On(y, m, 1), books!EndOf(y, m))) :
                                    \E i \in S : entries[j].of.category = budgets[i].of.category})
        <4> DEFINE view == stats.budgets
        <4>1. view = books!Monthly(u, y, m).budgets /\ f = [i \in S |-> view[i].actual]
          OBVIOUS
        <4> HIDE DEF f, stats
        <4>2. S \in SUBSET DOMAIN view
          OBVIOUS
        <4> HIDE DEF view
        <4>3. view = books!Monthly(u, y, m).budgets
          BY <4>1
        <4>4. SumFunctionOnSet([i \in S |-> view[i].actual], S)
                = books!Total({j \in books!Expenses(books!Own(u, books!On(y, m, 1), books!EndOf(y, m))) :
                                    \E i \in S : entries[j].of.category = budgets[i].of.category})
          <5> HIDE DEF kept
          <5> QED BY ONLY BookInv, <2>1, <2>7, <4>2, <4>3, BudgetsCountOnce, SMTT(30)
        <4> QED BY <4>1, <4>4
      <3> HIDE DEF f, stats
      <3> QED BY <3>2, <3>3
    <2>8. ASSUME NEW c \in DOMAIN stats.categories
          PROVE  stats.categories[c]
                    = books!Total(books!Expenses(books!Exported(u, books!On(y, m, 1), books!EndOf(y, m), c, Null)))
      BY <2>1, ExportsAgree
    <2>9. ASSUME u \in members
          PROVE   /\ books!SumOf(books!Usage(y, m)[u].assets) = books!Usage(y, m)[u].total
                  /\ stats.expense - books!Usage(y, m)[u].total = books!Total(kept)
                  /\ books!Total(books!Expenses(books!Listed(u, TRUE, books!On(y, m, 1), books!EndOf(y, m))))
                       = books!SumOf(books!ByMember(y, m)) + books!Total({i \in kept : entries[i].tagged})
      <3>1. /\ books!SumOf(books!Usage(y, m)[u].assets) = books!Usage(y, m)[u].total
            /\ books!Usage(y, m)[u].total = books!Total(SharedBy(u, y, m))
        BY <2>1, <2>9, UsageFields
      <3>2. kept = Kept(u, y, m)
        BY <2>1, SharedAre
      <3>3. stats.expense = books!Total(Spent(u, y, m))
        BY <2>1, MonthFields
      <3> HIDE DEF stats, kept
      <3> QED BY <2>1, <2>9, <3>1, <3>2, <3>3, GroupAgrees
    <2>10. books!Listed(u, TRUE, books!On(y, m, 1), books!EndOf(y, m))
             \cup books!Listed(u, FALSE, books!On(y, m, 1), books!EndOf(y, m))
             = {i \in books!Between(books!On(y, m, 1), books!EndOf(y, m)) : books!Viewable(u, i)}
      BY ListsAgree
    <2> HIDE DEF stats, kept
    <2> QED BY ONLY <2>2, <2>3, <2>4, <2>5, <2>6, <2>7, <2>8, <2>9, <2>10 DEF y, m, stats, kept
  <1>2. ASSUME NEW u \in Users, NEW y \in {at.year : at \in books!Months}
        PROVE  LET year == books!Yearly(u, y)
               IN  books!SumOf(year.categories)
                     = books!SumOf([m \in 1 .. 12 |-> year.months[m].expense])
    <2>1. PICK at \in books!Months : y = at.year
      OBVIOUS
    <2>2. y \in Nat
      BY <2>1, AskedMonths
    <2> QED BY <2>2, YearAddsUp
  <1>3. ASSUME NEW u \in Users, NEW day \in {kind.date : kind \in Kinds}
        PROVE  LET week == books!Weekly(u, day)
               IN  /\ books!SumOf(week.days) = week.total
                   /\ books!SumOf(week.areas) = week.total
                   /\ \A area \in DOMAIN week.areas :
                        week.areas[area] = books!Total(books!Expenses(
                           books!Exported(u, week.from, books!Plus(week.from, 6), Null, area)))
                   /\ books!NotBefore(day, week.from) /\ books!NotBefore(books!Plus(week.from, 6), day)
    <2> DEFINE week == books!Weekly(u, day)
    <2>1. CalendarDay(day) /\ day.year > 1
      BY BookAssumption
    <2>2. /\ books!SumOf(week.days) = week.total
          /\ books!SumOf(week.areas) = week.total
          /\ NotBefore(day, week.from) /\ NotBefore(Plus(week.from, 6), day)
      BY <2>1, WeekAddsUp
    <2>3. ASSUME NEW area \in DOMAIN week.areas
          PROVE  week.areas[area] = books!Total(books!Expenses(
                     books!Exported(u, week.from, Plus(week.from, 6), Null, area)))
      BY AreaExportsAgree
    <2> HIDE DEF week
    <2>4. /\ books!SumOf(week.days) = week.total
          /\ books!SumOf(week.areas) = week.total
          /\ \A area \in DOMAIN week.areas :
               week.areas[area] = books!Total(books!Expenses(
                  books!Exported(u, week.from, books!Plus(week.from, 6), Null, area)))
          /\ books!NotBefore(day, week.from) /\ books!NotBefore(books!Plus(week.from, 6), day)
      BY <2>2, <2>3, SameBooks
    <2> QED BY <2>4 DEF week
  <1> QED BY <1>1, <1>2, <1>3, Zenon DEF books!ViewsAgree

BooksInv == part = "household" => BookInv

\* The books keep what the theorems rest on, whatever the part that is explored does.
LEMMA BooksStays == BooksInv /\ [Next]_vars => BooksInv'
  <1> SUFFICES ASSUME BooksInv, [Next]_vars, part' = "household" PROVE BookInv'
    BY DEF BooksInv
  <1>1. CASE Next
    <2>1. part' = part
      BY <1>1 DEF Next
    <2>2. books!Next
      BY <1>1, <2>1 DEF Next
    <2> QED BY <2>1, <2>2, BooksStep DEF BooksInv
  <1>2. CASE UNCHANGED vars
    BY <1>2 DEF vars, bookVars, BooksInv, BookInv
  <1> QED BY <1>1, <1>2

\* The views of a user, of the group and of an analysis agree with one another in every
\* state of the books, whatever their transactions (of any sign), budgets and members, for
\* every month that a transaction may lie in and every week around it: each is a sum over
\* the transactions that its dates, user and group select, and these selections split and
\* unite as the views say.
THEOREM ViewsAlwaysAgree == Spec => []ViewsAgree
  <1>1. Init => BooksInv
    BY BooksBegin DEF Init, BooksInv
  <1>2. BooksInv /\ [Next]_vars => BooksInv'
    BY BooksStays
  <1>3. BooksInv => ViewsAgree
    BY BooksAgree DEF BooksInv, ViewsAgree
  <1> QED BY <1>1, <1>2, <1>3, PTL DEF Spec

-----------------------------------------------------------------------------
(* The settlements between the members of a family.                       *)

\* A function of the first n numbers is a sequence of length n.
LEMMA SequenceOf ==
  ASSUME NEW n \in Nat, NEW S, NEW f \in [1 .. n -> S]
  PROVE  f \in Seq(S) /\ Len(f) = n /\ DOMAIN f = 1 .. n
  <1>1. f \in Seq(S)
    BY SeqDef
  <1>2. DOMAIN f = 1 .. n /\ DOMAIN f = 1 .. Len(f) /\ Len(f) \in Nat
    BY <1>1, LenProperties
  <1>3. Len(f) = n
    <2> DEFINE l == Len(f)
    <2>1. l \in Nat /\ 1 .. l = 1 .. n
      BY <1>2
    <2> HIDE DEF l
    <2>2. l = n
      <3>1. CASE l = 0
        <4>1. 1 \notin 1 .. n
          BY <2>1, <3>1
        <4> QED BY <3>1, <4>1
      <3>2. CASE l # 0
        <4>1. l \in 1 .. n
          BY <2>1, <3>2
        <4>2. n \in 1 .. l
          BY <2>1, <4>1
        <4> QED BY <2>1, <4>1, <4>2
      <3> QED BY <3>1, <3>2
    <2> QED BY <2>2 DEF l
  <1> QED BY <1>1, <1>2, <1>3

\* Adding up the amounts of a list is adding up a function.
LEMMA AmountTotals ==
  ASSUME NEW S, IsFiniteSet(S), NEW list
  PROVE  books!MapThenSumSet(LAMBDA k : list[k].amount, S)
           = SumFunctionOnSet([k \in S |-> list[k].amount], S)
  <1> DEFINE f == [i \in S |-> list[i].amount]
             Rec(h) == h = [s \in SUBSET S |-> IF s = {} THEN 0
                                ELSE list[CHOOSE x \in s : TRUE].amount + h[s \ {CHOOSE x \in s : TRUE}]]
             k == CHOOSE h : Rec(h)
  <1>1. \A g : Rec(g) <=> Adds(g, f, S)
    <2> SUFFICES ASSUME NEW g PROVE Rec(g) <=> Adds(g, f, S)
      OBVIOUS
    <2>1. \A s \in SUBSET S : s # {} => list[Pick(s)].amount = f[Pick(s)]
      BY Picked
    <2>2. [s \in SUBSET S |-> IF s = {} THEN 0 ELSE list[Pick(s)].amount + g[s \ {Pick(s)}]]
            = [s \in SUBSET S |-> IF s = {} THEN 0 ELSE f[Pick(s)] + g[s \ {Pick(s)}]]
      <3> HIDE DEF f
      <3> QED BY <2>1
    <2> QED BY <2>2 DEF Adds, Pick
  <1>2. PICK g : Adds(g, f, S) /\ SumFunctionOnSet(f, S) = g[S]
    BY SumAdds
  <1>3. Rec(k)
    <2> HIDE DEF Rec, f
    <2>1. Rec(g)
      BY <1>1, <1>2
    <2> QED BY <2>1
  <1>4. books!MapThenSumSet(LAMBDA i : list[i].amount, S) = k[S]
    BY DEF books!MapThenSumSet, books!MapThenFoldSet
  <1>5. k[S] = g[S]
    <2> HIDE DEF k, f, Rec
    <2>1. Adds(k, f, S)
      BY <1>1, <1>3
    <2> QED BY <1>2, <2>1, AddsSame
  <1> QED BY <1>2, <1>4, <1>5

Transfer(n) == [from : 1 .. n, to : 1 .. n, amount : Nat \ {0}]

\* The sum of the amounts of the transfers of a list at the places in S.
AmountOf(list, S) == SumFunctionOnSet([k \in DOMAIN list |-> list[k].amount], S)

LEMMA AmountsOf ==
  ASSUME NEW n, NEW list \in Seq(Transfer(n)), NEW S \in SUBSET DOMAIN list
  PROVE  /\ IsFiniteSet(S)
         /\ books!MapThenSumSet(LAMBDA k : list[k].amount, S) = AmountOf(list, S)
         /\ AmountOf(list, S) \in Int
  <1>1. DOMAIN list = 1 .. Len(list) /\ Len(list) \in Nat
    BY LenProperties
  <1>2. IsFiniteSet(1 .. Len(list))
    <2> DEFINE l == Len(list)
    <2>1. 1 \in Int /\ l \in Int
      BY <1>1
    <2> HIDE DEF l
    <2>2. IsFiniteSet(1 .. l)
      BY <2>1, FS_Interval, Zenon
    <2> QED BY <2>2 DEF l
  <1>3. IsFiniteSet(S)
    BY <1>1, <1>2, FS_Subset
  <1>4. \A k \in S : list[k].amount \in Int
    <2>1. \A k \in S : list[k] \in Transfer(n)
      BY <1>1, ElementOfSeq
    <2> QED BY <2>1 DEF Transfer
  <1> DEFINE f == [k \in S |-> list[k].amount]
             g == [k \in DOMAIN list |-> list[k].amount]
  <1>5. books!MapThenSumSet(LAMBDA k : list[k].amount, S) = SumFunctionOnSet(f, S)
    BY <1>3, AmountTotals
  <1>6. \A k \in S : f[k] = g[k] /\ g[k] \in Int
    BY <1>4
  <1>7. AmountOf(list, S) = SumFunctionOnSet(g, S)
    BY DEF AmountOf
  <1>8. SumFunctionOnSet(f, S) = SumFunctionOnSet(g, S) /\ SumFunctionOnSet(g, S) \in Int
    <2> HIDE DEF f, g
    <2> QED BY <1>3, <1>6, SumSame, SumByElement
  <1> QED BY <1>3, <1>5, <1>7, <1>8

By(list, i) == {k \in DOMAIN list : list[k].from = i}
For(list, i) == {k \in DOMAIN list : list[k].to = i}

\* What a member pays and is paid.
LEMMA PaidAndGot ==
  ASSUME NEW n, NEW list \in Seq(Transfer(n)), NEW i
  PROVE  /\ books!Paid(list, i) = AmountOf(list, By(list, i)) /\ books!Paid(list, i) \in Int
         /\ books!Got(list, i) = AmountOf(list, For(list, i)) /\ books!Got(list, i) \in Int
  <1>1. By(list, i) \in SUBSET DOMAIN list /\ For(list, i) \in SUBSET DOMAIN list
    BY DEF By, For
  <1>2. /\ books!MapThenSumSet(LAMBDA k : list[k].amount, By(list, i)) = AmountOf(list, By(list, i))
        /\ AmountOf(list, By(list, i)) \in Int
    BY <1>1, AmountsOf
  <1>3. /\ books!MapThenSumSet(LAMBDA k : list[k].amount, For(list, i)) = AmountOf(list, For(list, i))
        /\ AmountOf(list, For(list, i)) \in Int
    BY <1>1, AmountsOf
  <1>4. books!Paid(list, i) = books!MapThenSumSet(LAMBDA k : list[k].amount, By(list, i))
    BY DEF books!Paid, By
  <1>5. books!Got(list, i) = books!MapThenSumSet(LAMBDA k : list[k].amount, For(list, i))
    BY DEF books!Got, For
  <1> QED BY <1>2, <1>3, <1>4, <1>5

\* One transfer more.
LEMMA OneMoreTransfer ==
  ASSUME NEW n, NEW list \in Seq(Transfer(n)), NEW t \in Transfer(n), NEW i
  PROVE  /\ Append(list, t) \in Seq(Transfer(n))
         /\ Len(Append(list, t)) = Len(list) + 1
         /\ \A k \in 1 .. Len(list) + 1 :
               Append(list, t)[k] = IF k = Len(list) + 1 THEN t ELSE list[k]
         /\ books!Paid(Append(list, t), i)
              = books!Paid(list, i) + (IF t.from = i THEN t.amount ELSE 0)
         /\ books!Got(Append(list, t), i)
              = books!Got(list, i) + (IF t.to = i THEN t.amount ELSE 0)
  <1> DEFINE new == Append(list, t)
             l == Len(list)
             m == l + 1
             f == [k \in DOMAIN list |-> list[k].amount]
             g == [k \in DOMAIN new |-> new[k].amount]
  <1>1. /\ new \in Seq(Transfer(n)) /\ Len(new) = m
        /\ \A k \in 1 .. m : new[k] = IF k = m THEN t ELSE list[k]
        /\ l \in Nat /\ DOMAIN list = 1 .. l /\ DOMAIN new = 1 .. m
    BY LenProperties
  <1>2. t.amount \in Int
    BY DEF Transfer
  <1> HIDE DEF new, l
  <1>3. ASSUME NEW S \in SUBSET DOMAIN list
        PROVE  /\ AmountOf(new, S) = AmountOf(list, S)
               /\ AmountOf(new, S \cup {m}) = AmountOf(list, S) + t.amount
    <2>1. S \in SUBSET DOMAIN new /\ S \cup {m} \in SUBSET DOMAIN new /\ m \notin S
      BY <1>1
    <2>2. IsFiniteSet(S) /\ IsFiniteSet(S \cup {m})
      BY <1>1, <2>1, AmountsOf
    <2>3. \A k \in S : g[k] = f[k]
      <3> SUFFICES ASSUME NEW k \in S PROVE g[k] = f[k]
        OBVIOUS
      <3>1. k \in 1 .. m /\ k # m /\ k \in DOMAIN list /\ k \in DOMAIN new
        BY <1>1, <2>1
      <3>2. new[k] = list[k]
        BY <1>1, <3>1
      <3> QED BY <3>1, <3>2
    <2>4. m \in DOMAIN new /\ g[m] = t.amount
      <3>1. m \in 1 .. m
        BY <1>1
      <3>2. new[m] = t
        BY <1>1, <3>1
      <3> QED BY <1>1, <3>1, <3>2
    <2>5. AmountOf(new, S) = SumFunctionOnSet(g, S) /\ AmountOf(list, S) = SumFunctionOnSet(f, S)
          /\ AmountOf(new, S \cup {m}) = SumFunctionOnSet(g, S \cup {m})
      BY DEF AmountOf
    <2>6. \A k \in S \cup {m} : g[k] \in Int
      <3> SUFFICES ASSUME NEW k \in S \cup {m} PROVE g[k] \in Int
        OBVIOUS
      <3>1. k \in DOMAIN new /\ k \in 1 .. Len(new)
        BY <1>1, <2>1
      <3>2. new[k] \in Transfer(n)
        BY <1>1, <3>1, ElementOfSeq
      <3> QED BY <3>1, <3>2 DEF Transfer
    <2> HIDE DEF f, g, m
    <2>7. SumFunctionOnSet(g, S) = SumFunctionOnSet(f, S)
      BY <2>2, <2>3, SumSame
    <2>8. SumFunctionOnSet(g, S \cup {m}) = g[m] + SumFunctionOnSet(g, (S \cup {m}) \ {m})
      BY <2>2, <2>6, SumByElement
    <2>9. (S \cup {m}) \ {m} = S
      BY <2>1
    <2>10. SumFunctionOnSet(g, S) \in Int
      BY <2>2, <2>6, SumByElement
    <2>11. SumFunctionOnSet(g, S \cup {m}) = t.amount + SumFunctionOnSet(f, S)
      BY <2>4, <2>7, <2>8, <2>9
    <2>12. SumFunctionOnSet(g, S \cup {m}) = SumFunctionOnSet(f, S) + t.amount
      BY ONLY <1>2, <2>7, <2>10, <2>11
    <2> QED BY <2>5, <2>7, <2>12
  <1>4. /\ By(new, i) = IF t.from = i THEN By(list, i) \cup {m} ELSE By(list, i)
        /\ For(new, i) = IF t.to = i THEN For(list, i) \cup {m} ELSE For(list, i)
    <2>1. \A k \in 1 .. l : k \in 1 .. m /\ k # m /\ new[k] = list[k]
      BY <1>1
    <2>2. m \in 1 .. m /\ m \notin 1 .. l /\ new[m] = t /\ 1 .. m = 1 .. l \cup {m}
      BY <1>1
    <2>3. By(new, i) = {k \in 1 .. l : list[k].from = i} \cup {k \in {m} : t.from = i}
      <3> HIDE DEF m
      <3> QED BY <1>1, <2>1, <2>2 DEF By
    <2>4. For(new, i) = {k \in 1 .. l : list[k].to = i} \cup {k \in {m} : t.to = i}
      <3> HIDE DEF m
      <3> QED BY <1>1, <2>1, <2>2 DEF For
    <2> HIDE DEF m
    <2> QED BY <1>1, <2>3, <2>4 DEF By, For
  <1>5. By(list, i) \in SUBSET DOMAIN list /\ For(list, i) \in SUBSET DOMAIN list
    BY DEF By, For
  <1>6. /\ AmountOf(new, By(list, i)) = AmountOf(list, By(list, i))
        /\ AmountOf(new, By(list, i) \cup {m}) = AmountOf(list, By(list, i)) + t.amount
    BY <1>3, <1>5
  <1>7. /\ AmountOf(new, For(list, i)) = AmountOf(list, For(list, i))
        /\ AmountOf(new, For(list, i) \cup {m}) = AmountOf(list, For(list, i)) + t.amount
    BY <1>3, <1>5
  <1>8. /\ books!Paid(list, i) = AmountOf(list, By(list, i)) /\ books!Paid(list, i) \in Int
        /\ books!Got(list, i) = AmountOf(list, For(list, i)) /\ books!Got(list, i) \in Int
    BY PaidAndGot
  <1>9. /\ books!Paid(new, i) = AmountOf(new, By(new, i))
        /\ books!Got(new, i) = AmountOf(new, For(new, i))
    BY <1>1, PaidAndGot
  <1> HIDE DEF m
  <1>10. books!Paid(new, i) = books!Paid(list, i) + (IF t.from = i THEN t.amount ELSE 0)
    BY <1>4, <1>6, <1>8, <1>9
  <1>11. books!Got(new, i) = books!Got(list, i) + (IF t.to = i THEN t.amount ELSE 0)
    BY <1>4, <1>7, <1>8, <1>9
  <1> QED BY <1>1, <1>10, <1>11 DEF new, l, m

\* Whoever comes first is one of them.
LEMMA FirstOne ==
  ASSUME NEW n \in Nat, NEW S \in SUBSET (1 .. n), S # {}
  PROVE  books!Min(S) \in S
  <1>1. S \in SUBSET Nat
    OBVIOUS
  <1>2. PICK k \in S : \A m \in S : k <= m
    BY <1>1, LeastElement
  <1> QED BY <1>2 DEF books!Min

\* Who still owes something or is still owed something.
Open(S, left) == {i \in S : left[i] # 0}

\* Nobody owes anything any more, or nobody is owed anything.
Finished(n, left) == (\A i \in 1 .. n : left[i] >= 0) \/ (\A i \in 1 .. n : left[i] <= 0)

\* What every payment keeps: what is left of a difference lies between it and 0, and is just
\* what the payments made so far leave of it; the differences have the same sum; and each
\* payment is the last one of somebody, so that there are fewer payments than members.
Walking(n, diff, at) ==
    /\ at.left \in [1 .. n -> Int]
    /\ at.made \in Seq(Transfer(n))
    /\ \A i \in 1 .. n :
          /\ at.left[i] \in 0 .. diff[i] \cup diff[i] .. 0
          /\ at.left[i] = diff[i] + books!Paid(at.made, i) - books!Got(at.made, i)
    /\ SumFunction(at.left) = SumFunction(diff)
    /\ Len(at.made) + Cardinality(Open(1 .. n, at.left)) <= n
    /\ Len(at.made) < n

\* A debtor has paid a creditor.
HasPaid(S, left, from, to, amount, new) ==
    /\ IsFiniteSet(S) /\ from \in S /\ to \in S
    /\ left \in [S -> Int] /\ left[from] < 0 /\ left[to] > 0
    /\ amount = books!Payment(0 - left[from], left[to])
    /\ new \in [S -> Int]
    /\ new[from] = left[from] + amount /\ new[to] = left[to] - amount
    /\ \A i \in S : i # from /\ i # to => new[i] = left[i]

\* It changes nobody from owing to being owed or back, keeps the sum, and closes the account
\* of one of the two.
LEMMA AfterPayment ==
  ASSUME NEW S, NEW left, NEW from, NEW to, NEW amount, NEW new,
         HasPaid(S, left, from, to, amount, new)
  PROVE  /\ \A i \in S :
               new[i] = left[i] + (IF from = i THEN amount ELSE 0) - (IF to = i THEN amount ELSE 0)
         /\ \A i \in S : new[i] \in 0 .. left[i] \cup left[i] .. 0
         /\ SumFunction(new) = SumFunction(left)
         /\ \/ Open(S, new) \subseteq Open(S, left) \ {from}
            \/ Open(S, new) \subseteq Open(S, left) \ {to}
  <1>0. /\ IsFiniteSet(S) /\ from \in S /\ to \in S
        /\ left \in [S -> Int] /\ left[from] < 0 /\ left[to] > 0
        /\ amount = books!Payment(0 - left[from], left[to])
        /\ new \in [S -> Int]
        /\ new[from] = left[from] + amount /\ new[to] = left[to] - amount
        /\ \A i \in S : i # from /\ i # to => new[i] = left[i]
    BY DEF HasPaid
  <1>1. left[from] \in Int /\ left[to] \in Int /\ from # to
    BY <1>0
  <1>2. /\ amount \in Nat \ {0} /\ amount <= 0 - left[from] /\ amount <= left[to]
        /\ amount = 0 - left[from] \/ amount = left[to]
    BY <1>0, <1>1 DEF books!Payment
  <1>3. ASSUME NEW i \in S
        PROVE  /\ new[i] = left[i] + (IF from = i THEN amount ELSE 0) - (IF to = i THEN amount ELSE 0)
               /\ new[i] \in 0 .. left[i] \cup left[i] .. 0 /\ new[i] \in Int
    <2>1. left[i] \in Int
      BY <1>0
    <2>2. CASE i = from
      BY <1>0, <1>1, <1>2, <2>2
    <2>3. CASE i = to
      BY <1>0, <1>1, <1>2, <2>3
    <2>4. CASE i # from /\ i # to
      BY <1>0, <2>1, <2>4
    <2> QED BY <2>2, <2>3, <2>4
  <1>4. SumFunction(new) = SumFunction(left)
    <2> DEFINE h == [i \in S |-> IF i = from THEN new[from] ELSE left[i]]
    <2>1. IsFiniteSet(S) /\ DOMAIN left = S /\ DOMAIN h = S /\ DOMAIN new = S
          /\ from \in S /\ to \in S
      BY <1>0
    <2>2. h[from] = new[from] /\ h[to] = left[to]
      BY <1>0, <1>1
    <2>3. \A y \in S : y # from => left[y] \in Int /\ h[y] = left[y]
      BY <1>0
    <2>4. \A y \in S : y # to => h[y] \in Int /\ new[y] = h[y]
      BY <1>0, <1>3
    <2>5. new[from] \in Int /\ new[to] \in Int
      BY <1>0
    <2> HIDE DEF h
    <2>6. SumFunction(h) = SumFunction(left) + (h[from] - left[from])
      <3>1. h[from] \in Int /\ left[from] \in Int
        BY <1>1, <2>2, <2>5
      <3> QED BY ONLY <2>1, <2>3, <3>1, SumOfOneChanged
    <2>7. SumFunction(new) = SumFunction(h) + (new[to] - h[to])
      <3>1. h[to] \in Int /\ new[to] \in Int
        BY <1>1, <2>2, <2>5
      <3> QED BY ONLY <2>1, <2>4, <3>1, SumOfOneChanged
    <2>8. SumFunction(left) \in Int
      <3>1. \A y \in S : left[y] \in Int
        BY <1>0
      <3> QED BY ONLY <2>1, <3>1, SumOfFunction
    <2>9. new[from] - left[from] = amount /\ new[to] - left[to] = 0 - amount /\ amount \in Int
      BY <1>0, <1>1, <1>2
    <2> QED BY ONLY <2>2, <2>6, <2>7, <2>8, <2>9
  <1>5. \/ Open(S, new) \subseteq Open(S, left) \ {from}
        \/ Open(S, new) \subseteq Open(S, left) \ {to}
    <2>1. Open(S, new) \subseteq Open(S, left)
      BY <1>0, <1>1 DEF Open
    <2>2. new[from] = 0 \/ new[to] = 0
      BY <1>0, <1>1, <1>2
    <2> QED BY <1>0, <2>1, <2>2 DEF Open
  <1> QED BY <1>3, <1>4, <1>5

\* A payment keeps all of this, unless nothing is left to be paid.
LEMMA PayOnce ==
  ASSUME NEW n \in Nat, NEW diff \in [1 .. n -> Int], NEW at, Walking(n, diff, at)
  PROVE  \/ books!Pay(at) = at /\ Finished(n, at.left)
         \/ /\ ~Finished(n, at.left) /\ Walking(n, diff, books!Pay(at))
            /\ Len(books!Pay(at).made) = Len(at.made) + 1
  <1> DEFINE left == at.left
             made == at.made
             owing == {i \in DOMAIN left : left[i] < 0}
             owed == {i \in DOMAIN left : left[i] > 0}
             from == books!Min(owing)
             to == books!Min(owed)
             amount == books!Payment(0 - left[from], left[to])
             new == [left EXCEPT ![from] = @ + amount, ![to] = @ - amount]
             t == [from |-> from, to |-> to, amount |-> amount]
             one == [left |-> new, made |-> Append(made, t)]
  <1>1. books!Pay(at) = IF owing = {} \/ owed = {} THEN at ELSE one
    BY DEF books!Pay
  <1>2. /\ left \in [1 .. n -> Int] /\ made \in Seq(Transfer(n)) /\ DOMAIN left = 1 .. n
        /\ \A i \in 1 .. n :
              /\ left[i] \in 0 .. diff[i] \cup diff[i] .. 0
              /\ left[i] = diff[i] + books!Paid(made, i) - books!Got(made, i)
        /\ SumFunction(left) = SumFunction(diff)
        /\ Len(made) + Cardinality(Open(1 .. n, left)) <= n
        /\ Len(made) < n
    BY DEF Walking
  <1>3. one.left = new /\ one.made = Append(made, t)
    OBVIOUS
  <1>4. t.from = from /\ t.to = to /\ t.amount = amount
    OBVIOUS
  <1>5. CASE owing = {} \/ owed = {}
    <2>1. Finished(n, left)
      <3> HIDE DEF left
      <3>1. \A i \in 1 .. n : left[i] \in Int
        BY <1>2
      <3>2. DOMAIN left = 1 .. n
        BY <1>2
      <3>3. \/ \A i \in 1 .. n : ~(left[i] < 0)
            \/ \A i \in 1 .. n : ~(left[i] > 0)
        BY ONLY <1>5, <3>2
      <3> QED BY ONLY <3>1, <3>3 DEF Finished
    <2> QED BY <1>1, <1>5, <2>1
  <1>6. CASE owing # {} /\ owed # {}
    <2>1. from \in 1 .. n /\ left[from] < 0
      <3>1. owing \in SUBSET (1 .. n)
        BY <1>2
      <3>2. from \in owing
        <4> HIDE DEF owing
        <4> QED BY <1>6, <3>1, FirstOne
      <3> HIDE DEF from
      <3> QED BY <3>1, <3>2
    <2>2. to \in 1 .. n /\ left[to] > 0
      <3>1. owed \in SUBSET (1 .. n)
        BY <1>2
      <3>2. to \in owed
        <4> HIDE DEF owed
        <4> QED BY <1>6, <3>1, FirstOne
      <3> HIDE DEF to
      <3> QED BY <3>1, <3>2
    <2> HIDE DEF from, to, owing, owed
    <2>3. /\ amount \in Nat \ {0} /\ new \in [1 .. n -> Int] /\ from # to
          /\ \A i \in 1 .. n :
                new[i] = left[i] + (IF from = i THEN amount ELSE 0) - (IF to = i THEN amount ELSE 0)
          /\ \A i \in 1 .. n : new[i] \in 0 .. left[i] \cup left[i] .. 0
          /\ SumFunction(new) = SumFunction(left)
          /\ \/ Open(1 .. n, new) \subseteq Open(1 .. n, left) \ {from}
             \/ Open(1 .. n, new) \subseteq Open(1 .. n, left) \ {to}
      <3>1. amount = books!Payment(0 - left[from], left[to])
        OBVIOUS
      <3>2. left \in [1 .. n -> Int] /\ left[from] \in Int /\ left[to] \in Int
        BY <1>2, <2>1, <2>2
      <3> HIDE DEF amount, left
      <3>3. from # to
        BY <2>1, <2>2, <3>2
      <3>4. amount \in Nat \ {0}
        BY <2>1, <2>2, <3>1, <3>2 DEF books!Payment
      <3>5. /\ new \in [1 .. n -> Int]
            /\ new[from] = left[from] + amount /\ new[to] = left[to] - amount
            /\ \A i \in 1 .. n : i # from /\ i # to => new[i] = left[i]
        BY <2>1, <2>2, <3>2, <3>3, <3>4
      <3> HIDE DEF new
      <3>6. IsFiniteSet(1 .. n)
        BY UpTo
      <3>7. /\ \A i \in 1 .. n :
                  new[i] = left[i] + (IF from = i THEN amount ELSE 0) - (IF to = i THEN amount ELSE 0)
            /\ \A i \in 1 .. n : new[i] \in 0 .. left[i] \cup left[i] .. 0
            /\ SumFunction(new) = SumFunction(left)
            /\ \/ Open(1 .. n, new) \subseteq Open(1 .. n, left) \ {from}
               \/ Open(1 .. n, new) \subseteq Open(1 .. n, left) \ {to}
        <4>1. HasPaid(1 .. n, left, from, to, amount, new)
          BY <2>1, <2>2, <3>1, <3>2, <3>5, <3>6 DEF HasPaid
        <4> QED BY <4>1, AfterPayment
      <3> QED BY <3>3, <3>4, <3>5, <3>7
    <2>4. t \in Transfer(n)
      <3> HIDE DEF amount
      <3> QED BY <2>1, <2>2, <2>3 DEF Transfer
    <2> HIDE DEF new, amount, t, one
    <2>5. /\ Append(made, t) \in Seq(Transfer(n))
          /\ Len(Append(made, t)) = Len(made) + 1
      BY <1>2, <2>4, OneMoreTransfer
    <2>6. ASSUME NEW i \in 1 .. n
          PROVE  /\ new[i] \in 0 .. diff[i] \cup diff[i] .. 0
                 /\ new[i] = diff[i] + books!Paid(Append(made, t), i) - books!Got(Append(made, t), i)
      <3>1. /\ books!Paid(Append(made, t), i) = books!Paid(made, i) + (IF from = i THEN amount ELSE 0)
            /\ books!Got(Append(made, t), i) = books!Got(made, i) + (IF to = i THEN amount ELSE 0)
        BY <1>2, <1>4, <2>4, OneMoreTransfer
      <3>2. books!Paid(made, i) \in Int /\ books!Got(made, i) \in Int
        BY <1>2, PaidAndGot
      <3>3. /\ left[i] \in 0 .. diff[i] \cup diff[i] .. 0
            /\ left[i] = diff[i] + books!Paid(made, i) - books!Got(made, i)
            /\ left[i] \in Int /\ diff[i] \in Int /\ amount \in Int
        <4>1. diff[i] \in Int /\ amount \in Int
          BY <2>3
        <4> HIDE DEF left, made, amount
        <4>2. left[i] \in Int
          BY <1>2
        <4> QED BY <1>2, <4>1, <4>2, Zenon
      <3>4. new[i] = left[i] + (IF from = i THEN amount ELSE 0) - (IF to = i THEN amount ELSE 0)
            /\ new[i] \in 0 .. left[i] \cup left[i] .. 0 /\ new[i] \in Int
        BY <2>3
      <3> HIDE DEF left, made
      <3>5. new[i] \in 0 .. diff[i] \cup diff[i] .. 0
        BY ONLY <3>3, <3>4
      <3> DEFINE p == books!Paid(made, i)   g == books!Got(made, i)
                 q == books!Paid(Append(made, t), i)   h == books!Got(Append(made, t), i)
                 x == left[i]   y == new[i]   d == diff[i]
                 a == IF from = i THEN amount ELSE 0
                 b == IF to = i THEN amount ELSE 0
      <3>6. q = p + a /\ h = g + b /\ x = d + p - g /\ y = x + a - b
        BY <3>1, <3>3, <3>4
      <3>7. p \in Int /\ g \in Int /\ x \in Int /\ d \in Int /\ a \in Int /\ b \in Int
        BY <3>2, <3>3
      <3> HIDE DEF p, g, q, h, x, y, d, a, b
      <3>8. y = d + q - h
        BY <3>6, <3>7
      <3> QED BY <3>5, <3>8 DEF y, d, q, h
    <2>7. /\ Len(made) + 1 + Cardinality(Open(1 .. n, new)) <= n
          /\ Len(made) + 1 < n
      <3>0. n \in Nat
        OBVIOUS
      <3> DEFINE O == Open(1 .. n, left)   P == Open(1 .. n, new)
      <3>1. IsFiniteSet(1 .. n) /\ O \in SUBSET (1 .. n) /\ P \in SUBSET (1 .. n)
        BY UpTo DEF Open
      <3>2. from \in O /\ to \in O
        <4> HIDE DEF left
        <4>1. left[from] \in Int /\ left[to] \in Int
          BY <1>2, <2>1, <2>2
        <4> QED BY <2>1, <2>2, <4>1 DEF Open
      <3> HIDE DEF O, P
      <3>3. IsFiniteSet(O) /\ O # {}
        BY <3>1, <3>2, FS_Subset
      <3>4. \A x \in O : Cardinality(O \ {x}) = Cardinality(O) - 1 /\ IsFiniteSet(O \ {x})
        BY <3>1, <3>3, FiniteSubsets, FS_RemoveElement
      <3>5. Cardinality(O) \in Nat /\ Cardinality(P) \in Nat
        <4>1. IsFiniteSet(O) /\ IsFiniteSet(P)
          BY <3>1, FS_Subset
        <4> QED BY <4>1, FS_CardinalityType
      <3>6. Cardinality(P) <= Cardinality(O) - 1
        <4>1. P \subseteq O \ {from} \/ P \subseteq O \ {to}
          BY <2>3 DEF O, P
        <4>2. PICK x \in O : P \in SUBSET (O \ {x})
          BY <3>2, <4>1
        <4>3. Cardinality(P) <= Cardinality(O \ {x})
          BY <3>4, <4>2, FS_Subset
        <4> QED BY <3>4, <4>3
      <3>7. Cardinality(O) - 1 >= 1
        <4>1. to \in O \ {from}
          BY <2>3, <3>2
        <4>2. IsFiniteSet(O \ {from}) /\ Cardinality(O \ {from}) = Cardinality(O) - 1
          BY <3>2, <3>4
        <4>3. Cardinality(O \ {from}) # 0 /\ Cardinality(O \ {from}) \in Nat
          BY <4>1, <4>2, FS_EmptySet, FS_CardinalityType
        <4> QED BY <3>5, <4>2, <4>3
      <3>8. Len(made) \in Nat /\ Len(made) + Cardinality(O) <= n
        BY <1>2, LenProperties DEF O
      <3> HIDE DEF made
      <3>9. /\ Len(made) + 1 + Cardinality(P) <= n
            /\ Len(made) + 1 < n
        BY ONLY <3>5, <3>6, <3>7, <3>8, <3>0
      <3> QED BY <3>9 DEF P
    <2>8. SumFunction(new) = SumFunction(diff)
      BY <1>2, <2>3
    <2> HIDE DEF left, made
    <2>9. /\ one.left \in [1 .. n -> Int]
          /\ one.made \in Seq(Transfer(n))
          /\ \A i \in 1 .. n :
                /\ one.left[i] \in 0 .. diff[i] \cup diff[i] .. 0
                /\ one.left[i] = diff[i] + books!Paid(one.made, i) - books!Got(one.made, i)
          /\ SumFunction(one.left) = SumFunction(diff)
          /\ Len(one.made) + Cardinality(Open(1 .. n, one.left)) <= n
          /\ Len(one.made) < n
      <3>1. one.left = new /\ one.made = Append(made, t)
        BY <1>3
      <3> QED BY <2>3, <2>5, <2>6, <2>7, <2>8, <3>1, Zenon
    <2>10. Walking(n, diff, one)
      BY <2>9 DEF Walking
    <2>11. books!Pay(at) = one
      BY <1>1, <1>6
    <2>12. Len(one.made) = Len(made) + 1
      BY <1>3, <2>5
    <2>13. ~Finished(n, left)
      <3>1. \A i \in 1 .. n : left[i] \in Int
        BY <1>2
      <3> QED BY <2>1, <2>2, <3>1 DEF Finished
    <2> QED BY <2>10, <2>11, <2>12, <2>13 DEF left, made
  <1> QED BY <1>5, <1>6

\* The payments, one after the other.
Walks(h, diff, n) ==
    h = [k \in 0 .. n |-> IF k = 0 THEN [left |-> diff, made |-> << >>] ELSE books!Pay(h[k - 1])]

\* They are defined, for any number of steps.
LEMMA WalksExist ==
  ASSUME NEW diff, NEW k \in Nat
  PROVE  \E h : Walks(h, diff, k)
  <1> DEFINE start == [left |-> diff, made |-> << >>]
             N == {n \in Nat : \E h : Walks(h, diff, n)}
  <1>1. 0 \in N
    <2>1. Walks([i \in 0 .. 0 |-> start], diff, 0)
      BY DEF Walks
    <2> QED BY <2>1
  <1>2. ASSUME NEW n \in Nat, n \in N PROVE n + 1 \in N
    <2>1. PICK h : Walks(h, diff, n)
      BY <1>2
    <2> DEFINE g == [i \in 0 .. n + 1 |-> IF i = n + 1 THEN books!Pay(h[n]) ELSE h[i]]
    <2>2. ASSUME NEW i \in 0 .. n + 1
          PROVE  g[i] = IF i = 0 THEN start ELSE books!Pay(g[i - 1])
      <3> HIDE DEF start
      <3>1. CASE i = n + 1
        <4>1. g[i] = books!Pay(h[n]) /\ i # 0 /\ i - 1 = n /\ n \in 0 .. n + 1 /\ n # n + 1
          BY <3>1
        <4>2. g[n] = h[n]
          BY <4>1
        <4> QED BY <4>1, <4>2
      <3>2. CASE i # n + 1
        <4>1. i \in 0 .. n /\ (i # 0 => i - 1 \in 0 .. n)
          BY <3>2
        <4>2. \A j \in 0 .. n : g[j] = h[j]
          OBVIOUS
        <4>3. h[i] = IF i = 0 THEN start ELSE books!Pay(h[i - 1])
          BY <2>1, <4>1 DEF Walks, start
        <4> HIDE DEF g
        <4> QED BY <4>1, <4>2, <4>3
      <3> QED BY <3>1, <3>2
    <2>3. g = [i \in 0 .. n + 1 |-> g[i]]
      OBVIOUS
    <2> HIDE DEF g
    <2>4. Walks(g, diff, n + 1)
      BY <2>2, <2>3 DEF Walks
    <2> QED BY <2>4
  <1> HIDE DEF N
  <1>3. Nat \subseteq N
    BY <1>1, <1>2, SetOfNaturals
  <1>4. k \in N
    BY <1>3
  <1> QED BY <1>4 DEF N

\* Nothing is paid yet.
LEMMA WalkBegins ==
  ASSUME NEW n \in Nat \ {0}, NEW diff \in [1 .. n -> Int], NEW at,
         at = [left |-> diff, made |-> << >>]
  PROVE  Walking(n, diff, at) /\ Len(at.made) = 0
  <1>1. at.left = diff /\ at.made = << >>
    OBVIOUS
  <1>2. << >> \in Seq(Transfer(n)) /\ Len(<< >>) = 0
    BY EmptySeq
  <1>3. ASSUME NEW i \in 1 .. n
        PROVE  books!Paid(<< >>, i) = 0 /\ books!Got(<< >>, i) = 0
    <2>1. By(<< >>, i) = {} /\ For(<< >>, i) = {}
      BY DEF By, For
    <2>2. AmountOf(<< >>, {}) = 0
      BY FS_EmptySet, SumByElement DEF AmountOf
    <2> QED BY <1>2, <2>1, <2>2, PaidAndGot
  <1>4. ASSUME NEW i \in 1 .. n
        PROVE  /\ diff[i] \in 0 .. diff[i] \cup diff[i] .. 0
               /\ diff[i] = diff[i] + books!Paid(<< >>, i) - books!Got(<< >>, i)
    <2>1. diff[i] \in Int
      OBVIOUS
    <2> QED BY <1>3, <2>1
  <1>5. Cardinality(Open(1 .. n, diff)) <= n
    <2>1. n \in Nat /\ Open(1 .. n, diff) \in SUBSET (1 .. n)
      BY DEF Open
    <2>2. IsFiniteSet(1 .. n) /\ Cardinality(1 .. n) = n
      BY <2>1, UpTo
    <2> QED BY <2>1, <2>2, FS_Subset
  <1>6. Cardinality(Open(1 .. n, diff)) \in Nat
    <2>1. n \in Nat /\ Open(1 .. n, diff) \in SUBSET (1 .. n)
      BY DEF Open
    <2>2. IsFiniteSet(Open(1 .. n, diff))
      BY <2>1, UpTo, FS_Subset
    <2> QED BY <2>2, FS_CardinalityType
  <1> QED BY <1>1, <1>2, <1>4, <1>5, <1>6 DEF Walking

\* What the transfers of a settlement do to its differences.
LEMMA TransfersSettle ==
  ASSUME NEW n \in Nat \ {0}, NEW diff \in [1 .. n -> Int]
  PROVE  \E at : /\ Walking(n, diff, at) /\ Finished(n, at.left)
                 /\ books!Transfers(diff) = at.made
  <1> DEFINE h == CHOOSE h : Walks(h, diff, n)
  <1>1. Walks(h, diff, n)
    BY WalksExist
  <1>2. Len(diff) = n
    BY SequenceOf
  <1>3. books!Transfers(diff) = h[n].made
    BY <1>2 DEF books!Transfers, Walks
  <1> HIDE DEF h
  <1>4. /\ h[0] = [left |-> diff, made |-> << >>]
        /\ \A k \in 0 .. n : k # 0 => h[k] = books!Pay(h[k - 1])
    BY <1>1 DEF Walks
  <1> DEFINE Fine(k) == Walking(n, diff, h[k]) /\ (Len(h[k].made) = k \/ Finished(n, h[k].left))
             N == {k \in Nat : k \in 0 .. n => Fine(k)}
  <1>5. 0 \in N
    BY <1>4, WalkBegins
  <1>6. ASSUME NEW k \in Nat, k \in N PROVE k + 1 \in N
    <2> SUFFICES ASSUME k + 1 \in 0 .. n PROVE Fine(k + 1)
      OBVIOUS
    <2>1. k \in 0 .. n /\ k + 1 # 0 /\ (k + 1) - 1 = k
      OBVIOUS
    <2>2. Fine(k)
      BY <1>6, <2>1
    <2>3. h[k + 1] = books!Pay(h[k])
      BY <1>4, <2>1
    <2>4. \/ books!Pay(h[k]) = h[k] /\ Finished(n, h[k].left)
          \/ /\ ~Finished(n, h[k].left) /\ Walking(n, diff, books!Pay(h[k]))
             /\ Len(books!Pay(h[k]).made) = Len(h[k].made) + 1
      BY <2>2, PayOnce
    <2> QED BY <2>2, <2>3, <2>4
  <1>7. Nat \subseteq N
    <2> HIDE DEF N
    <2> QED BY <1>5, <1>6, SetOfNaturals
  <1>8. Fine(n)
    BY <1>7
  <1>9. Len(h[n].made) # n
    <2>1. Len(h[n].made) < n /\ h[n].made \in Seq(Transfer(n))
      BY <1>8 DEF Walking
    <2>2. Len(h[n].made) \in Nat
      BY <2>1, LenProperties
    <2> QED BY <2>1, <2>2
  <1> QED BY <1>3, <1>8, <1>9

\* The sum of a list of numbers.
LEMMA ListSum ==
  ASSUME NEW n \in Nat, NEW f \in [1 .. n -> Int]
  PROVE  /\ IsFiniteSet(1 .. n) /\ DOMAIN f = 1 .. n
         /\ books!SumOf(f) = SumFunctionOnSet(f, 1 .. n)
         /\ SumFunction(f) = SumFunctionOnSet(f, 1 .. n)
         /\ books!SumOf(f) \in Int
  <1>1. IsFiniteSet(1 .. n) /\ DOMAIN f = 1 .. n
    BY UpTo
  <1>2. books!SumOf(f) = SumFunctionOnSet(f, DOMAIN f)
    BY <1>1, SumsOf
  <1>3. SumFunction(f) = SumFunctionOnSet(f, DOMAIN f)
    BY DEF SumFunction
  <1>4. \A i \in 1 .. n : f[i] \in Int
    OBVIOUS
  <1>5. SumFunctionOnSet(f, 1 .. n) \in Int
    BY <1>1, <1>4, SumByElement
  <1> QED BY <1>1, <1>2, <1>3, <1>5

\* Shares that add up are settled.
LEMMA SharesSettle ==
  ASSUME NEW n \in Nat \ {0}, NEW total \in Int, NEW actual \in [1 .. n -> Int],
         NEW share \in [1 .. n -> Int], books!SumOf(share) = total
  PROVE  books!Settles(n, total, actual, share)
  <1> DEFINE diff == [i \in 1 .. n |-> actual[i] - share[i]]
             transfers == books!Transfers(diff)
             after == [i \in 1 .. n |-> diff[i] + books!Paid(transfers, i) - books!Got(transfers, i)]
  <1>0. n \in Nat
    OBVIOUS
  <1>1. diff \in [1 .. n -> Int] /\ \A i \in 1 .. n : diff[i] = actual[i] - share[i]
    OBVIOUS
  <1>2. SumFunction(diff) = books!SumOf(actual) - total
    <2> HIDE DEF diff
    <2>1. /\ IsFiniteSet(1 .. n)
          /\ SumFunction(diff) = SumFunctionOnSet(diff, 1 .. n)
          /\ books!SumOf(actual) = SumFunctionOnSet(actual, 1 .. n)
          /\ books!SumOf(share) = SumFunctionOnSet(share, 1 .. n)
      BY <1>0, <1>1, ListSum
    <2>2. \A i \in 1 .. n : actual[i] \in Int /\ share[i] \in Int
      OBVIOUS
    <2>3. SumFunctionOnSet(diff, 1 .. n) = SumFunctionOnSet(actual, 1 .. n) - SumFunctionOnSet(share, 1 .. n)
      BY <1>1, <2>1, <2>2, SumOfDifferences
    <2> QED BY <2>1, <2>3
  <1> HIDE DEF diff
  <1>3. PICK at : Walking(n, diff, at) /\ Finished(n, at.left) /\ transfers = at.made
    BY <1>1, TransfersSettle
  <1>4. /\ at.left \in [1 .. n -> Int]
        /\ transfers \in Seq(Transfer(n))
        /\ \A i \in 1 .. n :
              /\ at.left[i] \in 0 .. diff[i] \cup diff[i] .. 0
              /\ at.left[i] = diff[i] + books!Paid(transfers, i) - books!Got(transfers, i)
        /\ SumFunction(at.left) = SumFunction(diff)
        /\ Len(transfers) < n
    BY <1>3 DEF Walking
  <1> HIDE DEF transfers
  <1>5. after = at.left
    <2>1. \A i \in 1 .. n : after[i] = at.left[i]
      BY <1>4
    <2>2. after = [i \in 1 .. n |-> after[i]] /\ at.left = [i \in 1 .. n |-> at.left[i]]
      BY <1>4
    <2> HIDE DEF after
    <2> QED BY <2>1, <2>2
  <1>6. books!SumOf(after) = books!SumOf(actual) - total
    <2> HIDE DEF after
    <2>1. books!SumOf(at.left) = SumFunction(at.left)
      BY <1>0, <1>4, ListSum
    <2> QED BY <1>2, <1>4, <1>5, <2>1
  <1>7. \A k \in DOMAIN transfers : transfers[k].amount > 0
    <2> SUFFICES ASSUME NEW k \in DOMAIN transfers PROVE transfers[k].amount > 0
      OBVIOUS
    <2>1. transfers[k] \in Transfer(n)
      BY <1>4, LenProperties, ElementOfSeq
    <2> QED BY <2>1 DEF Transfer
  <1>8. /\ \A i \in 1 .. n : after[i] \in 0 .. diff[i] \cup diff[i] .. 0
        /\ \A i \in 1 .. n, j \in 1 .. n : ~(after[i] < 0 /\ after[j] > 0)
    <2> HIDE DEF after
    <2>1. \A i \in 1 .. n : after[i] \in 0 .. diff[i] \cup diff[i] .. 0
      BY <1>4, <1>5
    <2>2. \A i \in 1 .. n : after[i] \in Int
      BY <1>4, <1>5
    <2>3. (\A i \in 1 .. n : after[i] >= 0) \/ (\A i \in 1 .. n : after[i] <= 0)
      BY <1>3, <1>5 DEF Finished
    <2>4. \A i \in 1 .. n, j \in 1 .. n : ~(after[i] < 0 /\ after[j] > 0)
      BY ONLY <2>2, <2>3
    <2> QED BY <2>1, <2>4
  <1> QED BY <1>4, <1>6, <1>7, <1>8, Zenon DEF books!Settles, transfers, diff

\* Equal shares add up and bear the sign of the total.
LEMMA EqualSharesAddUp ==
  ASSUME NEW n \in Nat \ {0}, NEW total \in Int
  PROVE  /\ books!EqualShares(total, n) \in [1 .. n -> Int]
         /\ books!SumOf(books!EqualShares(total, n)) = total
         /\ books!Bears(total, books!EqualShares(total, n))
  <1> DEFINE share == books!EqualShares(total, n)
             q == total \div n
             r == total % n
  <1>0. n \in Nat /\ n \in Int /\ n > 0
    OBVIOUS
  <1>1. q \in Int /\ r \in Int /\ 0 <= r /\ r < n /\ total = n * q + r
    BY <1>0, Division
  <1>2. share = [i \in 1 .. n |-> q + IF i <= r THEN 1 ELSE 0]
    BY DEF books!EqualShares
  <1> HIDE DEF share, q, r
  <1>3. share \in [1 .. n -> Int] /\ \A i \in 1 .. n : share[i] = q + IF i <= r THEN 1 ELSE 0
    BY <1>1, <1>2
  <1> DEFINE Sum(m) == SumFunctionOnSet(share, 1 .. m)
             Ones(m) == IF m <= r THEN m ELSE r
             N == {m \in Nat : m <= n => Sum(m) = m * q + Ones(m)}
  <1>4. 0 \in N
    <2>1. Sum(0) = 0
      <3>1. 1 .. 0 = {}
        OBVIOUS
      <3> QED BY <3>1, FS_EmptySet, SumByElement
    <2>2. Ones(0) = 0
      BY <1>1
    <2> QED BY <1>1, <2>1, <2>2
  <1>5. ASSUME NEW m \in Nat, m \in N PROVE m + 1 \in N
    <2> SUFFICES ASSUME m + 1 <= n PROVE Sum(m + 1) = (m + 1) * q + Ones(m + 1)
      BY <1>5
    <2>1. m + 1 \in 1 .. m + 1 /\ m + 1 \in 1 .. n /\ (1 .. m + 1) \ {m + 1} = 1 .. m
      OBVIOUS
    <2>2. IsFiniteSet(1 .. m + 1)
      BY UpTo
    <2>3. \A i \in 1 .. m + 1 : share[i] \in Int
      BY <1>3
    <2>4. Sum(m + 1) = share[m + 1] + SumFunctionOnSet(share, (1 .. m + 1) \ {m + 1})
      <3> DEFINE k == m + 1   S == 1 .. k
      <3>1. k \in S /\ IsFiniteSet(S) /\ \A i \in S : share[i] \in Int
        BY <2>1, <2>2, <2>3
      <3> HIDE DEF S, k
      <3>2. SumFunctionOnSet(share, S) = share[k] + SumFunctionOnSet(share, S \ {k})
        BY ONLY <3>1, SumByElement
      <3> QED BY <3>2 DEF S, k
    <2>5. share[m + 1] = q + IF m + 1 <= r THEN 1 ELSE 0
      BY <1>3, <2>1
    <2>6. Sum(m) = m * q + Ones(m)
      BY <1>5
    <2> DEFINE x == Sum(m)   y == Sum(m + 1)   p == m * q   z == (m + 1) * q
    <2>7. y = (q + IF m + 1 <= r THEN 1 ELSE 0) + x /\ x = p + Ones(m)
      BY <2>1, <2>4, <2>5, <2>6
    <2>8. z = p + q /\ p \in Int
      BY <1>1
    <2>9. Ones(m + 1) = Ones(m) + (IF m + 1 <= r THEN 1 ELSE 0) /\ Ones(m) \in Int
      BY <1>1
    <2> HIDE DEF x, y, p, z, Ones
    <2>10. y = z + Ones(m + 1)
      BY <1>1, <2>7, <2>8, <2>9
    <2> QED BY <2>10 DEF y, z
  <1>6. Nat \subseteq N
    <2> HIDE DEF N
    <2> QED BY <1>4, <1>5, SetOfNaturals
  <1>7. Sum(n) = total
    <2>1. Sum(n) = n * q + Ones(n)
      BY <1>0, <1>6
    <2>2. Ones(n) = r
      BY <1>0, <1>1
    <2> QED BY <1>1, <2>1, <2>2
  <1>8. books!SumOf(share) = total
    BY <1>0, <1>3, <1>7, ListSum
  <1>9. books!Bears(total, share)
    <2>1. total >= 0 => q >= 0
      <3>1. CASE q < 0
        <4>1. n * q <= 0 - n
          BY <1>0, <1>1, <3>1
        <4> QED BY <1>0, <1>1, <4>1
      <3> QED BY <1>1, <3>1
    <2>2. total < 0 => q <= 0 - 1
      <3>1. CASE q >= 0
        <4>1. n * q >= 0
          BY <1>0, <1>1, <3>1
        <4> QED BY <1>0, <1>1, <4>1
      <3> QED BY <1>1, <3>1
    <2>3. \A i \in DOMAIN share : IF total < 0 THEN share[i] <= 0 ELSE share[i] >= 0
      <3>1. DOMAIN share = 1 .. n
        BY <1>3
      <3>2. CASE total < 0
        <4>1. q <= 0 - 1
          BY <2>2, <3>2
        <4> QED BY <1>1, <1>3, <3>1, <3>2, <4>1
      <3>3. CASE ~(total < 0)
        <4>1. q >= 0
          BY <2>1, <3>3
        <4> QED BY <1>1, <1>3, <3>1, <3>3, <4>1
      <3> QED BY <3>2, <3>3
    <2> QED BY <2>3 DEF books!Bears
  <1> QED BY <1>3, <1>8, <1>9 DEF share

\* The size of a number.
LEMMA SizeOf ==
  ASSUME NEW k \in Int
  PROVE  books!Size(k) \in Nat /\ (k # 0 => books!Size(k) > 0)
         /\ (k >= 0 => books!Size(k) = k) /\ (k <= 0 => books!Size(k) = 0 - k)
  BY DEF books!Size

\* A share before the last one gets what is left: a part r of s, of which low takes one off.
ShareOf(total, r, s, low) ==
    IF total * r < 0 <=> s < 0
    THEN books!Size(total * r) \div books!Size(s) - low
    ELSE 0 - (books!Size(total * r) \div books!Size(s) - low)

LEMMA ShareIsNumber ==
  ASSUME NEW total \in Int, NEW r \in Int, NEW s \in Int, s # 0, NEW low \in {0, 1}
  PROVE  ShareOf(total, r, s, low) \in Int
  <1> DEFINE p == total * r
  <1>1. p \in Int
    OBVIOUS
  <1> HIDE DEF p
  <1>2. books!Size(p) \in Int /\ books!Size(s) \in Int /\ books!Size(s) > 0
    BY <1>1, SizeOf
  <1>3. books!Size(p) \div books!Size(s) \in Int
    BY <1>2, Division
  <1> QED BY <1>3 DEF ShareOf, p

\* When no part is negative, a share lies between 0 and what the ratio says.
LEMMA ShareBounds ==
  ASSUME NEW total \in Int, NEW r \in Nat, NEW s \in Nat, s # 0, NEW low \in {0, 1},
         low = 1 => total * r # 0 /\ (total * r) % books!Size(s) = 0
  PROVE  /\ total >= 0 => ShareOf(total, r, s, low) >= 0
                          /\ s * ShareOf(total, r, s, low) <= total * r
         /\ total < 0 => ShareOf(total, r, s, low) <= 0
                         /\ s * ShareOf(total, r, s, low) >= total * r
  <1> DEFINE p == total * r
             z == books!Size(p)
             q == z \div s
             x == ShareOf(total, r, s, low)
  <1>1. /\ p \in Int /\ s \in Int /\ s > 0 /\ low \in Int /\ r \in Nat /\ total \in Int
        /\ low = 0 \/ low = 1
    OBVIOUS
  <1>2. books!Size(s) = s
    BY <1>1, SizeOf
  <1>3. /\ total >= 0 => p >= 0
        /\ total < 0 => p <= 0
    BY <1>1
  <1>4. low = 1 => p # 0 /\ p % s = 0
    BY <1>2
  <1>5. x = IF p < 0 <=> s < 0 THEN q - low ELSE 0 - (q - low)
    BY <1>2 DEF ShareOf
  <1> HIDE DEF p, x
  <1>6. z \in Nat /\ (p >= 0 => z = p) /\ (p <= 0 => z = 0 - p)
    BY <1>1, SizeOf
  <1> HIDE DEF z
  <1>7. q \in Int /\ s * q <= z /\ z < s * q + s
    <2>1. z \div s \in Int /\ z % s \in Int /\ 0 <= z % s /\ z % s < s
          /\ z = s * (z \div s) + (z % s)
      BY <1>1, <1>6, Division
    <2> DEFINE t == z % s   k == s * (z \div s)
    <2>2. t \in Int /\ 0 <= t /\ t < s /\ z = k + t /\ k \in Int
      BY <1>1, <2>1
    <2> HIDE DEF t, k
    <2>3. k <= z /\ z < k + s
      BY <1>1, <2>2
    <2> QED BY <2>1, <2>3 DEF k
  <1> HIDE DEF q
  <1>8. q >= 0
    <2>1. CASE q < 0
      <3>1. s * q <= 0 - s
        BY <1>1, <1>7, <2>1
      <3> QED BY <1>1, <1>6, <1>7, <3>1
    <2> QED BY <1>7, <2>1
  <1>9. low = 1 => q >= 1
    <2> SUFFICES ASSUME low = 1, ~(q >= 1) PROVE FALSE
      OBVIOUS
    <2>1. q = 0
      BY <1>7, <1>8
    <2>2. z < s
      BY <1>1, <1>6, <1>7, <2>1
    <2> DEFINE k == p \div s
    <2>3. k \in Int /\ p = s * k + (p % s)
      BY <1>1, Division
    <2> HIDE DEF k
    <2>4. p # 0 /\ p = s * k
      BY <1>1, <1>4, <2>3
    <2>5. CASE k = 0
      BY <1>1, <2>4, <2>5
    <2>6. CASE k >= 1
      <3>1. s * k >= s
        BY <1>1, <2>3, <2>6
      <3> QED BY <1>1, <1>6, <2>2, <2>4, <3>1
    <2>7. CASE k <= 0 - 1
      <3>1. s * k <= 0 - s
        BY <1>1, <2>3, <2>7
      <3> QED BY <1>1, <1>6, <2>2, <2>4, <3>1
    <2> QED BY <2>3, <2>5, <2>6, <2>7
  <1>10. q - low >= 0 /\ q - low <= q /\ q - low \in Int
    BY <1>1, <1>7, <1>8, <1>9
  <1> DEFINE d == q - low
  <1>11. s * d <= z
    <2>1. d <= q /\ d \in Int
      BY <1>10
    <2> HIDE DEF d
    <2>2. s * d <= s * q
      BY <1>1, <1>7, <2>1
    <2> DEFINE a == s * d   b == s * q
    <2>3. a \in Int /\ b \in Int /\ a <= b /\ b <= z
      BY <1>1, <1>7, <2>1, <2>2
    <2> HIDE DEF a, b
    <2>4. a <= z
      BY <1>6, <2>3
    <2> QED BY <2>4 DEF a
  <1>12. d >= 0 /\ d \in Int /\ x = IF p < 0 THEN 0 - d ELSE d
    BY <1>1, <1>5, <1>10
  <1> HIDE DEF d
  <1>13. s * (0 - d) = 0 - s * d
    BY <1>1, <1>12
  <1> DEFINE a == s * d   b == s * (0 - d)
  <1>14. a \in Int /\ b = 0 - a /\ a <= z
    BY <1>1, <1>11, <1>12, <1>13
  <1>15. s * x = IF p < 0 THEN b ELSE a
    BY <1>12
  <1> HIDE DEF a, b
  <1>16. total >= 0 => x >= 0 /\ s * x <= p
    BY <1>1, <1>3, <1>6, <1>12, <1>14, <1>15
  <1>17. total < 0 => x <= 0 /\ s * x >= p
    <2> SUFFICES ASSUME total < 0 PROVE x <= 0 /\ s * x >= p
      OBVIOUS
    <2>1. p <= 0
      BY <1>3
    <2>2. CASE p < 0
      BY <1>1, <1>6, <1>12, <1>14, <1>15, <2>2
    <2>3. CASE p = 0
      <3>1. z = 0 /\ a <= 0 /\ x = d /\ s * x = a
        BY <1>1, <1>6, <1>12, <1>14, <1>15, <2>3
      <3>2. d = 0
        <4>1. CASE d >= 1
          <5>1. a >= s
            BY <1>1, <1>12, <4>1 DEF a
          <5> QED BY <1>1, <1>14, <3>1, <5>1
        <4> QED BY <1>12, <4>1
      <3>3. a = 0
        BY <1>1, <3>2 DEF a
      <3> QED BY <2>3, <3>1, <3>2, <3>3
    <2> QED BY <1>1, <2>1, <2>2, <2>3
  <1> QED BY <1>16, <1>17 DEF p, x

\* What floating point may take off a share.
Lowered(low, i) == IF i \in low THEN 1 ELSE 0

\* The shares before the last one gets what is left.
LEMMA RoundedShares ==
  ASSUME NEW n \in Nat, NEW total \in Int, NEW ratio \in [1 .. n -> Int],
         books!SumOf(ratio) # 0, NEW low
  PROVE  /\ books!RatioSharesRounded(total, ratio, low) \in [1 .. n -> Int]
         /\ \A i \in 1 .. n : books!RatioSharesRounded(total, ratio, low)[i]
                                = ShareOf(total, ratio[i], books!SumOf(ratio), Lowered(low, i))
  <1> DEFINE s == books!SumOf(ratio)
             rounded == books!RatioSharesRounded(total, ratio, low)
  <1>1. s \in Int /\ s # 0
    BY ListSum
  <1>2. rounded = [i \in 1 .. n |-> ShareOf(total, ratio[i], s, Lowered(low, i))]
    BY DEF books!RatioSharesRounded, ShareOf, Lowered
  <1> HIDE DEF s, rounded
  <1>3. ASSUME NEW i \in 1 .. n PROVE ShareOf(total, ratio[i], s, Lowered(low, i)) \in Int
    <2>1. ratio[i] \in Int /\ Lowered(low, i) \in {0, 1}
      BY DEF Lowered
    <2> QED BY <1>1, <2>1, ShareIsNumber
  <1> QED BY <1>2, <1>3 DEF s, rounded

\* When no part is negative, they lie between 0 and what the ratio says, and so does their sum.
LEMMA RoundedSharesBear ==
  ASSUME NEW n \in Nat \ {0}, NEW total \in Int, NEW ratio \in [1 .. n -> Int],
         books!SumOf(ratio) # 0, NEW low \in books!LowChoices(total, ratio),
         \A i \in 1 .. n : ratio[i] >= 0,
         NEW rounded, rounded = books!RatioSharesRounded(total, ratio, low)
  PROVE  /\ total >= 0 => books!SumOf(rounded) <= total /\ \A i \in 1 .. n : rounded[i] >= 0
         /\ total < 0 => books!SumOf(rounded) >= total /\ \A i \in 1 .. n : rounded[i] <= 0
  <1> DEFINE S == 1 .. n
             s == books!SumOf(ratio)
             asked == [i \in S |-> total * ratio[i]]
             scaled == [i \in S |-> s * rounded[i]]
  <1>1. n \in Nat /\ IsFiniteSet(S) /\ s = SumFunctionOnSet(ratio, S)
    BY ListSum
  <1>2. s \in Nat /\ s # 0
    <2>1. \A i \in S : ratio[i] \in Nat
      OBVIOUS
    <2> HIDE DEF S
    <2>2. SumFunctionOnSet(ratio, S) \in Nat
      BY <1>1, <2>1, SumIsNatural
    <2> QED BY <1>1, <2>2
  <1>3. /\ rounded \in [S -> Int]
        /\ \A i \in S : rounded[i] = ShareOf(total, ratio[i], s, Lowered(low, i))
    BY RoundedShares
  <1>4. \A i \in low : i \in S /\ total * ratio[i] # 0 /\ (total * ratio[i]) % books!Size(s) = 0
    BY DEF books!LowChoices
  <1> HIDE DEF s
  <1>5. ASSUME NEW i \in S
        PROVE  /\ total >= 0 => rounded[i] >= 0 /\ s * rounded[i] <= total * ratio[i]
               /\ total < 0 => rounded[i] <= 0 /\ s * rounded[i] >= total * ratio[i]
    <2> DEFINE r == ratio[i]   l == Lowered(low, i)
    <2>1. r \in Nat /\ l \in {0, 1}
      BY DEF Lowered
    <2>2. l = 1 => total * r # 0 /\ (total * r) % books!Size(s) = 0
      BY <1>4 DEF Lowered
    <2>3. rounded[i] = ShareOf(total, r, s, l)
      BY <1>3
    <2> HIDE DEF r, l
    <2>4. /\ total >= 0 => ShareOf(total, r, s, l) >= 0 /\ s * ShareOf(total, r, s, l) <= total * r
          /\ total < 0 => ShareOf(total, r, s, l) <= 0 /\ s * ShareOf(total, r, s, l) >= total * r
      BY <1>2, <2>1, <2>2, ShareBounds
    <2> QED BY <2>3, <2>4 DEF r
  <1>6. \A i \in S : /\ asked[i] = total * ratio[i] /\ scaled[i] = s * rounded[i]
                     /\ ratio[i] \in Int /\ rounded[i] \in Int
                     /\ asked[i] \in Int /\ scaled[i] \in Int
    BY <1>2, <1>3
  <1>7. SumFunctionOnSet(rounded, S) = books!SumOf(rounded) /\ books!SumOf(rounded) \in Int
    BY <1>1, <1>3, ListSum
  <1> HIDE DEF S, asked, scaled
  <1>8. SumFunctionOnSet(asked, S) = total * s
    <2>1. total \in Int /\ \A i \in S : ratio[i] \in Int /\ asked[i] = total * ratio[i]
      BY <1>6
    <2>2. SumFunctionOnSet(asked, S) = total * SumFunctionOnSet(ratio, S)
      BY ONLY <1>1, <2>1, SumOfProducts, SMTT(40)
    <2> QED BY <1>1, <2>2
  <1>9. SumFunctionOnSet(scaled, S) = s * books!SumOf(rounded)
    <2>1. s \in Int /\ \A i \in S : rounded[i] \in Int /\ scaled[i] = s * rounded[i]
      BY <1>2, <1>6
    <2>2. SumFunctionOnSet(scaled, S) = s * SumFunctionOnSet(rounded, S)
      BY ONLY <1>1, <2>1, SumOfProducts
    <2> QED BY <1>7, <2>2
  <1> DEFINE sum == books!SumOf(rounded)
  <1>10. CASE total >= 0
    <2>1. SumFunctionOnSet(scaled, S) <= SumFunctionOnSet(asked, S)
      <3>1. \A i \in S : scaled[i] \in Int /\ asked[i] \in Int /\ scaled[i] <= asked[i]
        BY <1>5, <1>6, <1>10
      <3> QED BY <1>1, <3>1, SumInOrder
    <2>2. s * sum <= total * s
      BY <1>8, <1>9, <2>1
    <2>3. sum \in Int /\ total \in Int
      BY <1>7
    <2> HIDE DEF sum
    <2>4. sum <= total
      <3>1. CASE sum >= total + 1
        <4>1. s * sum >= s * (total + 1)
          BY <1>2, <2>3, <3>1
        <4>2. s * (total + 1) = total * s + s
          BY <1>2, <2>3
        <4> DEFINE a == s * sum   b == total * s
        <4>3. a \in Int /\ b \in Int /\ a >= b + s /\ a <= b
          BY <1>2, <2>2, <2>3, <4>1, <4>2
        <4> HIDE DEF a, b
        <4> QED BY <1>2, <4>3
      <3> QED BY <2>3, <3>1
    <2> QED BY <1>5, <1>10, <2>4 DEF sum, S
  <1>11. CASE total < 0
    <2>1. SumFunctionOnSet(asked, S) <= SumFunctionOnSet(scaled, S)
      <3>1. \A i \in S : scaled[i] \in Int /\ asked[i] \in Int /\ asked[i] <= scaled[i]
        BY <1>5, <1>6, <1>11
      <3> QED BY <1>1, <3>1, SumInOrder
    <2>2. total * s <= s * sum
      BY <1>8, <1>9, <2>1
    <2>3. sum \in Int /\ total \in Int
      BY <1>7
    <2> HIDE DEF sum
    <2>4. sum >= total
      <3>1. CASE sum <= total - 1
        <4>1. s * sum <= s * (total - 1)
          BY <1>2, <2>3, <3>1
        <4>2. s * (total - 1) = total * s - s
          BY <1>2, <2>3
        <4> DEFINE a == s * sum   b == total * s
        <4>3. a \in Int /\ b \in Int /\ a <= b - s /\ b <= a
          BY <1>2, <2>2, <2>3, <4>1, <4>2
        <4> HIDE DEF a, b
        <4> QED BY <1>2, <4>3
      <3> QED BY <2>3, <3>1
    <2> QED BY <1>5, <1>11, <2>4 DEF sum, S
  <1> QED BY <1>10, <1>11 DEF S

\* Two functions that differ at one place have sums that differ by what they differ there.
DiffersAt(x, S, f, g) ==
  /\ IsFiniteSet(S) /\ x \in S /\ DOMAIN f = S /\ DOMAIN g = S
  /\ f[x] \in Int /\ g[x] \in Int
  /\ \A y \in S : y # x => g[y] \in Int /\ f[y] = g[y]

LEMMA SumsDifferBy ==
  ASSUME NEW S, NEW x, NEW f, NEW g, DiffersAt(x, S, f, g)
  PROVE  SumFunction(f) = SumFunction(g) + (f[x] - g[x])
  BY SumOfOneChanged DEF DiffersAt

\* Shares by ratio add up; when no part is negative, they bear the sign of the total.
LEMMA RatioSharesAddUp ==
  ASSUME NEW n \in Nat \ {0}, NEW total \in Int, NEW ratio \in [1 .. n -> Int],
         books!SumOf(ratio) # 0, NEW low
  PROVE  /\ books!RatioShares(total, ratio, low) \in [1 .. n -> Int]
         /\ books!SumOf(books!RatioShares(total, ratio, low)) = total
         /\ low \in books!LowChoices(total, ratio) /\ (\A i \in 1 .. n : ratio[i] >= 0)
               => books!Bears(total, books!RatioShares(total, ratio, low))
  <1> DEFINE S == 1 .. n
             rounded == books!RatioSharesRounded(total, ratio, low)
             share == books!RatioShares(total, ratio, low)
             sum == books!SumOf(rounded)
             rest == rounded[n] + total - sum
  <1>1. n \in Nat /\ n \in S /\ IsFiniteSet(S) /\ Len(ratio) = n
    BY SequenceOf, UpTo
  <1>2. rounded \in [S -> Int]
    BY <1>1, RoundedShares
  <1>3. sum \in Int /\ sum = SumFunction(rounded)
    BY <1>1, <1>2, ListSum
  <1>4. share = [rounded EXCEPT ![n] = @ + total - sum]
    BY <1>1 DEF books!RatioShares
  <1> HIDE DEF share, rounded, sum
  <1>5. rest \in Int /\ rounded[n] \in Int
    BY <1>1, <1>2, <1>3
  <1>6. /\ share \in [S -> Int] /\ share[n] = rest
        /\ \A i \in S : i # n => share[i] = rounded[i]
    BY <1>1, <1>2, <1>4, <1>5
  <1> HIDE DEF rest
  <1>7. books!SumOf(share) = total
    <2>1. DOMAIN share = S /\ DOMAIN rounded = S
      BY <1>2, <1>6
    <2>2. \A i \in S : i # n => rounded[i] \in Int /\ share[i] = rounded[i]
      BY <1>2, <1>6
    <2>3. share[n] \in Int
      BY <1>5, <1>6
    <2>4. SumFunction(share) = SumFunction(rounded) + (share[n] - rounded[n])
      <3>1. DiffersAt(n, S, share, rounded)
        BY <1>1, <1>5, <2>1, <2>2, <2>3 DEF DiffersAt
      <3> HIDE DEF S
      <3> QED BY <3>1, SumsDifferBy
    <2>5. books!SumOf(share) = SumFunction(share)
      BY <1>1, <1>6, ListSum
    <2>6. share[n] - rounded[n] = total - sum
      BY <1>3, <1>5, <1>6 DEF rest
    <2> QED BY <1>3, <2>4, <2>5, <2>6
  <1>8. ASSUME low \in books!LowChoices(total, ratio), \A i \in 1 .. n : ratio[i] >= 0
        PROVE  books!Bears(total, share)
    <2>1. /\ total >= 0 => sum <= total /\ \A i \in 1 .. n : rounded[i] >= 0
          /\ total < 0 => sum >= total /\ \A i \in 1 .. n : rounded[i] <= 0
      BY <1>8, RoundedSharesBear DEF sum, rounded
    <2>2. DOMAIN share = S /\ \A i \in S : share[i] = IF i = n THEN rest ELSE rounded[i]
      BY <1>6
    <2>3. \A i \in S : rounded[i] \in Int
      BY <1>2
    <2>4. \A i \in S : IF total < 0 THEN share[i] <= 0 ELSE share[i] >= 0
      BY <1>1, <1>3, <1>5, <2>1, <2>2, <2>3 DEF rest
    <2> QED BY <2>2, <2>4 DEF books!Bears
  <1> QED BY <1>6, <1>7, <1>8 DEF share

\* The members in some order.
LEMMA OrderedMembers ==
  ASSUME BookInv, NEW order \in books!SetToSeqs(members), order # << >>
  PROVE  Len(order) \in Nat \ {0} /\ order \in [1 .. Len(order) -> members]
  <1> DEFINE n == Cardinality(members)
  <1>1. n \in Nat
    BY FS_CardinalityType DEF BookInv
  <1>2. order \in [1 .. n -> members]
    <2>1. books!Cardinality(members) = n
      BY Zenon DEF books!Cardinality, Cardinality
    <2>2. order \in [1 .. books!Cardinality(members) -> members]
      BY Zenon DEF books!SetToSeqs
    <2> QED BY <2>1, <2>2
  <1> HIDE DEF n
  <1>3. order \in Seq(members) /\ Len(order) = n
    BY <1>1, <1>2, SequenceOf
  <1>4. n # 0
    BY <1>3, EmptySeq
  <1> QED BY <1>1, <1>2, <1>3, <1>4

\* What they have spent is a number, for everybody.
LEMMA SpentByMembers ==
  ASSUME BookInv, NEW y \in Nat, NEW m \in 1 .. 12
  PROVE  /\ books!SumOf(books!ByMember(y, m)) \in Int
         /\ \A u : books!At(books!ByMember(y, m), u) \in Int
  <1> DEFINE f == books!ByMember(y, m)
             S == Shared(y, m)
  <1>1. books!OfGroup(y, m) = S /\ S \in SUBSET Recorded
    BY SharedAre
  <1>2. books!SumOf(f) \in Int
    BY <1>1, MembersAddUp, RecordedSums
  <1>3. ASSUME NEW u PROVE books!At(f, u) \in Int
    <2>1. SharedBy(u, y, m) \in SUBSET Recorded /\ SharedBy(u, y, m) = {i \in S : entries[i].user = u}
      BY SharedAre DEF SharedBy
    <2> HIDE DEF S
    <2>2. u \in DOMAIN f => f[u] = books!Total(SharedBy(u, y, m))
      BY <1>1, <2>1 DEF books!ByMember
    <2>3. books!At(f, u) = IF u \in DOMAIN f THEN f[u] ELSE 0
      BY DEF books!At
    <2> HIDE DEF f
    <2>4. books!Total(SharedBy(u, y, m)) \in Int
      BY <2>1, RecordedSums
    <2> QED BY <2>2, <2>3, <2>4
  <1> QED BY <1>2, <1>3

\* What the constants say of a ratio.
LEMMA RatiosAskedFor ==
  ASSUME NEW ratio \in Ratios
  PROVE  ratio \in [1 .. Len(ratio) -> Int] /\ books!SumOf(ratio) # 0
  BY RatioAssumption, LenProperties

\* What a settlement between n members promises, however they share.
Settlement(n, total, actual) ==
  /\ books!Settles(n, total, actual, books!EqualShares(total, n))
  /\ books!Bears(total, books!EqualShares(total, n))
  /\ \A ratio \in {ratio \in Ratios : Len(ratio) = n} :
       \A low \in books!LowChoices(total, ratio) :
          /\ books!Settles(n, total, actual, books!RatioShares(total, ratio, low))
          /\ (\A i \in 1 .. n : ratio[i] >= 0)
                => books!Bears(total, books!RatioShares(total, ratio, low))

\* It holds for whatever they have spent.
LEMMA AnySettlement ==
  ASSUME NEW n \in Nat \ {0}, NEW total \in Int, NEW actual \in [1 .. n -> Int]
  PROVE  Settlement(n, total, actual)
  <1>1. /\ books!Settles(n, total, actual, books!EqualShares(total, n))
        /\ books!Bears(total, books!EqualShares(total, n))
    BY EqualSharesAddUp, SharesSettle
  <1>2. ASSUME NEW ratio \in Ratios, Len(ratio) = n,
               NEW low \in books!LowChoices(total, ratio)
        PROVE  /\ books!Settles(n, total, actual, books!RatioShares(total, ratio, low))
               /\ (\A i \in 1 .. n : ratio[i] >= 0)
                     => books!Bears(total, books!RatioShares(total, ratio, low))
    <2>1. ratio \in [1 .. n -> Int] /\ books!SumOf(ratio) # 0
      BY <1>2, RatiosAskedFor
    <2>2. /\ books!RatioShares(total, ratio, low) \in [1 .. n -> Int]
          /\ books!SumOf(books!RatioShares(total, ratio, low)) = total
          /\ (\A i \in 1 .. n : ratio[i] >= 0)
                => books!Bears(total, books!RatioShares(total, ratio, low))
      BY <1>2, <2>1, RatioSharesAddUp
    <2>3. books!Settles(n, total, actual, books!RatioShares(total, ratio, low))
      BY <2>2, SharesSettle
    <2> QED BY <2>2, <2>3
  <1> QED BY <1>1, <1>2 DEF Settlement

\* So it does for what the books say they have spent.
LEMMA SettlementsBalance == BookInv => books!SettlementBalances
  <1> SUFFICES ASSUME BookInv PROVE books!SettlementBalances
    OBVIOUS
  <1>1. ASSUME NEW at \in books!Months, NEW order \in books!SetToSeqs(members), order # << >>
        PROVE  Settlement(Len(order), books!SumOf(books!ByMember(at.year, at.month)),
                 [i \in 1 .. Len(order) |->
                    books!At(books!ByMember(at.year, at.month), order[i])])
    <2> DEFINE f == books!ByMember(at.year, at.month)
               n == Len(order)
               actual == [i \in 1 .. n |-> books!At(f, order[i])]
    <2>1. n \in Nat \ {0}
      BY <1>1, OrderedMembers
    <2>2. at.year \in Nat /\ at.month \in 1 .. 12
      BY AskedMonths
    <2>3. books!SumOf(f) \in Int /\ \A u : books!At(f, u) \in Int
      BY <2>2, SpentByMembers
    <2> HIDE DEF f, n
    <2>4. actual \in [1 .. n -> Int]
      BY <2>3
    <2> HIDE DEF actual
    <2>5. Settlement(n, books!SumOf(f), actual)
      BY <2>1, <2>3, <2>4, AnySettlement
    <2> QED BY <2>5 DEF actual, n, f
  <1> QED BY <1>1, Zenon DEF books!SettlementBalances, Settlement

\* Whatever a group of any size has spent, in whatever order its members are read and for
\* whatever ratio they ask for (calculate_settlement): the shares add up to it, even when
\* rounding a share or a floating point product takes something off; the transfers, fewer
\* than the members, take nobody from owing to being owed or back and leave no debtor where
\* there is a creditor; what is left, owed or due, is just what members who have left
\* have spent.
THEOREM SettlementsAlwaysBalance == Spec => []SettlementBalances
  <1>1. Init => BooksInv
    BY BooksBegin DEF Init, BooksInv
  <1>2. BooksInv /\ [Next]_vars => BooksInv'
    BY BooksStays
  <1>3. BooksInv => SettlementBalances
    BY SettlementsBalance DEF BooksInv, SettlementBalances
  <1> QED BY <1>1, <1>2, <1>3, PTL DEF Spec

-----------------------------------------------------------------------------
(* The partitions of the chat.                                             *)

LEMMA SameCalendar ==
  /\ \A d : chat!NextMonth(d) = NextMonth(d)
  /\ \A d, e : chat!NotBefore(d, e) <=> NotBefore(d, e)
  BY DEF chat!NextMonth, NextMonth, chat!NotBefore, NotBefore

\* The months from m on, one after the other.
Follow(h, m, k) == h = [i \in 0 .. k |-> IF i = 0 THEN m ELSE chat!NextMonth(h[i - 1])]

LEMMA MonthsExist ==
  ASSUME NEW m, NEW k \in Nat
  PROVE  \E h : Follow(h, m, k)
  <1> DEFINE N == {n \in Nat : \E h : Follow(h, m, n)}
  <1>1. 0 \in N
    <2>1. Follow([i \in 0 .. 0 |-> m], m, 0)
      BY DEF Follow
    <2> QED BY <2>1
  <1>2. ASSUME NEW n \in Nat, n \in N PROVE n + 1 \in N
    <2>1. PICK h : Follow(h, m, n)
      BY <1>2
    <2> DEFINE g == [i \in 0 .. n + 1 |-> IF i = n + 1 THEN chat!NextMonth(h[n]) ELSE h[i]]
    <2>2. ASSUME NEW i \in 0 .. n + 1
          PROVE  g[i] = IF i = 0 THEN m ELSE chat!NextMonth(g[i - 1])
      <3>1. CASE i = n + 1
        <4>1. g[i] = chat!NextMonth(h[n]) /\ i # 0 /\ i - 1 = n /\ n \in 0 .. n + 1 /\ n # n + 1
          BY <3>1
        <4>2. g[n] = h[n]
          BY <4>1
        <4> QED BY <4>1, <4>2
      <3>2. CASE i # n + 1
        <4>1. i \in 0 .. n /\ (i # 0 => i - 1 \in 0 .. n)
          BY <3>2
        <4>2. \A j \in 0 .. n : g[j] = h[j]
          OBVIOUS
        <4>3. h[i] = IF i = 0 THEN m ELSE chat!NextMonth(h[i - 1])
          BY <2>1, <4>1 DEF Follow
        <4> HIDE DEF g
        <4> QED BY <4>1, <4>2, <4>3
      <3> QED BY <3>1, <3>2
    <2>3. g = [i \in 0 .. n + 1 |-> g[i]]
      OBVIOUS
    <2> HIDE DEF g
    <2>4. Follow(g, m, n + 1)
      BY <2>2, <2>3 DEF Follow
    <2> QED BY <2>4
  <1> HIDE DEF N
  <1>3. Nat \subseteq N
    BY <1>1, <1>2, SetOfNaturals
  <1>4. k \in N
    BY <1>3
  <1> QED BY <1>4 DEF N

LEMMA MonthsAdvance ==
  ASSUME NEW d \in Date
  PROVE  NextMonth(d) \in Date /\ NotBefore(NextMonth(d), d)
  <1>1. NextMonth(d) \in Date /\ MonthNo(NextMonth(d)) = MonthNo(d) + 1
    BY NextMonthNo
  <1>2. MonthNo(d) \in Nat
    BY MonthNoFields
  <1> QED BY <1>1, <1>2, InOrder

LEMMA MonthsFollow ==
  ASSUME NEW m \in Date, NEW k \in Nat
  PROVE  /\ m \in chat!MonthsFrom(m, k)
         /\ \A e \in chat!MonthsFrom(m, k) : e \in Date /\ NotBefore(e, m)
  <1> DEFINE h == CHOOSE h : Follow(h, m, k)
  <1>1. Follow(h, m, k)
    BY MonthsExist
  <1>2. chat!MonthsFrom(m, k) = {h[i] : i \in 0 .. k}
    BY DEF chat!MonthsFrom, Follow
  <1> HIDE DEF h
  <1>3. \A i \in 0 .. k : h[i] = IF i = 0 THEN m ELSE NextMonth(h[i - 1])
    BY <1>1, SameCalendar DEF Follow
  <1> DEFINE N == {n \in Nat : n \in 0 .. k => h[n] \in Date /\ NotBefore(h[n], m)}
  <1>4. 0 \in N
    BY <1>3, OrderIsTotal
  <1>5. ASSUME NEW n \in Nat, n \in N PROVE n + 1 \in N
    <2> SUFFICES ASSUME n + 1 \in 0 .. k PROVE h[n + 1] \in Date /\ NotBefore(h[n + 1], m)
      OBVIOUS
    <2>1. n \in 0 .. k /\ n + 1 # 0 /\ (n + 1) - 1 = n
      OBVIOUS
    <2>2. h[n] \in Date /\ NotBefore(h[n], m)
      BY <1>5, <2>1
    <2>3. h[n + 1] = NextMonth(h[n])
      BY <1>3, <2>1
    <2>4. NextMonth(h[n]) \in Date /\ NotBefore(NextMonth(h[n]), h[n])
      BY <2>2, MonthsAdvance
    <2> QED BY <2>2, <2>3, <2>4, OrderIsTransitive
  <1> HIDE DEF N
  <1>6. Nat \subseteq N
    BY <1>4, <1>5, SetOfNaturals
  <1>7. \A i \in 0 .. k : h[i] \in Date /\ NotBefore(h[i], m)
    BY <1>6 DEF N
  <1>8. 0 \in 0 .. k /\ h[0] = m
    BY <1>3
  <1> QED BY <1>2, <1>7, <1>8

\* The rows in DEFAULT are of months that have come, in the order of the calendar, and
\* that neither a run has prepared nor the tables were made with.
Strays ==
    \A t \in Tables : \A m \in strays[t] : NotBefore(month, m) /\ m \notin partitions[t]

\* Both tables have the same partitions, those of every run among them.
InStep ==
    /\ \A t \in Tables, s \in Tables : partitions[t] = partitions[s]
    /\ \A run \in succeeded, t \in Tables : chat!MonthsFrom(run, Ahead) \subseteq partitions[t]

ChatInv ==
    /\ month \in Date
    /\ DOMAIN partitions = Tables
    /\ strays \in [Tables -> SUBSET Date]
    /\ Strays
    /\ InStep

LEMMA ChatConstants == First \in Date /\ Ahead \in Nat
  BY ChatAssumption DEF chat!PartitionsAssumption, chat!CalendarDay, chat!Date, Date

LEMMA ChatBegins == chat!Init => ChatInv
  BY ChatConstants DEF chat!Init, ChatInv, Strays, InStep

LEMMA ChatSteps == ChatInv /\ chat!Next => ChatInv'
  <1> SUFFICES ASSUME ChatInv, chat!Next PROVE ChatInv'
    OBVIOUS
  <1> USE ChatConstants
  <1>1. ASSUME NEW t \in Tables, chat!Insert(t) PROVE ChatInv'
    <2>1. /\ UNCHANGED <<month, partitions, succeeded>>
          /\ strays' = IF month \in partitions[t] THEN strays
                       ELSE [strays EXCEPT ![t] = strays[t] \cup {month}]
      BY <1>1 DEF chat!Insert
    <2>2. NotBefore(month, month)
      BY OrderIsTotal DEF ChatInv
    <2>3. strays' \in [Tables -> SUBSET Date]
      BY <2>1 DEF ChatInv
    <2>4. \A s \in Tables : \A m \in strays'[s] : NotBefore(month, m) /\ m \notin partitions[s]
      BY <2>1, <2>2 DEF ChatInv, Strays, InStep
    <2> QED BY <2>1, <2>3, <2>4 DEF ChatInv, Strays, InStep
  <1>2. ASSUME NEW t \in Tables, NEW m \in strays[t], chat!Erase(t, m) PROVE ChatInv'
    <2>1. /\ UNCHANGED <<month, partitions, succeeded>>
          /\ strays' = [strays EXCEPT ![t] = strays[t] \ {m}]
      BY <1>2 DEF chat!Erase
    <2>2. strays' \in [Tables -> SUBSET Date] /\ \A s \in Tables : strays'[s] \subseteq strays[s]
      BY <2>1 DEF ChatInv
    <2> QED BY <2>1, <2>2 DEF ChatInv, Strays, InStep
  <1>3. ASSUME chat!Run PROVE ChatInv'
    <2> DEFINE new == chat!MonthsFrom(month, Ahead)
    <2>1. /\ UNCHANGED <<month, strays>>
          /\ \A t \in Tables : strays[t] \cap (new \ partitions[t]) = {}
          /\ partitions' = [t \in Tables |-> partitions[t] \cup new]
          /\ succeeded' = succeeded \cup {month}
      BY <1>3 DEF chat!Run, chat!Blocked, chat!Targets
    <2> HIDE DEF new
    <2>2. Strays'
      BY <2>1 DEF ChatInv, Strays
    <2>3. InStep'
      <3>1. \A t \in Tables : partitions'[t] = partitions[t] \cup new
        BY <2>1
      <3>2. \A run \in succeeded' : run = month \/ run \in succeeded
        BY <2>1
      <3>3. \A t \in Tables, s \in Tables : partitions'[t] = partitions'[s]
        <4>1. ASSUME NEW t \in Tables, NEW s \in Tables PROVE partitions'[t] = partitions'[s]
          <5>1. partitions[t] = partitions[s]
            BY DEF ChatInv, InStep
          <5> QED BY <3>1, <5>1
        <4> QED BY <4>1
      <3>4. ASSUME NEW run \in succeeded', NEW t \in Tables
            PROVE  chat!MonthsFrom(run, Ahead) \subseteq partitions'[t]
        <4>1. CASE run = month
          BY <3>1, <4>1 DEF new
        <4>2. CASE run \in succeeded
          BY <3>1, <4>2 DEF ChatInv, InStep
        <4> QED BY <3>2, <4>1, <4>2
      <3> QED BY <3>3, <3>4 DEF InStep
    <2> QED BY <2>1, <2>2, <2>3 DEF ChatInv
  <1>4. ASSUME chat!NextMonthComes PROVE ChatInv'
    <2>1. month' = NextMonth(month) /\ UNCHANGED <<partitions, strays, succeeded>>
      BY <1>4, SameCalendar DEF chat!NextMonthComes
    <2>2. month' \in Date /\ NotBefore(month', month)
      BY <2>1, MonthsAdvance DEF ChatInv
    <2>3. \A t \in Tables : \A m \in strays[t] : NotBefore(month', m)
      BY <2>2, OrderIsTransitive DEF ChatInv, Strays
    <2> QED BY <2>1, <2>2, <2>3 DEF ChatInv, Strays, InStep
  <1> QED BY <1>1, <1>2, <1>3, <1>4 DEF chat!Next

LEMMA ChatKeepsUp == ChatInv => chat!PartitionsKeepUp
  <1> SUFFICES ASSUME ChatInv PROVE chat!PartitionsKeepUp
    OBVIOUS
  <1>1. \A t \in Tables : \A m \in strays[t] :
          /\ chat!NotBefore(month, m)
          /\ \A run \in succeeded : m \notin chat!MonthsFrom(run, Ahead)
          /\ \A s \in Tables : m \notin partitions[s]
    BY SameCalendar DEF ChatInv, Strays, InStep
  <1>2. ASSUME chat!Blocked(month) PROVE \E t \in Tables : month \in strays[t]
    <2>0. PICK t \in Tables : strays[t] \cap (chat!MonthsFrom(month, Ahead) \ partitions[t]) # {}
      BY <1>2 DEF chat!Blocked, chat!Targets
    <2>1. PICK m \in strays[t] : m \in chat!MonthsFrom(month, Ahead)
      BY <2>0
    <2>2. m \in Date /\ month \in Date /\ NotBefore(month, m)
      BY DEF ChatInv, Strays
    <2>3. NotBefore(m, month)
      BY <2>1, <2>2, ChatConstants, MonthsFollow
    <2>4. m = month
      BY <2>2, <2>3, OrderIsTotal
    <2> QED BY <2>1, <2>4
  <1> QED BY <1>1, <1>2 DEF chat!PartitionsKeepUp

\* Rows of the chat end outside of the partition of their month only when no run of
\* create_monthly_partitions.py has succeeded in that month or the ones before it that
\* would have prepared it, a run is refused only for rows of its own month, and the two
\* tables keep in step: for any number of months ahead and whatever the tables were
\* made with.
THEOREM PartitionsAlwaysKeepUp == Spec => []PartitionsKeepUp
  <1>1. Init => ChatInv
    BY ChatBegins DEF Init
  <1>2. ChatInv /\ [Next]_vars => ChatInv'
    <2> SUFFICES ASSUME ChatInv, [Next]_vars PROVE ChatInv'
      OBVIOUS
    <2>1. CASE chat!Next
      BY <2>1, ChatSteps
    <2>2. CASE UNCHANGED chatVars
      BY <2>2 DEF chatVars, ChatInv, Strays, InStep
    <2> QED BY <2>1, <2>2 DEF Next, vars
  <1>3. ChatInv => PartitionsKeepUp
    BY ChatKeepsUp DEF PartitionsKeepUp
  <1> QED BY <1>1, <1>2, <1>3, PTL DEF Spec
=============================================================================
