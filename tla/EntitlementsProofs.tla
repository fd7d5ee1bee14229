-------------------------- MODULE EntitlementsProofs --------------------------
(***************************************************************************)
(* The service period of Entitlements for any set of orders, any durations, *)
(* any delay of the notices and any number of partial refunds: nobody has   *)
(* more days than are paid for, nobody who was not refunded has fewer, an   *)
(* imported period survives what is bought on top of it, and days are taken *)
(* back once.                                                               *)
(***************************************************************************)
EXTENDS Entitlements, SumTheorems

-----------------------------------------------------------------------------
(* The inductive invariant                                                   *)

OrderRow == [status : {"pending", "paid"}, paidAt : Nat, days : Durations \cup {0},
             updatedAt : Nat, refunds : Nat]
PeriodRow == [status : {"none", "active", "expired", "refunded"}, start : Nat, end : Nat]
GrantRow == [row : Rows \cup {"none"}, days : Durations \cup {0}, priorHistorical : Nat]

GrantedOrders == {o \in Orders : grant[o].row # "none"}

\* Every paid order has one grant, made of the days it bought; what it remembers
\* of history is the imported end or nothing.
GrantFollows(o) ==
    /\ order[o].status = "paid" =>
          /\ grant[o].row \in Rows
          /\ grant[o].days = order[o].days
          /\ grant[o].row = "history" => baseline > 0
          /\ grant[o].priorHistorical \in {0, baseline}
    /\ order[o].status # "paid" => grant[o] = NoGrant /\ o \notin refunded

GrantsFollowOrders == \A o \in Orders : GrantFollows(o)

\* A period loses its status only when it has run out, so a period that is not
\* active never has days left that a later refund could hand out again.
EndedIsPast == \A row \in Rows : period[row].status # "active" => period[row].end <= clock

\* The end of the imported period is not forgotten: it stands in the row until
\* the first grant on it, and in one of the grants from then on.
BaselineIsKnown ==
    /\ period["history"].status = "none" <=> baseline = 0
    /\ Granted("history") = {} => period["history"].end = baseline
    /\ baseline > clock /\ mappedEnd = 0 /\ Granted("history") # {} =>
          \E o \in Granted("history") : grant[o].priorHistorical = baseline

EInv ==
    /\ TypeOK
    /\ clock > 0
    /\ IsFiniteSet(GrantedOrders)
    /\ GrantsFollowOrders
    /\ EndedIsPast
    /\ BaselineIsKnown
    /\ PaidFor
    /\ PaidIsCovered
    /\ HistoryIsKept

\* The parts of the type invariant.
LEMMA TypeUnfolds ==
    TypeOK <=> /\ clock \in Nat
               /\ order \in [Orders -> OrderRow]
               /\ period \in [Rows -> PeriodRow]
               /\ grant \in [Orders -> GrantRow]
               /\ refunded \in SUBSET Orders
               /\ mappedEnd \in Nat
               /\ baseline \in Nat
BY DEF TypeOK, OrderRow, PeriodRow, GrantRow

\* The same after a step.
LEMMA TypeUnfoldsNext ==
    TypeOK' <=> /\ clock' \in Nat
                /\ order' \in [Orders -> OrderRow]
                /\ period' \in [Rows -> PeriodRow]
                /\ grant' \in [Orders -> GrantRow]
                /\ refunded' \in SUBSET Orders
                /\ mappedEnd' \in Nat
                /\ baseline' \in Nat
BY DEF TypeOK, OrderRow, PeriodRow, GrantRow

-----------------------------------------------------------------------------
(* Maxima                                                                    *)

\* The larger of two times.
LEMMA MaxOfTwo ==
    ASSUME NEW a \in Int, NEW b \in Int
    PROVE  /\ Max({a, b}) \in {a, b} /\ Max({a, b}) >= a /\ Max({a, b}) >= b
<1>1. \E x \in {a, b} : \A y \in {a, b} : x >= y
  BY a >= b \/ b >= a
<1>2. /\ Max({a, b}) \in {a, b}
      /\ \A y \in {a, b} : Max({a, b}) >= y
  BY <1>1 DEF Max
<1> QED BY <1>2

\* The largest of three times.
LEMMA MaxOfThree ==
    ASSUME NEW a \in Int, NEW b \in Int, NEW c \in Int
    PROVE  /\ Max({a, b, c}) \in {a, b, c}
           /\ Max({a, b, c}) >= a /\ Max({a, b, c}) >= b /\ Max({a, b, c}) >= c
<1>1. \E x \in {a, b, c} : \A y \in {a, b, c} : x >= y
  <2>1. CASE a >= b /\ a >= c
    BY <2>1
  <2>2. CASE b >= a /\ b >= c
    BY <2>2
  <2>3. CASE c >= a /\ c >= b
    BY <2>3
  <2> QED BY <2>1, <2>2, <2>3
<1>2. /\ Max({a, b, c}) \in {a, b, c}
      /\ \A y \in {a, b, c} : Max({a, b, c}) >= y
  BY <1>1 DEF Max
<1> QED BY <1>2

\* The largest of numbers that are all zero or b.
LEMMA MaxOfBaselines ==
    ASSUME NEW b \in Nat, NEW S \in SUBSET {0, b}, 0 \in S
    PROVE  Max(S) = IF b \in S THEN b ELSE 0
<1> DEFINE v == IF b \in S THEN b ELSE 0
<1>1. v \in S /\ v \in Nat /\ \A y \in S : v >= y
  OBVIOUS
<1>2. Max(S) \in S /\ \A y \in S : Max(S) >= y
  <2> HIDE DEF v
  <2> QED BY <1>1 DEF Max
<1>3. \A y \in S : y \in Nat
  OBVIOUS
<1> HIDE DEF v
<1>4. Max(S) >= v /\ v >= Max(S)
  BY <1>1, <1>2
<1>5. Max(S) = v
  <2>1. Max(S) \in Nat
    BY <1>2, <1>3, Zenon
  <2>2. \A x, y \in Nat : x >= y /\ y >= x => x = y
    OBVIOUS
  <2> QED BY <1>1, <1>4, <2>1, <2>2, Zenon
<1> QED BY <1>5 DEF v

-----------------------------------------------------------------------------
(* What history keeps                                                        *)

\* The prior end that the grants on a row remember is the imported one, or
\* none.
LEMMA PriorIsBaseline ==
    ASSUME TypeOK, GrantsFollowOrders, NEW row \in Rows
    PROVE  /\ Max({0} \cup {grant[o].priorHistorical : o \in Granted(row)}) \in {0, baseline}
           /\ (\E o \in Granted(row) : grant[o].priorHistorical = baseline) =>
                 Max({0} \cup {grant[o].priorHistorical : o \in Granted(row)}) = baseline
<1> DEFINE S == {0} \cup {grant[o].priorHistorical : o \in Granted(row)}
<1>1. baseline \in Nat
  BY DEF TypeOK
<1>2. \A o \in Granted(row) : grant[o].priorHistorical \in {0, baseline}
  BY DEF GrantsFollowOrders, GrantFollows, NoGrant, Granted, Rows, TypeOK
<1>3. S \in SUBSET {0, baseline} /\ 0 \in S
  BY <1>2
<1>4. (\E o \in Granted(row) : grant[o].priorHistorical = baseline) => baseline \in S
  OBVIOUS
<1> HIDE DEF S
<1>5. Max(S) = IF baseline \in S THEN baseline ELSE 0
  BY <1>1, <1>3, MaxOfBaselines
<1>6. Max(S) \in {0, baseline} /\ (baseline \in S => Max(S) = baseline)
  BY <1>5
<1> QED BY <1>4, <1>6 DEF S

\* The independent historical baseline is the imported end or none, and it is
\* the imported end as long as that lies ahead and no source accounts for it.
LEMMA BaselineEnd ==
    ASSUME TypeOK, GrantsFollowOrders, BaselineIsKnown, NEW row \in Rows, NEW t \in Nat
    PROVE  /\ HistoricalBaselineEnd(row, t) \in {0, baseline}
           /\ row = "native" => HistoricalBaselineEnd(row, t) = 0
           /\ row = "history" /\ baseline > clock /\ clock >= t /\ mappedEnd = 0 =>
                 HistoricalBaselineEnd(row, t) = baseline
<1> DEFINE prior == Max({0} \cup {grant[o].priorHistorical : o \in Granted(row)})
           end == IF Granted(row) # {} THEN prior ELSE period[row].end
<1>1. HistoricalBaselineEnd(row, t) =
          IF row = "history" /\ ~Mapped(row) /\ end > t THEN end ELSE 0
  BY DEF HistoricalBaselineEnd
<1>2. prior \in {0, baseline}
  BY PriorIsBaseline
<1>3. (\E o \in Granted(row) : grant[o].priorHistorical = baseline) => prior = baseline
  BY PriorIsBaseline
<1> HIDE DEF prior
<1>4. row = "history" => end \in {0, baseline}
  BY <1>2 DEF BaselineIsKnown
<1>5. row = "history" /\ baseline > clock /\ mappedEnd = 0 => end = baseline
  BY <1>3 DEF BaselineIsKnown
<1> HIDE DEF end
<1>6. baseline \in Nat /\ clock \in Nat /\ mappedEnd \in Nat
  BY DEF TypeOK
<1>7. row = "history" /\ mappedEnd = 0 => ~Mapped(row)
  BY <1>6 DEF Mapped
<1> QED BY <1>1, <1>4, <1>5, <1>6, <1>7 DEF Rows

\* What a refund leaves of a row, if nothing else keeps it.
LEMMA KeptEnd ==
    ASSUME TypeOK, GrantsFollowOrders, BaselineIsKnown, NEW row \in Rows, NEW t \in Nat
    PROVE  /\ KeptByHistory(row, t) \in Nat /\ KeptByHistory(row, t) >= t
           /\ row = "native" => KeptByHistory(row, t) = t
           /\ row = "history" => KeptByHistory(row, t) \in {t, 0, baseline, mappedEnd}
           /\ row = "history" /\ baseline > clock /\ clock >= t /\ mappedEnd = 0 =>
                 KeptByHistory(row, t) >= baseline
<1> DEFINE h == HistoricalBaselineEnd(row, t)
           m == IF Mapped(row) THEN mappedEnd ELSE 0
<1>1. baseline \in Nat /\ mappedEnd \in Nat
  BY DEF TypeOK
<1>2. /\ h \in {0, baseline} /\ (row = "native" => h = 0)
      /\ row = "history" /\ baseline > clock /\ clock >= t /\ mappedEnd = 0 => h = baseline
  BY BaselineEnd
<1>3. m \in {0, mappedEnd} /\ (row = "native" => m = 0)
  BY DEF Mapped
<1>4. KeptByHistory(row, t) = Max({t, h, m})
  BY DEF KeptByHistory
<1> HIDE DEF h, m
<1>5. h \in Nat /\ m \in Nat
  BY <1>1, <1>2, <1>3
<1>6. Max({t, h, m}) \in {t, h, m} /\ Max({t, h, m}) >= t /\ Max({t, h, m}) >= h
  <2>1. t \in Int /\ h \in Int /\ m \in Int
    BY <1>5
  <2> QED BY <2>1, MaxOfThree, Zenon
<1> HIDE DEF KeptByHistory
<1> DEFINE k == Max({t, h, m})
<1>7. k \in {t, h, m} /\ k >= t /\ k >= h
  BY <1>6
<1> HIDE DEF k
<1>8. /\ k \in Nat /\ k >= t
      /\ row = "native" => k = t
      /\ row = "history" => k \in {t, 0, baseline, mappedEnd}
      /\ row = "history" /\ baseline > clock /\ clock >= t /\ mappedEnd = 0 => k >= baseline
  <2>1. k \in Nat /\ k >= t
    BY <1>5, <1>7
  <2>2. row = "native" => k = t
    BY <1>2, <1>3, <1>7
  <2>3. row = "history" => k \in {t, 0, baseline, mappedEnd}
    BY <1>2, <1>3, <1>7
  <2>4. row = "history" /\ baseline > clock /\ clock >= t /\ mappedEnd = 0 => k >= baseline
    BY <1>2, <1>7
  <2> QED BY <2>1, <2>2, <2>3, <2>4
<1> QED BY <1>4, <1>8 DEF k

-----------------------------------------------------------------------------
(* Days that are paid for                                                    *)

LiveOn(g, taken, row) == {o \in Orders : g[o].row = row} \ taken
DaysLeft(g, taken, row) ==
    SumFunctionOnSet([o \in Orders |-> g[o].days], LiveOn(g, taken, row))

\* Where a row's paid days start to count.
BaseOf(row, b, m, s) == IF row = "history" THEN Max({b, m, s}) ELSE s

\* What a row runs to without its orders is no less than its start, and on the
\* imported row no less than the import.
LEMMA BaseFacts ==
    ASSUME NEW row, NEW b \in Nat, NEW m \in Nat, NEW s \in Nat
    PROVE  /\ BaseOf(row, b, m, s) \in Nat
           /\ BaseOf(row, b, m, s) >= s
           /\ row = "history" => BaseOf(row, b, m, s) >= b /\ BaseOf(row, b, m, s) >= m
<1>1. b \in Int /\ m \in Int /\ s \in Int
  OBVIOUS
<1>2. /\ Max({b, m, s}) \in {b, m, s}
      /\ Max({b, m, s}) >= b /\ Max({b, m, s}) >= m /\ Max({b, m, s}) >= s
  BY <1>1, MaxOfThree, Zenon
<1> DEFINE x == Max({b, m, s})
<1>3. x \in {b, m, s} /\ x >= b /\ x >= m /\ x >= s
  BY <1>2
<1>4. BaseOf(row, b, m, s) = IF row = "history" THEN x ELSE s
  BY DEF BaseOf
<1> HIDE DEF x
<1> QED BY <1>3, <1>4

\* A later import or mapping only adds to it.
LEMMA BaseGrows ==
    ASSUME NEW row, NEW b \in Nat, NEW m \in Nat, NEW s \in Nat,
           NEW c \in Nat, NEW n \in Nat, c >= b, n >= m
    PROVE  BaseOf(row, c, n, s) >= BaseOf(row, b, m, s)
<1> DEFINE x == Max({b, m, s})
           y == BaseOf(row, c, n, s)
<1>1. y \in Nat /\ y >= s /\ (row = "history" => y >= c /\ y >= n)
  BY BaseFacts
<1>2. b \in Int /\ m \in Int /\ s \in Int
  OBVIOUS
<1>3. x \in {b, m, s}
  BY <1>2, MaxOfThree, Zenon
<1>4. BaseOf(row, b, m, s) = IF row = "history" THEN x ELSE s
  BY DEF BaseOf
<1> HIDE DEF x, y
<1>5. y >= (IF row = "history" THEN x ELSE s)
  BY <1>1, <1>3
<1> QED BY <1>4, <1>5 DEF y

PaidForRow(row) ==
    Runs(row) => period[row].end <= BaseOf(row, baseline, mappedEnd, period[row].start)
                                    + DaysLeft(grant, refunded, row)

\* A period is paid for row by row, before and after a step.
LEMMA PaidForUnfolds ==
    /\ PaidFor <=> \A row \in Rows : PaidForRow(row)
    /\ PaidFor' <=> \A row \in Rows : PaidForRow(row)'
BY DEF PaidFor, PaidForRow, BaseOf, DaysLeft, LiveOn, Granted

\* Durations are natural numbers.
LEMMA DurationsAreNat == \A d \in Durations \cup {0} : d \in Nat
BY EntitlementConstants

\* The days of a grant are a natural number.
LEMMA GrantDaysAreNat ==
    ASSUME NEW g \in [Orders -> GrantRow], NEW o \in Orders
    PROVE  g[o].days \in Nat
<1>1. g[o].days \in Durations \cup {0}
  BY DEF GrantRow
<1> QED BY <1>1, DurationsAreNat

\* Finitely many grants exist, so finitely many on a row are not refunded.
LEMMA LiveIsFinite ==
    ASSUME NEW g, NEW taken, NEW row \in Rows, IsFiniteSet({o \in Orders : g[o].row # "none"})
    PROVE  IsFiniteSet(LiveOn(g, taken, row))
<1>1. LiveOn(g, taken, row) \in SUBSET {o \in Orders : g[o].row # "none"}
  BY DEF LiveOn, Rows
<1> QED BY <1>1, FS_Subset

\* Their days add up to a natural number.
LEMMA DaysType ==
    ASSUME NEW g \in [Orders -> GrantRow], NEW taken, NEW row,
           IsFiniteSet(LiveOn(g, taken, row))
    PROVE  DaysLeft(g, taken, row) \in Nat
<1> DEFINE f == [o \in Orders |-> g[o].days]
<1>1. \A o \in LiveOn(g, taken, row) : f[o] \in Nat
  BY GrantDaysAreNat DEF LiveOn
<1> HIDE DEF f
<1>2. SumFunctionOnSet(f, LiveOn(g, taken, row)) \in Nat
  BY <1>1, SumType
<1> QED BY <1>2 DEF DaysLeft, f

\* The days left depend on the unrefunded grants of the row alone.
LEMMA DaysStay ==
    ASSUME NEW g, NEW h, NEW taken, NEW now, NEW row, IsFiniteSet(LiveOn(g, taken, row)),
           LiveOn(h, now, row) = LiveOn(g, taken, row),
           \A o \in LiveOn(g, taken, row) : h[o].days = g[o].days
    PROVE  DaysLeft(h, now, row) = DaysLeft(g, taken, row)
<1> DEFINE f == [o \in Orders |-> g[o].days]
           k == [o \in Orders |-> h[o].days]
           S == LiveOn(g, taken, row)
<1>1. \A o \in S : k[o] = f[o]
  BY DEF LiveOn
<1> HIDE DEF f, k
<1>2. SumFunctionOnSet(k, S) = SumFunctionOnSet(f, S)
  BY <1>1, SumCongruent
<1> QED BY <1>2 DEF DaysLeft, f, k

\* A new grant adds its own days.
LEMMA DaysGrow ==
    ASSUME NEW g \in [Orders -> GrantRow], NEW h \in [Orders -> GrantRow],
           NEW taken, NEW now, NEW row, IsFiniteSet(LiveOn(g, taken, row)),
           NEW o \in Orders, o \notin LiveOn(g, taken, row),
           LiveOn(h, now, row) = LiveOn(g, taken, row) \cup {o},
           \A p \in LiveOn(g, taken, row) : h[p].days = g[p].days
    PROVE  DaysLeft(h, now, row) = DaysLeft(g, taken, row) + h[o].days
<1> DEFINE f == [p \in Orders |-> g[p].days]
           k == [p \in Orders |-> h[p].days]
           S == LiveOn(g, taken, row)
<1>1. \A p \in S : k[p] = f[p]
  BY DEF LiveOn
<1>2. /\ \A p \in S \cup {o} : k[p] \in Nat
      /\ \A p \in S : f[p] \in Nat
      /\ k[o] = h[o].days
  BY GrantDaysAreNat DEF LiveOn
<1> HIDE DEF f, k
<1>3. SumFunctionOnSet(k, S) = SumFunctionOnSet(f, S)
  BY <1>1, SumCongruent
<1>4. SumFunctionOnSet(k, S \cup {o}) = k[o] + SumFunctionOnSet(k, S)
  BY <1>2, SumAdd
<1>5. SumFunctionOnSet(f, S) \in Nat
  BY <1>2, SumType
<1>6. k[o] + SumFunctionOnSet(f, S) = SumFunctionOnSet(f, S) + k[o]
  BY <1>2, <1>5
<1>7. DaysLeft(h, now, row) = SumFunctionOnSet(k, S \cup {o})
  BY DEF DaysLeft, k
<1>8. DaysLeft(g, taken, row) = SumFunctionOnSet(f, S)
  BY DEF DaysLeft, f
<1> QED BY <1>2, <1>3, <1>4, <1>6, <1>7, <1>8

-----------------------------------------------------------------------------
(* The initial states and the steps of history and time                      *)

\* Before any import and payment the invariant holds.
LEMMA InitEInv == Init => EInv
<1> SUFFICES ASSUME Init PROVE EInv
  OBVIOUS
<1>1. TypeOK /\ clock > 0
  BY DEF Init, TypeOK, NoGrant, Rows
<1>2. GrantedOrders = {} /\ \A row \in Rows : Granted(row) = {}
  BY DEF Init, GrantedOrders, Granted, NoGrant, Rows
<1>3. GrantsFollowOrders
  BY DEF Init, GrantsFollowOrders, GrantFollows
<1>4. EndedIsPast
  BY DEF Init, EndedIsPast, Rows
<1>5. BaselineIsKnown
  BY <1>2 DEF Init, BaselineIsKnown, Rows
<1>6. PaidFor
  BY PaidForUnfolds DEF Init, PaidForRow, Runs, Rows
<1>7. PaidIsCovered
  BY DEF Init, PaidIsCovered
<1>8. HistoryIsKept
  BY DEF Init, HistoryIsKept
<1> QED BY <1>1, <1>2, <1>3, <1>4, <1>5, <1>6, <1>7, <1>8, FS_EmptySet DEF EInv

\* Time passes; a period that ran out stays as it is.
LEMMA TickEInv == EInv /\ (Tick \/ UNCHANGED vars) => EInv'
<1> SUFFICES ASSUME EInv, Tick \/ UNCHANGED vars PROVE EInv'
  OBVIOUS
<1>1. /\ UNCHANGED <<order, period, grant, refunded, mappedEnd, baseline>>
      /\ clock' = clock \/ clock' = clock + 1
  BY DEF Tick, vars
<1>2. TypeOK /\ clock \in Nat /\ clock > 0 /\ baseline \in Nat /\ period \in [Rows -> PeriodRow]
  BY TypeUnfolds DEF EInv
<1>3. clock' \in Nat /\ clock' >= clock /\ clock' > 0
  BY <1>1, <1>2
<1>4. TypeOK'
  BY <1>1, <1>2, <1>3, TypeUnfolds, TypeUnfoldsNext
<1>5. GrantedOrders' = GrantedOrders /\ Granted("history")' = Granted("history")
  BY <1>1 DEF GrantedOrders, Granted
<1>6. GrantsFollowOrders'
  BY <1>1 DEF EInv, GrantsFollowOrders, GrantFollows
<1>7. EndedIsPast'
  BY <1>1, <1>2, <1>3 DEF EInv, EndedIsPast, PeriodRow
<1>8. BaselineIsKnown'
  BY <1>1, <1>2, <1>3, <1>5 DEF EInv, BaselineIsKnown
<1>9. PaidFor'
  <2>1. \A row \in Rows : period[row].end \in Nat
    BY <1>2 DEF PeriodRow
  <2>2. \A row \in Rows : Runs(row)' => Runs(row)
    BY <1>1, <1>2, <1>3, <2>1 DEF Runs
  <2> QED BY <1>1, <2>2, PaidForUnfolds DEF EInv, PaidForRow
<1>10. PaidIsCovered'
  <2>1. \A o \in Orders : order[o].paidAt + order[o].days \in Nat
    <3> TAKE o \in Orders
    <3>1. order[o].paidAt \in Nat /\ order[o].days \in Durations \cup {0}
      BY <1>2 DEF TypeOK
    <3> QED BY <3>1, DurationsAreNat
  <2> QED BY <1>1, <1>2, <1>3, <2>1 DEF EInv, PaidIsCovered
<1>11. HistoryIsKept'
  BY <1>1, <1>2, <1>3 DEF EInv, HistoryIsKept
<1> QED BY <1>3, <1>4, <1>5, <1>6, <1>7, <1>8, <1>9, <1>10, <1>11 DEF EInv

\* Mapping the old system's end keeps the invariant.
LEMMA MapSourceEInv ==
    ASSUME NEW end \in 1 .. MaxTime + 1
    PROVE  EInv /\ MapSource(end) => EInv'
<1> SUFFICES ASSUME EInv, MapSource(end) PROVE EInv'
  OBVIOUS
<1>1. /\ UNCHANGED <<clock, order, period, grant, refunded, baseline>>
      /\ mappedEnd = 0 /\ mappedEnd' = end
  BY DEF MapSource
<1>2. end \in Nat /\ end > 0 /\ clock > 0
  BY EntitlementConstants DEF EInv
<1>3. TypeOK /\ baseline \in Nat /\ period \in [Rows -> PeriodRow] /\ grant \in [Orders -> GrantRow]
  BY TypeUnfolds DEF EInv
<1>4. TypeOK'
  BY <1>1, <1>2, <1>3, TypeUnfolds, TypeUnfoldsNext
<1>5. GrantedOrders' = GrantedOrders /\ Granted("history")' = Granted("history")
  BY <1>1 DEF GrantedOrders, Granted
<1>6. GrantsFollowOrders' /\ EndedIsPast' /\ PaidIsCovered'
  BY <1>1 DEF EInv, GrantsFollowOrders, GrantFollows, EndedIsPast, PaidIsCovered
<1>7. BaselineIsKnown' /\ HistoryIsKept'
  BY <1>1, <1>2, <1>5 DEF EInv, BaselineIsKnown, HistoryIsKept
<1>8. PaidFor'
  <2> SUFFICES ASSUME NEW row \in Rows, Runs(row)
               PROVE  period[row].end <=
                        BaseOf(row, baseline, end, period[row].start)
                        + DaysLeft(grant, refunded, row)
    BY <1>1, PaidForUnfolds DEF PaidForRow, Runs
  <2> DEFINE old == BaseOf(row, baseline, 0, period[row].start)
             new == BaseOf(row, baseline, end, period[row].start)
             days == DaysLeft(grant, refunded, row)
  <2>1. period[row].end <= old + days
    BY <1>1, PaidForUnfolds DEF EInv, PaidForRow
  <2>2. period[row].start \in Nat /\ period[row].end \in Nat
    BY <1>3 DEF PeriodRow
  <2>3. old \in Nat /\ new \in Nat /\ new >= old
    BY <1>2, <1>3, <2>2, BaseFacts, BaseGrows
  <2>4. days \in Nat
    BY <1>3, LiveIsFinite, DaysType DEF EInv, GrantedOrders
  <2> HIDE DEF old, new, days
  <2>5. period[row].end <= new + days
    BY <2>1, <2>2, <2>3, <2>4
  <2> QED BY <2>5 DEF new, days
<1> QED BY <1>1, <1>4, <1>5, <1>6, <1>7, <1>8 DEF EInv

\* The import opens the historical period.
LEMMA ImportEInv ==
    ASSUME NEW end \in 1 .. MaxTime + 1
    PROVE  EInv /\ Import(end) => EInv'
<1> SUFFICES ASSUME EInv, Import(end) PROVE EInv'
  OBVIOUS
<1>1. /\ UNCHANGED <<clock, order, grant, refunded, mappedEnd>>
      /\ period["history"].status = "none" /\ end > clock /\ baseline' = end
      /\ period' = [period EXCEPT !["history"] =
            [status |-> "active", start |-> clock, end |-> end]]
  BY DEF Import
<1>2. end \in Nat /\ end > 0
  BY EntitlementConstants
<1>3. /\ TypeOK /\ clock \in Nat /\ baseline \in Nat /\ mappedEnd \in Nat
      /\ period \in [Rows -> PeriodRow] /\ grant \in [Orders -> GrantRow]
  BY TypeUnfolds DEF EInv
<1>4. /\ period' \in [Rows -> PeriodRow] /\ period'["native"] = period["native"]
      /\ period'["history"] = [status |-> "active", start |-> clock, end |-> end]
  BY <1>1, <1>2, <1>3 DEF PeriodRow, Rows
<1>5. TypeOK'
  BY <1>1, <1>2, <1>3, <1>4, TypeUnfolds, TypeUnfoldsNext
<1>6. baseline = 0 /\ Granted("history") = {}
  BY <1>1, <1>3 DEF EInv, BaselineIsKnown, GrantsFollowOrders, GrantFollows, Granted, NoGrant
<1>7. GrantedOrders' = GrantedOrders /\ Granted("history")' = {}
  BY <1>1, <1>6 DEF GrantedOrders, Granted
<1>8. GrantsFollowOrders'
  BY <1>1, <1>2, <1>6 DEF EInv, GrantsFollowOrders, GrantFollows
<1>9. EndedIsPast'
  BY <1>1, <1>4 DEF EInv, EndedIsPast, Rows
<1>10. BaselineIsKnown'
  BY <1>1, <1>2, <1>4, <1>7 DEF BaselineIsKnown
<1>11. HistoryIsKept'
  BY <1>1, <1>2, <1>4 DEF HistoryIsKept
<1>12. PaidIsCovered'
  <2>1. \A o \in Orders : order[o].status = "paid" => grant[o].row = "native"
    BY <1>6 DEF EInv, GrantsFollowOrders, GrantFollows, Rows
  <2> QED BY <1>1, <1>4, <2>1 DEF EInv, PaidIsCovered
<1>13. PaidFor'
  <2>1. PaidForRow("native")'
    BY <1>1, <1>4, PaidForUnfolds DEF EInv, PaidForRow, Runs, BaseOf, Rows
  <2>2. PaidForRow("history")'
    <3> DEFINE base == BaseOf("history", end, mappedEnd, clock)
               days == DaysLeft(grant, refunded, "history")
    <3>1. base \in Nat /\ base >= end
      BY <1>2, <1>3, BaseFacts
    <3>2. days \in Nat
      BY <1>3, LiveIsFinite, DaysType DEF EInv, GrantedOrders, Rows
    <3> HIDE DEF base, days
    <3>3. end <= base + days
      BY <1>2, <3>1, <3>2
    <3> QED BY <1>1, <1>4, <3>3 DEF PaidForRow, base, days
  <2> QED BY <2>1, <2>2, PaidForUnfolds DEF Rows
<1> QED BY <1>1, <1>5, <1>7, <1>8, <1>9, <1>10, <1>11, <1>12, <1>13 DEF EInv

-----------------------------------------------------------------------------
(* A paid order                                                              *)

\* The rows that a payment writes.
LEMMA PayRows ==
    ASSUME TypeOK, NEW o \in Orders, NEW days \in Durations, NEW paidAt \in Nat,
           Pay(o, days, paidAt)
    PROVE  /\ order' \in [Orders -> OrderRow]
           /\ order[o].status = "pending"
           /\ order'[o].status = "paid" /\ order'[o].days = days
           /\ order'[o].paidAt = paidAt
           /\ \A p \in Orders : p # o => order'[p] = order[p]
<1>1. order \in [Orders -> OrderRow] /\ order[o] \in OrderRow
  BY TypeUnfolds
<1>2. order' = [order EXCEPT ![o] = [order[o] EXCEPT !.status = "paid", !.paidAt = paidAt,
                                                     !.days = days, !.updatedAt = paidAt]]
  BY <1>1 DEF Pay
<1> DEFINE new == [order[o] EXCEPT !.status = "paid", !.paidAt = paidAt,
                                   !.days = days, !.updatedAt = paidAt]
<1>3. new \in OrderRow /\ new.status = "paid" /\ new.days = days /\ new.paidAt = paidAt
  BY <1>1 DEF OrderRow
<1>4. order' = [order EXCEPT ![o] = new]
  BY <1>2
<1>5. order[o].status = "pending"
  BY DEF Pay
<1> HIDE DEF new
<1> QED BY <1>1, <1>3, <1>4, <1>5

\* The row that a payment renews exists; the historical one only if it was
\* imported.
LEMMA LatestIsRow == Latest \in Rows /\ (Latest = "history" => period["history"].status # "none")
BY DEF Latest, Rows

\* A payment renews the running period or starts a new one.
LEMMA PayEInv ==
    ASSUME NEW o \in Orders, NEW days \in Durations, NEW paidAt \in clock - MaxDelay .. clock
    PROVE  EInv /\ Pay(o, days, paidAt) => EInv'
<1> SUFFICES ASSUME EInv, Pay(o, days, paidAt) PROVE EInv'
  OBVIOUS
<1> DEFINE row == Latest
           renews == Runs(row)
           prior == IF renews THEN HistoricalBaselineEnd(row, clock) ELSE 0
           start == IF renews THEN period[row].start ELSE paidAt
           end == (IF renews THEN period[row].end ELSE paidAt) + days
<1>1. /\ TypeOK /\ clock \in Nat /\ baseline \in Nat /\ mappedEnd \in Nat
      /\ period \in [Rows -> PeriodRow] /\ grant \in [Orders -> GrantRow]
      /\ order \in [Orders -> OrderRow] /\ refunded \in SUBSET Orders
      /\ GrantsFollowOrders /\ BaselineIsKnown /\ IsFiniteSet(GrantedOrders)
  BY TypeUnfolds DEF EInv
<1>2. paidAt \in Nat /\ paidAt <= clock
  <2>1. order[o].updatedAt \in Nat /\ paidAt >= order[o].updatedAt
    BY <1>1 DEF Pay, OrderRow
  <2> QED BY <1>1, <2>1, EntitlementConstants
<1>3. /\ order' \in [Orders -> OrderRow]
      /\ order[o].status = "pending"
      /\ order'[o].status = "paid" /\ order'[o].days = days
      /\ order'[o].paidAt = paidAt
      /\ \A p \in Orders : p # o => order'[p] = order[p]
  BY <1>1, <1>2, PayRows
<1>4. /\ UNCHANGED <<clock, refunded, mappedEnd, baseline>>
      /\ period' = [period EXCEPT ![row] = [status |-> "active", start |-> start, end |-> end]]
      /\ grant' = [grant EXCEPT ![o] = [row |-> row, days |-> days, priorHistorical |-> prior]]
  BY DEF Pay
<1>5. row \in Rows /\ (row = "history" => period["history"].status # "none")
  BY LatestIsRow
<1>6. days \in Nat /\ days > 0 /\ days \in Durations \cup {0}
  BY EntitlementConstants
<1>7. prior \in {0, baseline} /\ prior \in Nat
  BY <1>1, <1>5, BaselineEnd
<1>8. /\ row = "history" /\ baseline > clock /\ mappedEnd = 0 /\ renews => prior = baseline
  BY <1>1, <1>5, BaselineEnd
<1>9. start \in Nat /\ end \in Nat
  BY <1>1, <1>2, <1>5, <1>6 DEF PeriodRow
<1>10. /\ renews => /\ period[row].status = "active" /\ period[row].end > clock
                    /\ start = period[row].start /\ end = period[row].end + days
       /\ ~renews => start = paidAt /\ end = paidAt + days
       /\ period[row].status = "active" /\ period[row].end > clock => renews
  BY DEF Runs
<1>11. renews \in BOOLEAN
  BY DEF Runs
<1> HIDE DEF row, renews, prior, start, end
<1>12. /\ period' \in [Rows -> PeriodRow]
       /\ period'[row] = [status |-> "active", start |-> start, end |-> end]
       /\ \A r \in Rows : r # row => period'[r] = period[r]
  BY <1>1, <1>4, <1>5, <1>9 DEF PeriodRow
<1>13. /\ grant' \in [Orders -> GrantRow]
       /\ grant'[o] = [row |-> row, days |-> days, priorHistorical |-> prior]
       /\ \A p \in Orders : p # o => grant'[p] = grant[p]
  BY <1>1, <1>4, <1>5, <1>6, <1>7 DEF GrantRow
<1>14. TypeOK'
  BY <1>1, <1>3, <1>4, <1>12, <1>13, TypeUnfoldsNext
<1>15. grant[o].row = "none" /\ o \notin refunded
  BY <1>1, <1>3 DEF GrantsFollowOrders, GrantFollows, NoGrant
<1>16. IsFiniteSet(GrantedOrders')
  <2>1. GrantedOrders' = GrantedOrders \cup {o}
    BY <1>5, <1>13 DEF GrantedOrders, Rows
  <2> QED BY <1>1, <2>1, FS_AddElement
<1>17. /\ row = "history" => o \in Granted("history")'
       /\ row # "history" => Granted("history")' = Granted("history")
  BY <1>5, <1>13, <1>15 DEF Granted, Rows
<1>18. GrantsFollowOrders'
  <2> SUFFICES ASSUME NEW p \in Orders PROVE GrantFollows(p)'
    BY DEF GrantsFollowOrders
  <2>1. CASE p = o
    <3>1. row = "history" => baseline > 0
      BY <1>1, <1>5 DEF BaselineIsKnown
    <3> QED BY <1>3, <1>4, <1>5, <1>7, <1>13, <2>1, <3>1 DEF GrantFollows
  <2>2. CASE p # o
    BY <1>1, <1>3, <1>4, <1>13, <2>2 DEF GrantsFollowOrders, GrantFollows
  <2> QED BY <2>1, <2>2
<1>19. EndedIsPast'
  BY <1>4, <1>12 DEF EInv, EndedIsPast
<1>20. HistoryIsKept'
  <2> SUFFICES ASSUME baseline > clock, mappedEnd = 0
               PROVE  period'["history"].status = "active" /\ period'["history"].end >= baseline
    BY <1>4 DEF HistoryIsKept
  <2>1. period["history"].status = "active" /\ period["history"].end >= baseline
    BY DEF EInv, HistoryIsKept
  <2>2. CASE row = "history"
    <3>1. renews /\ period["history"].end \in Nat
      BY <1>1, <1>10, <2>1, <2>2 DEF PeriodRow, Rows
    <3> QED BY <1>1, <1>6, <1>10, <1>12, <2>1, <2>2, <3>1
  <2>3. CASE row # "history"
    BY <1>12, <2>1, <2>3 DEF Rows
  <2> QED BY <2>2, <2>3
<1>21. BaselineIsKnown'
  <2>1. period'["history"].status = "none" <=> baseline' = 0
    <3>1. CASE row = "history"
      BY <1>1, <1>4, <1>5, <1>12, <3>1 DEF BaselineIsKnown
    <3>2. CASE row # "history"
      BY <1>1, <1>4, <1>12, <3>2 DEF BaselineIsKnown, Rows
    <3> QED BY <3>1, <3>2
  <2>2. Granted("history")' = {} => period'["history"].end = baseline'
    <3>1. CASE row = "history"
      BY <1>17, <3>1
    <3>2. CASE row # "history"
      BY <1>1, <1>4, <1>12, <1>17, <3>2 DEF BaselineIsKnown, Rows
    <3> QED BY <3>1, <3>2
  <2>3. ASSUME baseline > clock, mappedEnd = 0, Granted("history")' # {}
        PROVE  \E p \in Granted("history")' : grant'[p].priorHistorical = baseline
    <3>1. CASE Granted("history") # {}
      <4>1. PICK p \in Granted("history") : grant[p].priorHistorical = baseline
        BY <1>1, <2>3, <3>1 DEF BaselineIsKnown
      <4>2. p \in Orders /\ p # o
        BY <1>15, <4>1 DEF Granted
      <4>3. p \in Granted("history")' /\ grant'[p].priorHistorical = baseline
        BY <1>13, <4>1, <4>2 DEF Granted
      <4> QED BY <4>3
    <3>2. CASE Granted("history") = {}
      <4>1. row = "history"
        BY <1>5, <1>17, <2>3, <3>2 DEF Rows
      <4>2. period["history"].status = "active" /\ period["history"].end >= baseline
        BY <2>3 DEF EInv, HistoryIsKept
      <4>3. renews
        BY <1>1, <1>10, <2>3, <4>1, <4>2 DEF PeriodRow, Rows
      <4>4. prior = baseline
        BY <1>8, <2>3, <4>1, <4>3
      <4>5. o \in Granted("history")' /\ grant'[o].priorHistorical = baseline
        BY <1>13, <4>1, <4>4 DEF Granted
      <4> QED BY <4>5
    <3> QED BY <3>1, <3>2
  <2> QED BY <1>4, <2>1, <2>2, <2>3 DEF BaselineIsKnown
<1>22. PaidIsCovered'
  <2> SUFFICES ASSUME refunded = {}, NEW p \in Orders, order'[p].status = "paid",
                      order'[p].paidAt + order'[p].days > clock
               PROVE  /\ period'[grant'[p].row].status = "active"
                      /\ period'[grant'[p].row].end >= order'[p].paidAt + order'[p].days
    BY <1>4 DEF PaidIsCovered
  <2>1. CASE p = o
    <3>1. grant'[p].row = row /\ order'[p].paidAt = paidAt /\ order'[p].days = days
      BY <1>3, <1>13, <2>1
    <3>2. end >= paidAt + days
      <4>1. CASE renews
        <5>1. period[row].end \in Nat
          BY <1>1, <1>5 DEF PeriodRow
        <5> QED BY <1>1, <1>2, <1>6, <1>10, <4>1, <5>1
      <4>2. CASE ~renews
        BY <1>2, <1>6, <1>10, <4>2
      <4> QED BY <4>1, <4>2
    <3> QED BY <1>12, <3>1, <3>2
  <2>2. CASE p # o
    <3> DEFINE r == grant[p].row
               covered == order[p].paidAt + order[p].days
    <3>1. /\ grant'[p] = grant[p] /\ order'[p] = order[p] /\ r \in Rows
      BY <1>1, <1>3, <1>13, <2>2 DEF GrantsFollowOrders, GrantFollows
    <3>2. period[r].status = "active" /\ period[r].end >= covered /\ covered > clock
      BY <2>2, <3>1 DEF EInv, PaidIsCovered
    <3>3. period[r].end \in Nat /\ covered \in Nat
      <4>1. order[p].paidAt \in Nat /\ order[p].days \in Durations \cup {0}
        BY <1>1 DEF OrderRow
      <4>2. order[p].days \in Nat
        BY <4>1, DurationsAreNat
      <4> QED BY <1>1, <3>1, <4>1, <4>2 DEF PeriodRow
    <3> HIDE DEF r, covered
    <3>4. CASE r = row
      <4>1. renews
        BY <1>1, <1>10, <3>2, <3>3, <3>4
      <4>2. end >= covered
        BY <1>6, <1>10, <3>2, <3>3, <3>4, <4>1
      <4> QED BY <1>12, <3>1, <3>4, <4>2 DEF r, covered
    <3>5. CASE r # row
      BY <1>12, <3>1, <3>2, <3>5 DEF r, covered
    <3> QED BY <3>4, <3>5
  <2> QED BY <2>1, <2>2
<1>23. PaidFor'
  <2> SUFFICES ASSUME NEW r \in Rows PROVE PaidForRow(r)'
    BY PaidForUnfolds
  <2>1. IsFiniteSet(LiveOn(grant, refunded, r))
    BY <1>1, LiveIsFinite DEF GrantedOrders
  <2>2. DaysLeft(grant, refunded, r) \in Nat
    BY <1>1, <2>1, DaysType
  <2>3. PaidForRow(r)
    BY PaidForUnfolds DEF EInv
  <2>4. CASE r = row
    <3> DEFINE base == BaseOf(row, baseline, mappedEnd, start)
               before == DaysLeft(grant, refunded, row)
    <3>1. LiveOn(grant', refunded, row) = LiveOn(grant, refunded, row) \cup {o}
          /\ o \notin LiveOn(grant, refunded, row)
          /\ \A p \in LiveOn(grant, refunded, row) : grant'[p].days = grant[p].days
      BY <1>5, <1>13, <1>15 DEF LiveOn, Rows
    <3>2. DaysLeft(grant', refunded, row) = before + grant'[o].days
      BY <1>1, <1>13, <2>1, <2>4, <3>1, DaysGrow
    <3>3. grant'[o].days = days
      BY <1>13
    <3>4. base \in Nat /\ base >= start
      BY <1>1, <1>9, BaseFacts
    <3>5. renews => period[row].end <= base + before
      BY <1>1, <1>5, <1>10, <2>3, <2>4 DEF PaidForRow, Runs
    <3>6. before \in Nat
      BY <2>2, <2>4
    <3> HIDE DEF base, before
    <3>7. end <= base + (before + days)
      <4>1. CASE renews
        <5>1. period[row].end \in Nat
          BY <1>1, <1>5 DEF PeriodRow
        <5> QED BY <1>6, <1>10, <3>4, <3>5, <3>6, <4>1, <5>1
      <4>2. CASE ~renews
        BY <1>2, <1>6, <1>10, <3>4, <3>6, <4>2
      <4> QED BY <4>1, <4>2
    <3>8. period'[row].end = end /\ period'[row].start = start
      BY <1>12
    <3> QED BY <1>4, <2>4, <3>2, <3>3, <3>7, <3>8 DEF PaidForRow, base
  <2>5. CASE r # row
    <3>1. LiveOn(grant', refunded, r) = LiveOn(grant, refunded, r)
          /\ \A p \in LiveOn(grant, refunded, r) : grant'[p].days = grant[p].days
      BY <1>5, <1>13, <1>15, <2>5 DEF LiveOn, Rows
    <3>2. DaysLeft(grant', refunded, r) = DaysLeft(grant, refunded, r)
      BY <2>1, <3>1, DaysStay
    <3>3. period'[r] = period[r]
      BY <1>12, <2>5
    <3> QED BY <1>4, <2>3, <3>2, <3>3 DEF PaidForRow, Runs
  <2> QED BY <2>4, <2>5
<1> QED BY <1>4, <1>14, <1>16, <1>18, <1>19, <1>20, <1>21, <1>22, <1>23 DEF EInv

-----------------------------------------------------------------------------
(* A refund                                                                  *)

\* Where the first refund of o ends the period of its row.
LeftBy(o, t) ==
    IF OtherUnrefunded(o, grant[o].row)
    THEN Max({KeptByHistory(grant[o].row, t), period[grant[o].row].end - grant[o].days})
    ELSE KeptByHistory(grant[o].row, t)

\* A refund takes the days of its order, but never what the imported period
\* keeps.
LEMMA LeftIsKeptOrUnpaid ==
    ASSUME EInv, NEW o \in Orders, grant[o].row \in Rows, NEW t \in Nat
    PROVE  /\ LeftBy(o, t) \in Nat
           /\ LeftBy(o, t) >= KeptByHistory(grant[o].row, t)
           /\ \/ LeftBy(o, t) = KeptByHistory(grant[o].row, t)
              \/ LeftBy(o, t) = period[grant[o].row].end - grant[o].days
<1> DEFINE k == KeptByHistory(grant[o].row, t)
           e == period[grant[o].row].end - grant[o].days
<1>1. k \in Nat
  BY KeptEnd DEF EInv
<1>2. e \in Int
  <2>1. grant \in [Orders -> GrantRow] /\ period \in [Rows -> PeriodRow]
    BY TypeUnfolds DEF EInv
  <2>2. grant[o].days \in Nat /\ period[grant[o].row].end \in Nat
    BY <2>1, GrantDaysAreNat DEF PeriodRow
  <2> QED BY <2>2
<1>3. LeftBy(o, t) = IF OtherUnrefunded(o, grant[o].row) THEN Max({k, e}) ELSE k
  BY DEF LeftBy
<1> HIDE DEF k, e
<1>4. Max({k, e}) \in {k, e} /\ Max({k, e}) >= k
  <2>1. k \in Int
    BY <1>1
  <2> QED BY <1>2, <2>1, MaxOfTwo, Zenon
<1>5. /\ LeftBy(o, t) \in Nat
      /\ LeftBy(o, t) >= k
      /\ LeftBy(o, t) = k \/ LeftBy(o, t) = e
  BY <1>1, <1>2, <1>3, <1>4
<1> QED BY <1>5 DEF k, e

\* The order that a refund writes.
LEMMA RefundOrderRow ==
    ASSUME TypeOK, NEW o \in Orders, NEW t \in Nat, RefundOrder(o, t)
    PROVE  /\ order' \in [Orders -> OrderRow]
           /\ order[o].status = "paid"
           /\ \A p \in Orders : /\ order'[p].status = order[p].status
                                 /\ order'[p].paidAt = order[p].paidAt
                                 /\ order'[p].days = order[p].days
<1> DEFINE n == order[o].refunds + 1
           new == [[order[o] EXCEPT !.refunds = n] EXCEPT !.updatedAt = t]
<1>1. order \in [Orders -> OrderRow] /\ order[o] \in OrderRow
  BY TypeUnfolds
<1>2. order' = [order EXCEPT ![o] = new]
  BY <1>1 DEF RefundOrder
<1>3. /\ new \in OrderRow /\ new.status = order[o].status
      /\ new.paidAt = order[o].paidAt /\ new.days = order[o].days
  <2>1. n \in Nat
    BY <1>1 DEF OrderRow
  <2> HIDE DEF n
  <2> QED BY <1>1, <2>1 DEF OrderRow
<1>4. order[o].status = "paid"
  BY DEF RefundOrder
<1> HIDE DEF new
<1> QED BY <1>1, <1>2, <1>3, <1>4

\* The period that its first refund writes.
LEMMA RevokeRow ==
    ASSUME EInv, NEW o \in Orders, grant[o].row \in Rows, NEW t \in Nat, Revoke(o, t)
    PROVE  LET row == grant[o].row IN
           /\ period' \in [Rows -> PeriodRow]
           /\ period'[row].end = LeftBy(o, t)
           /\ period'[row].start = period[row].start
           /\ period'[row].status # "none"
           /\ period'[row].status = "active" <=> LeftBy(o, t) > t
           /\ \A r \in Rows : r # row => period'[r] = period[r]
<1> DEFINE row == grant[o].row
           end == LeftBy(o, t)
           status == IF end > t THEN "active"
                     ELSE IF OtherUnrefunded(o, row) THEN "expired" ELSE "refunded"
           new == [[period[row] EXCEPT !.end = end] EXCEPT !.status = status]
<1>1. period \in [Rows -> PeriodRow] /\ period[row] \in PeriodRow
  BY TypeUnfolds DEF EInv
<1>2. end \in Nat
  BY LeftIsKeptOrUnpaid
<1>3. period' = [period EXCEPT ![row].end = end, ![row].status = status]
  BY DEF Revoke, LeftBy
<1>4. /\ status \in {"active", "expired", "refunded"}
      /\ status = "active" <=> end > t
  OBVIOUS
<1> HIDE DEF end, status, row
<1>5. period' = [period EXCEPT ![row] = new]
  BY <1>1, <1>3
<1>6. /\ new \in PeriodRow /\ new.start = period[row].start
      /\ new.end = end /\ new.status = status
  BY <1>1, <1>2, <1>4 DEF PeriodRow
<1> HIDE DEF new
<1>7. row \in Rows
  BY DEF row
<1>8. period' \in [Rows -> PeriodRow] /\ period'[row] = new
      /\ \A r \in Rows : r # row => period'[r] = period[r]
  BY <1>1, <1>5, <1>6, <1>7
<1> QED BY <1>4, <1>6, <1>8 DEF row, end

\* The first refund of an order takes its days back, a later one nothing.
LEMMA RefundOrderEInv ==
    ASSUME NEW o \in Orders, NEW t \in clock - MaxDelay .. clock
    PROVE  EInv /\ RefundOrder(o, t) => EInv'
<1> SUFFICES ASSUME EInv, RefundOrder(o, t) PROVE EInv'
  OBVIOUS
<1>1. /\ TypeOK /\ clock \in Nat /\ baseline \in Nat /\ mappedEnd \in Nat
      /\ period \in [Rows -> PeriodRow] /\ grant \in [Orders -> GrantRow]
      /\ order \in [Orders -> OrderRow] /\ refunded \in SUBSET Orders
      /\ GrantsFollowOrders /\ BaselineIsKnown /\ IsFiniteSet(GrantedOrders)
  BY TypeUnfolds DEF EInv
<1>2. t \in Nat /\ t <= clock
  <2>1. order[o].updatedAt \in Nat /\ t >= order[o].updatedAt
    BY <1>1 DEF RefundOrder, OrderRow
  <2> QED BY <1>1, <2>1, EntitlementConstants
<1>3. /\ order' \in [Orders -> OrderRow]
      /\ order[o].status = "paid"
      /\ \A p \in Orders : /\ order'[p].status = order[p].status
                            /\ order'[p].paidAt = order[p].paidAt
                            /\ order'[p].days = order[p].days
  BY <1>1, <1>2, RefundOrderRow
<1>4. /\ UNCHANGED <<clock, grant, mappedEnd, baseline>>
      /\ refunded' = refunded \cup {o}
      /\ o \notin refunded => Revoke(o, t)
      /\ o \in refunded => period' = period
  BY DEF RefundOrder, FirstRefund
<1>5. /\ grant[o].row \in Rows
      /\ grant[o].row = "history" => baseline > 0
  BY <1>1, <1>3 DEF GrantsFollowOrders, GrantFollows
<1>6. GrantedOrders' = GrantedOrders /\ Granted("history")' = Granted("history")
  BY <1>4 DEF GrantedOrders, Granted
<1>7. GrantsFollowOrders'
  BY <1>1, <1>3, <1>4 DEF GrantsFollowOrders, GrantFollows
<1>8. PaidIsCovered'
  BY <1>4 DEF PaidIsCovered
<1>9. CASE o \in refunded
  <2>1. refunded' = refunded /\ period' = period
    BY <1>4, <1>9
  <2>2. TypeOK'
    BY <1>1, <1>3, <1>4, <2>1, TypeUnfoldsNext
  <2>3. EndedIsPast' /\ HistoryIsKept'
    BY <1>4, <2>1 DEF EInv, EndedIsPast, HistoryIsKept
  <2>4. BaselineIsKnown'
    BY <1>1, <1>4, <1>6, <2>1 DEF BaselineIsKnown
  <2>5. PaidFor'
    BY <1>4, <2>1, PaidForUnfolds DEF EInv, PaidForRow, Runs
  <2> QED BY <1>4, <1>6, <1>7, <1>8, <2>2, <2>3, <2>4, <2>5 DEF EInv
<1>10. CASE o \notin refunded
  <2> DEFINE row == grant[o].row
             kept == KeptByHistory(row, t)
             end == LeftBy(o, t)
  <2>1. /\ period' \in [Rows -> PeriodRow]
        /\ period'[row].end = end
        /\ period'[row].start = period[row].start
        /\ period'[row].status # "none"
        /\ period'[row].status = "active" <=> end > t
        /\ \A r \in Rows : r # row => period'[r] = period[r]
    BY <1>2, <1>4, <1>5, <1>10, RevokeRow
  <2>2. /\ end \in Nat /\ end >= kept
        /\ end = kept \/ end = period[row].end - grant[o].days
    BY <1>2, <1>5, LeftIsKeptOrUnpaid
  <2>3. /\ kept \in Nat /\ kept >= t
        /\ row = "native" => kept = t
        /\ row = "history" => kept \in {t, 0, baseline, mappedEnd}
        /\ row = "history" /\ baseline > clock /\ mappedEnd = 0 => kept >= baseline
    BY <1>1, <1>2, <1>5, KeptEnd
  <2>4. row \in Rows /\ (row = "history" => baseline > 0)
    BY <1>5
  <2>5. /\ period[row].end \in Nat /\ period[row].start \in Nat /\ grant[o].days \in Nat
    BY <1>1, <1>5, GrantDaysAreNat DEF PeriodRow
  <2>6. o \in Granted(row)
    BY DEF Granted
  <2> HIDE DEF row, kept, end
  <2>7. TypeOK'
    BY <1>1, <1>3, <1>4, <2>1, TypeUnfoldsNext
  <2>8. EndedIsPast'
    <3> SUFFICES ASSUME NEW r \in Rows, period'[r].status # "active"
                 PROVE  period'[r].end <= clock
      BY <1>4 DEF EndedIsPast
    <3>1. CASE r = row
      BY <1>1, <1>2, <2>1, <2>2, <3>1
    <3>2. CASE r # row
      BY <2>1, <3>2 DEF EInv, EndedIsPast
    <3> QED BY <3>1, <3>2
  <2>9. HistoryIsKept'
    <3> SUFFICES ASSUME baseline > clock, mappedEnd = 0
                 PROVE  period'["history"].status = "active" /\ period'["history"].end >= baseline
      BY <1>4 DEF HistoryIsKept
    <3>1. CASE row = "history"
      BY <1>1, <1>2, <2>1, <2>2, <2>3, <3>1
    <3>2. CASE row # "history"
      BY <2>1, <3>2 DEF EInv, HistoryIsKept, Rows
    <3> QED BY <3>1, <3>2
  <2>10. BaselineIsKnown'
    <3>1. CASE row = "history"
      <4>1. Granted("history") # {} /\ baseline # 0 /\ period'["history"].status # "none"
        BY <1>1, <2>1, <2>4, <2>6, <3>1
      <4> QED BY <1>1, <1>4, <1>6, <4>1 DEF BaselineIsKnown
    <3>2. CASE row # "history"
      <4>1. period'["history"] = period["history"]
        BY <2>1, <3>2 DEF Rows
      <4> QED BY <1>1, <1>4, <1>6, <4>1 DEF BaselineIsKnown
    <3> QED BY <3>1, <3>2
  <2>11. PaidFor'
    <3> SUFFICES ASSUME NEW r \in Rows PROVE PaidForRow(r)'
      BY PaidForUnfolds
    <3>1. /\ IsFiniteSet(LiveOn(grant, refunded, r))
          /\ IsFiniteSet(LiveOn(grant, refunded', r))
      BY <1>1, LiveIsFinite DEF GrantedOrders
    <3>2. PaidForRow(r)
      BY PaidForUnfolds DEF EInv
    <3>3. CASE r = row
      <4> DEFINE base == BaseOf(row, baseline, mappedEnd, period[row].start)
                 before == DaysLeft(grant, refunded, row)
                 after == DaysLeft(grant, refunded', row)
      <4>1. /\ LiveOn(grant, refunded, row) = LiveOn(grant, refunded', row) \cup {o}
            /\ o \notin LiveOn(grant, refunded', row)
        BY <1>4, <1>10 DEF LiveOn, row
      <4>2. before = after + grant[o].days
        BY <1>1, <3>1, <3>3, <4>1, DaysGrow
      <4>3. before \in Nat /\ after \in Nat
        BY <1>1, <3>1, <3>3, DaysType
      <4>4. /\ base \in Nat /\ base >= period[row].start
            /\ row = "history" => base >= baseline /\ base >= mappedEnd
        BY <1>1, <2>5, BaseFacts
      <4>5. period[row].status = "active" /\ period[row].end > clock =>
                period[row].end <= base + before
        BY <3>2, <3>3 DEF PaidForRow, Runs
      <4>6. period[row].status # "active" => period[row].end <= clock
        BY <2>4 DEF EInv, EndedIsPast
      <4> HIDE DEF base, before, after
      <4>7. end > clock => end <= base + after
        <5> SUFFICES ASSUME end > clock PROVE end <= base + after
          OBVIOUS
        <5>1. CASE end = kept
          <6>1. row = "history"
            BY <1>1, <1>2, <2>3, <2>4, <5>1 DEF Rows
          <6>2. kept \in {baseline, mappedEnd}
            BY <1>1, <1>2, <2>3, <5>1, <6>1
          <6> QED BY <1>1, <2>3, <4>3, <4>4, <5>1, <6>1, <6>2
        <5>2. CASE end = period[row].end - grant[o].days
          <6>1. period[row].end > clock
            BY <1>1, <2>5, <5>2
          <6>2. period[row].end <= base + before
            BY <1>1, <2>5, <4>5, <4>6, <6>1
          <6> QED BY <2>5, <4>2, <4>3, <4>4, <5>2, <6>2
        <5> QED BY <2>2, <5>1, <5>2
      <4> QED BY <1>4, <2>1, <3>3, <4>7 DEF PaidForRow, Runs, base, after
    <3>4. CASE r # row
      <4>1. LiveOn(grant, refunded', r) = LiveOn(grant, refunded, r)
        BY <1>4, <3>4 DEF LiveOn, row
      <4>2. DaysLeft(grant, refunded', r) = DaysLeft(grant, refunded, r)
        BY <4>1 DEF DaysLeft
      <4>3. period'[r] = period[r]
        BY <2>1, <3>4
      <4> QED BY <1>4, <3>2, <4>2, <4>3 DEF PaidForRow, Runs
    <3> QED BY <3>3, <3>4
  <2> QED BY <1>4, <1>6, <1>7, <1>8, <2>7, <2>8, <2>9, <2>10, <2>11 DEF EInv
<1> QED BY <1>9, <1>10

-----------------------------------------------------------------------------
(* The theorems                                                              *)

\* The invariant is inductive.
LEMMA NextEInv == EInv /\ [Next]_vars => EInv'
<1> SUFFICES ASSUME EInv, [Next]_vars PROVE EInv'
  OBVIOUS
<1>1. CASE \E end \in 1 .. MaxTime + 1 : Import(end) \/ MapSource(end)
  BY <1>1, ImportEInv, MapSourceEInv
<1>2. CASE \E o \in Orders, days \in Durations, paidAt \in clock - MaxDelay .. clock :
              Pay(o, days, paidAt)
  BY <1>2, PayEInv
<1>3. CASE \E o \in Orders, processedAt \in clock - MaxDelay .. clock :
              RefundOrder(o, processedAt)
  BY <1>3, RefundOrderEInv
<1>4. CASE Tick \/ UNCHANGED vars
  BY <1>4, TickEInv
<1> QED BY <1>1, <1>2, <1>3, <1>4 DEF Next

\* The orders, their grants and the two rows of a customer's period agree in
\* every committed state: the end of the imported period is never forgotten, and
\* a period that is not active has no days left.
THEOREM EntitlementInvariant == Spec => []EInv
BY InitEInv, NextEInv, PTL DEF Spec

\* For any set of orders and any durations, no sequence of imports, renewals,
\* lapses, late notices and refunds leaves a running period longer than the
\* imported one and the days of the orders on it that are not refunded.
THEOREM PeriodsAreAlwaysPaidFor == Spec => []PeriodsArePaidFor
<1>1. EInv => PeriodsArePaidFor
  BY DEF EInv, PeriodsArePaidFor
<1> QED BY <1>1, EntitlementInvariant, PTL

\* As long as nothing was refunded, every paid order is covered for the days it
\* bought from its payment on, however late its notice comes and however many
\* orders are paid at once.
THEOREM PaidIsAlwaysCovered == Spec => []PaidIsCovered
<1>1. EInv => PaidIsCovered
  BY DEF EInv
<1> QED BY <1>1, EntitlementInvariant, PTL

\* The imported period outlives every renewal on it and every refund of one, as
\* section 7 of the entitlement PRD asks, in whichever order the renewals are
\* refunded.
THEOREM HistoryIsAlwaysKept == Spec => []HistoryIsKept
<1>1. EInv => HistoryIsKept
  BY DEF EInv
<1> QED BY <1>1, EntitlementInvariant, PTL

\* A renewal of a period that runs never shortens it.
LEMMA PayTakesNothing ==
    ASSUME EInv, NEW o \in Orders, NEW days \in Durations,
           NEW paidAt \in clock - MaxDelay .. clock, Pay(o, days, paidAt), NEW row \in Rows
    PROVE  period'[row].end < period[row].end =>
               period[row].end <= clock \/ period[row].status # "active"
<1>1. period \in [Rows -> PeriodRow] /\ clock \in Nat
  BY TypeUnfolds DEF EInv
<1>2. period[row].end \in Nat /\ days \in Nat
  BY <1>1, EntitlementConstants DEF PeriodRow
<1>3. CASE row = Latest
  <2> SUFFICES ASSUME period[row].end > clock, period[row].status = "active"
               PROVE  ~(period'[row].end < period[row].end)
    BY <1>1, <1>2
  <2>1. Runs(row)
    BY DEF Runs
  <2>2. period'[row].end = period[row].end + days
    BY <1>1, <1>3, <2>1 DEF Pay
  <2> QED BY <1>2, <2>2
<1>4. CASE row # Latest
  <2>1. period'[row] = period[row]
    BY <1>1, <1>4 DEF Pay
  <2> QED BY <1>2, <2>1
<1> QED BY <1>3, <1>4

\* Days are lost only to the first refund of an order, or with a period that had
\* run out: a second partial refund of an order takes nothing more.
THEOREM DaysAreTakenBackOnce == Spec => TakenBackOnce
<1> DEFINE Once == \A row \in Rows :
                      period'[row].end < period[row].end =>
                          refunded' # refunded \/ period[row].end <= clock
                                               \/ period[row].status # "active"
<1>1. EInv /\ [Next]_vars => [Once]_vars
  <2> SUFFICES ASSUME EInv, Next, NEW row \in Rows, period'[row].end < period[row].end
               PROVE  refunded' # refunded \/ period[row].end <= clock
                                           \/ period[row].status # "active"
    OBVIOUS
  <2>1. period \in [Rows -> PeriodRow] /\ refunded \subseteq Orders
    BY TypeUnfolds DEF EInv
  <2>2. period[row].end \in Nat
    BY <2>1 DEF PeriodRow
  <2>3. period' # period
    BY <2>2
  <2>4. CASE \E end \in 1 .. MaxTime + 1 : Import(end)
    <3>1. period[row].status = "none"
      <4>1. PICK end \in 1 .. MaxTime + 1 : Import(end)
        BY <2>4
      <4>2. row # "history" => period'[row] = period[row]
        BY <2>1, <4>1 DEF Import
      <4> QED BY <2>2, <4>1, <4>2 DEF Import
    <3> QED BY <3>1
  <2>5. CASE \E o \in Orders, days \in Durations, paidAt \in clock - MaxDelay .. clock :
                Pay(o, days, paidAt)
    BY <2>5, PayTakesNothing
  <2>6. CASE \E o \in Orders, processedAt \in clock - MaxDelay .. clock :
                RefundOrder(o, processedAt)
    BY <2>3, <2>6 DEF RefundOrder, FirstRefund
  <2>7. CASE Tick \/ \E end \in 1 .. MaxTime + 1 : MapSource(end)
    BY <2>3, <2>7 DEF Tick, MapSource
  <2> QED BY <2>4, <2>5, <2>6, <2>7 DEF Next
<1>2. Spec => [][Once]_vars
  <2> HIDE DEF Once
  <2> QED BY <1>1, EntitlementInvariant, PTL DEF Spec
<1> QED BY <1>2 DEF TakenBackOnce
=============================================================================
