--------------------------- MODULE MCCronSchedule ---------------------------
(* Hours of three minutes, days of two hours, weeks of seven days; the     *)
(* calendar runs over the end of a three-day month into one of eight.      *)
EXTENDS CronSchedule

RangesVal == [minute |-> [lo |-> 0, hi |-> 2], hour |-> [lo |-> 0, hi |-> 1],
              dom |-> [lo |-> 1, hi |-> 8], mon |-> [lo |-> 1, hi |-> 2],
              dow |-> [lo |-> 0, hi |-> 7]]

CalendarVal ==
  [d \in 1..11 |-> IF d <= 3 THEN [dom |-> d, mon |-> 1, dow |-> d + 4]
                   ELSE [dom |-> d - 3, mon |-> 2, dow |-> ((d + 3) % 7) + 1]]

Star(step)      == [star |-> TRUE, lo |-> 0, hi |-> 0, step |-> step]
Of(a, b, n)     == [star |-> FALSE, lo |-> a, hi |-> b, step |-> n]
In(parts)       == [plain |-> FALSE, parts |-> parts]
Any             == [plain |-> TRUE, parts |-> {Star(1)}]

Minutes  == {Any, In({Star(2)}), In({Of(1, 1, 1), Of(2, 2, 1)}),
             In({Of(0, 3, 1)})}
Hours    == {Any, In({Of(1, 1, 1)}), In({Of(1, 0, 1)})}
Doms     == {Any, In({Star(1)}), In({Of(1, 7, 3)}), In({Star(0)})}
Months   == {Any, In({Of(2, 2, 1)})}
Dows     == {Any, In({Of(1, 5, 1)}), In({Of(5, 7, 1)}),
             In({Of(0, 0, 1), Of(3, 3, 1)}), In({Star(7)})}

ExprsVal == [minute : Minutes, hour : Hours, dom : Doms, mon : Months, dow : Dows]
=============================================================================
