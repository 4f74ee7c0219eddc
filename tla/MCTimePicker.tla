----------------------------- MODULE MCTimePicker -----------------------------
(* Pickers as pages create them, and two days; the picker with bounds may be   *)
(* used from 8:30 of the first to 17:15 of the second day.                     *)
EXTENDS TimePicker

At(h, m) == [hour |-> h, minute |-> m, second |-> 0]

MCMonth == [d \in 0 .. LastDay |-> d]

Bounded == [minDate |-> [day |-> 1, time |-> At(8, 30)],
            maxDateTime |-> [day |-> 2, time |-> At(17, 15)],
            step |-> [hour |-> 1, minute |-> 15, second |-> 1]]
TwelveHours == [ampm |-> TRUE, grid |-> [hour |-> 4, minute |-> 15, second |-> 0]]
TimeOnly == [timeOnly |-> TRUE]
OtherField == [altField |-> TRUE]
BothFields == [altField |-> TRUE, altFieldTimeOnly |-> FALSE, alwaysSetTime |-> FALSE]
DateOnly == [showTimepicker |-> FALSE]

MCGiven == {Bounded, TwelveHours, TimeOnly, OtherField, BothFields, DateOnly}

Written(d, h, m, half) ==
    [day |-> d, time |-> [clock |-> [hour |-> h, minute |-> m], half |-> half]]

MCTyped == {Empty, Written(1, 5, 0, ""), Written(2, 20, 75, "")}
MCClock == {At(20, 45)}
MCSpot == [hour |-> {20}, minute |-> {}, second |-> {}]
=============================================================================
