------------------------------- MODULE TimeText -------------------------------
(***************************************************************************)
(* The texts and numbers of the time picker (jquery-ui-timepicker-addon):  *)
(* how a time is printed into the input field and read back, where a       *)
(* slider can stand, which cells the grid below it has.  Pure definitions. *)
(*                                                                         *)
(* A text is a day and a time, either of which may be missing; letters and *)
(* digits do not appear, what they say does.                               *)
(***************************************************************************)
EXTENDS Integers, SequencesExt

Field == {"hour", "minute", "second"}

\* The JavaScript value NaN in a field of a time; it is neither below nor above
\* anything.
NaN == -1

Below(a, b) == a # NaN /\ b # NaN /\ a < b

Midnight == [f \in Field |-> 0]

\* A field of the JavaScript object that is null.
NoTimes == [f \in Field |-> NaN]

\* No day in a text, and the day that new Date(0, 0, 0) is (in 1899): the day
\* a calendar has before it was opened.
NoDay == -1
DayZero == 0

NoTime == [half |-> "none"]
Empty == [day |-> NoDay, time |-> NoTime]

TimeOfDay ==
    [hour : 0 .. 23, minute : 0 .. 59, second : 0 .. 59]

-----------------------------------------------------------------------------
(***************************************************************************)
(* A time format is a sequence of "hour", "minute", "second" and "half"    *)
(* (am or pm), as the format string of the options has h, m, s and t.      *)
(***************************************************************************)

\* Where a part of the time stands in the format; 0 (the code's -1) if nowhere.
FormatPosition(format, part) == SelectInSeq(format, LAMBDA p : p = part)

Shown(format) == {f \in Field : FormatPosition(format, f) # 0}

Half(hour) == IF Below(hour, 12) THEN "AM" ELSE "PM"

Hour12(hour, half) ==
    LET h == IF half = "AM" \/ hour = NaN THEN hour ELSE hour % 12
    IN  IF h = 0 THEN 12 ELSE h

\* _formatTime
FormatTime(time, half, format, ampm) ==
    [clock |-> [f \in Shown(format) |->
                  IF f = "hour" /\ ampm THEN Hour12(time.hour, half)
                                        ELSE time[f]],
     half  |-> IF ampm /\ FormatPosition(format, "half") # 0 THEN half ELSE ""]

\* Whether the regular expression of _parseTime finds a time: digits for every
\* part the format shows and, unless the picker is for a time only, a date
\* before them.
Readable(text, withDay) ==
    /\ text.time # NoTime
    /\ \A f \in DOMAIN text.time.clock : text.time.clock[f] # NaN
    /\ withDay => text.day # NoDay

HourRead(hour, half) ==
    CASE half = "AM" /\ hour = 12 -> 0
      [] half = "PM" /\ hour # 12 -> hour + 12
      [] OTHER -> hour

\* The fields of a time after a text was read; those the format does not show
\* stay.  An hour without "half" in the format is read with the one known.
ReadTime(time, text, half) ==
    [f \in Field |->
        IF f \notin DOMAIN text.time.clock THEN time[f]
        ELSE IF f = "hour" THEN HourRead(text.time.clock.hour, half)
        ELSE text.time.clock[f]]

-----------------------------------------------------------------------------
(***************************************************************************)
(* Sliders and grids.  The default step, 0.05, is a step of 1 here: the    *)
(* picker reads the integer part of a position.                            *)
(***************************************************************************)

\* The last position: the largest multiple of the step.
LastStep(max, step) == max - (max % step)

\* _trimAlignValue of the jQuery UI slider
TrimAlign(v, min, max, step) ==
    LET rest == (v - min) % step
    IN  CASE v = NaN            -> NaN
          [] v # NaN /\ v <= min -> min
          [] v # NaN /\ v > min /\ v >= max -> max
          [] OTHER -> IF 2 * rest >= step THEN v - rest + step ELSE v - rest

GridCells(min, max, grid) ==
    IF grid = 0 THEN {} ELSE {v \in min .. max - 1 : (v - min) % grid = 0}

\* What a cell of the hour grid shows: 12 hours with a letter, or 24.
HourCell(hour, ampm) ==
    [number |-> CASE ampm /\ hour = 0 -> 12
                  [] ampm /\ hour > 12 -> hour - 12
                  [] OTHER -> hour,
     letter |-> CASE ~ampm -> ""
                  [] ampm /\ hour < 12 -> "a"
                  [] OTHER -> "p"]

\* The hour a click on a cell asks for.
CellHour(cell, ampm) ==
    CASE ~ampm -> cell.number
      [] ampm /\ cell.letter = "a" -> IF cell.number = 12 THEN 0 ELSE cell.number
      [] OTHER -> IF cell.number = 12 THEN 12 ELSE cell.number + 12

=============================================================================
