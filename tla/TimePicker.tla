------------------------------ MODULE TimePicker ------------------------------
(***************************************************************************)
(* The date and time picker of the web application                         *)
(* (jquery-ui-timepicker-addon): an input field, the calendar of jQuery    *)
(* UI, which the add-on overrides function by function, three sliders and  *)
(* the time that is behind them.                                           *)
(*                                                                         *)
(* The same time is kept in four places: in the text of the field, in the  *)
(* picker (time, ampm), in the sliders, and in formattedTime, the text     *)
(* that is written next.  The functions of the add-on copy one to another  *)
(* and, on the first and last allowed day, narrow the limits in between.   *)
(*                                                                         *)
(* An event handler is a chain of calls that change the same objects, so   *)
(* the objects are one record, and each function of the code an operator   *)
(* from the record before the call to the record after it.                 *)
(***************************************************************************)
EXTENDS TimeText

CONSTANTS
    LastDay,      \* days are 1 .. LastDay
    Month,        \* Month[d]: the month day d is in, DayZero included
    Today,
    GivenOptions, \* the option objects a page may create the picker with
    TypedText,    \* the texts a user may enter
    Clock,        \* the times of day that callers pass, or that it is
    Spot,         \* Spot[f]: where in slider f a user may click
    MaxCalls      \* bound on the calls by scripts

Day == 1 .. LastDay

NoBound == [day |-> NoDay, time |-> NoTimes]

ASSUME TimePickerAssumption ==
    /\ LastDay \in Nat
    /\ Today \in Day
    /\ Clock \subseteq TimeOfDay
    /\ Month \in [0 .. LastDay -> Nat]
    /\ \A f \in Field : Spot[f] \subseteq Nat
    /\ MaxCalls \in Nat

VARIABLES
    options,      \* _defaults of the instance, without what changes later
    picker,       \* the input, the datepicker instance and the Timepicker
    calls         \* how often scripts have called

vars == <<options, picker, calls>>

-----------------------------------------------------------------------------
(***************************************************************************)
(* Options.                                                                *)
(***************************************************************************)

\* Timepicker(): the default options.
Defaults ==
    [ampm |-> FALSE, timeFormat |-> <<"hour", "minute", "half">>,
     timeOnly |-> FALSE, showTimepicker |-> TRUE, alwaysSetTime |-> TRUE,
     step |-> [f \in Field |-> 1], grid |-> [f \in Field |-> 0],
     time |-> Midnight, min |-> Midnight,
     max |-> [hour |-> 23, minute |-> 59, second |-> 59],
     minDate |-> NoBound, minDateTime |-> NoBound,
     maxDate |-> NoBound, maxDateTime |-> NoBound,
     altField |-> FALSE, altFieldTimeOnly |-> TRUE]

\* extendRemove: given options win, those given as null too.
ExtendRemove(target, props) == props @@ target

\* The calendar knows minDate, the picker minDateTime; when both are given the
\* first wins, and then they are the same.
Coupled(date, dateTime) == IF date.day # NoDay THEN date ELSE dateTime

NewOptions(given) ==
    LET all == ExtendRemove(Defaults, given)
    IN  [all EXCEPT !.minDateTime = Coupled(all.minDate, @),
                    !.maxDateTime = Coupled(all.maxDate, @)]

\* The pages give hours, minutes and seconds that exist, bounds that are dates,
\* and steps forward, which are the only ones a slider takes.
ASSUME OptionsAssumption ==
    \A given \in GivenOptions :
        LET o == NewOptions(given)
        IN  /\ {o.min, o.max, o.time} \subseteq TimeOfDay
            /\ \A bound \in {o.minDateTime, o.maxDateTime} :
                 bound.day # NoDay => bound.day \in Day /\ bound.time \in TimeOfDay
            /\ \A f \in Field : o.step[f] \in Nat \ {0}
            /\ o.showTimepicker \in BOOLEAN

\* Of what a user enters the clock is what stands where the format shows a
\* number: one or two digits, or none.
ASSUME TextAssumption ==
    \A text \in TypedText :
        /\ text = [day |-> text.day, time |-> text.time]
        /\ text.day \in {NoDay} \cup Day
        /\ text.time # NoTime =>
             /\ \A given \in GivenOptions :
                  DOMAIN text.time.clock = Shown(NewOptions(given).timeFormat)
             /\ \A f \in DOMAIN text.time.clock : text.time.clock[f] \in NaN .. 99
             /\ text.time.half \in {"", "AM", "PM"}

\* _newInst: the time starts at the class default, whatever options.time says.
NewPicker(o, text) ==
    [input |-> text, alt |-> Empty,
     selectedDay |-> DayZero, currentDay |-> NoDay, showing |-> FALSE,
     lastValSet |-> FALSE, lastVal |-> Empty,
     time |-> Midnight, ampm |-> "", formattedTime |-> NoTime,
     timeDefined |-> FALSE,
     min |-> o.min, max |-> o.max, minOriginal |-> NoTimes, maxOriginal |-> NoTimes,
     sliders |-> "none", position |-> Midnight,
     showTimepicker |-> o.showTimepicker]

AltTimeOnly == options.altField /\ options.altFieldTimeOnly

-----------------------------------------------------------------------------
(***************************************************************************)
(* The time in the field.                                                  *)
(***************************************************************************)

\* _updateDateTime: the field gets the selected day and the formatted time.
\* A field that was emptied by hand stays empty.
UpdateDateTime(p) ==
    LET timed == options.alwaysSetTime \/ p.timeDefined
        date  == [day |-> p.selectedDay, time |-> NoTime]
        text  == [day  |-> IF options.timeOnly THEN NoDay ELSE p.selectedDay,
                  time |-> IF options.timeOnly \/ timed
                               THEN p.formattedTime ELSE NoTime]
        other == IF AltTimeOnly THEN [day |-> NoDay, time |-> p.formattedTime]
                                ELSE text
    IN  IF p.lastValSet /\ p.lastVal # Empty /\ p.input = Empty THEN p
        ELSE [p EXCEPT
                !.input = IF p.showTimepicker /\ ~AltTimeOnly THEN text ELSE date,
                !.alt   = IF p.showTimepicker /\ options.altField THEN other ELSE @]

\* What a slider says: its position, held inside the limits; the JavaScript
\* value false if there is none; NaN if its element is no longer in the page.
SliderValue(p, f) ==
    IF p.sliders = "live"
        THEN TrimAlign(p.position[f], p.min[f],
                       LastStep(p.max[f], options.step[f]), options.step[f])
        ELSE NaN

\* Mutants of OnTimeChange: the text that is written next is not renewed; sliders
\* that do not exist are read; the field is written whether or not anything
\* changed.
OnTimeChangeUnformatted(p) ==
    IF p.sliders = "none" THEN p
    ELSE [p EXCEPT !.time = [f \in Field |-> SliderValue(p, f)],
                   !.timeDefined = TRUE]

OnTimeChangeUnchecked(p) ==
    [p EXCEPT !.time = [f \in Field |-> SliderValue(p, f)], !.timeDefined = TRUE]

OnTimeChangeAlways(p) ==
    LET read  == [f \in Field |-> SliderValue(p, f)]
        after == [p EXCEPT !.time = IF p.sliders = "none" THEN @ ELSE read,
                           !.ampm = IF options.ampm THEN Half(read.hour) ELSE @,
                           !.timeDefined = TRUE]
    IN  UpdateDateTime([after EXCEPT !.formattedTime =
            FormatTime(after.time, after.ampm, options.timeFormat, options.ampm)])

\* _onTimeChange: the sliders become the time, the time is formatted, and the
\* field is written if that changed anything.
OnTimeChange(p) ==
    LET none    == p.sliders = "none"
        read    == [f \in Field |-> SliderValue(p, f)]
        half    == IF none THEN "AM" ELSE Half(read.hour)
        changed == \/ \E f \in Field :
                        IF none THEN p.time[f] # 0
                                ELSE read[f] = NaN \/ read[f] # p.time[f]
                   \/ p.ampm # "" /\ p.ampm # half
        moved   == [p EXCEPT !.time = IF none THEN @ ELSE read,
                             !.ampm = IF options.ampm THEN half ELSE @]
        after   == [moved EXCEPT
                      !.formattedTime = FormatTime(moved.time, moved.ampm,
                                          options.timeFormat, options.ampm),
                      !.timeDefined = TRUE]
    IN  IF changed THEN UpdateDateTime(after) ELSE after

\* _parseTime
Matches(text, withDate) == Readable(text, withDate \/ ~options.timeOnly)

ParseTime(p, text, withDate) ==
    LET half == IF FormatPosition(options.timeFormat, "half") # 0
                    THEN text.time.half ELSE p.ampm
    IN  IF Matches(text, withDate)
            THEN [p EXCEPT !.ampm = half, !.time = ReadTime(@, text, half)]
            ELSE p

-----------------------------------------------------------------------------
(***************************************************************************)
(* The limits of the time on the first and on the last day.                *)
(***************************************************************************)
Narrowed(limit, p) == limit.day = p.selectedDay

LimitMin(p) ==
    LET o == options.minDateTime.time
        original == IF p.minOriginal = NoTimes THEN p.min ELSE p.minOriginal
        raised   == [f \in Field |-> IF Below(p.time[f], o[f]) THEN o[f] ELSE p.time[f]]
        first    == Narrowed(options.minDateTime, p)
    IN  IF options.minDateTime.day = NoDay THEN p
        ELSE [p EXCEPT !.minOriginal = original,
                       !.min  = IF first THEN o ELSE original,
                       !.time = IF first THEN raised ELSE @]

\* Mutants of LimitMax: the limit of the last day stays for the other days; the
\* original limit is restored without having been kept; only the hour is limited,
\* which is off by up to an hour.
LimitMaxForGood(p) ==
    LET o == options.maxDateTime.time
    IN  IF Narrowed(options.maxDateTime, p)
            THEN [p EXCEPT !.max = o,
                           !.time = [f \in Field |->
                                       IF Below(o[f], @[f]) THEN o[f] ELSE @[f]]]
            ELSE p

LimitMaxUnkept(p) ==
    IF options.maxDateTime.day = NoDay THEN p
    ELSE [p EXCEPT !.max = IF Narrowed(options.maxDateTime, p)
                               THEN options.maxDateTime.time ELSE p.maxOriginal]

LimitMaxHour(p) ==
    LET hour == options.maxDateTime.time.hour
    IN  IF Narrowed(options.maxDateTime, p)
            THEN [p EXCEPT !.max.hour = hour,
                           !.time.hour = IF Below(hour, @) THEN hour ELSE @]
            ELSE p

LimitMax(p) ==
    LET o == options.maxDateTime.time
        original == IF p.maxOriginal = NoTimes THEN p.max ELSE p.maxOriginal
        lowered  == [f \in Field |-> IF Below(o[f], p.time[f]) THEN o[f] ELSE p.time[f]]
        last     == Narrowed(options.maxDateTime, p)
    IN  IF options.maxDateTime.day = NoDay THEN p
        ELSE [p EXCEPT !.maxOriginal = original,
                       !.max  = IF last THEN o ELSE original,
                       !.time = IF last THEN lowered ELSE @]

\* _limitMinMaxDateTime.  With adjustSliders the sliders follow; the only caller
\* that asks for it replaces them before they are read.
LimitMinMaxDateTime(p) == LimitMax(LimitMin(p))

\* The end of _injectTimePicker: sliders in the page may move the time at once to
\* the next one they can show, which does not count as a choice of the user.
PlaceTimePicker(p) == [OnTimeChange(p) EXCEPT !.timeDefined = p.timeDefined]

\* _injectTimePicker: new sliders at the time.
InjectTimePicker(p) ==
    IF p.showTimepicker
      THEN PlaceTimePicker([p EXCEPT !.sliders = "live", !.position = p.time])
      ELSE p

\* _addTimePicker
AddTimePicker(p) ==
    LET text == IF AltTimeOnly /\ p.alt # Empty
                    THEN [p.input EXCEPT !.time = p.alt.time] ELSE p.input
        read == [ParseTime(p, text, FALSE) EXCEPT
                   !.timeDefined = Matches(text, FALSE)]
    IN  InjectTimePicker(LimitMinMaxDateTime(read))

-----------------------------------------------------------------------------
(***************************************************************************)
(* The calendar of jQuery UI, with the overridden functions.               *)
(***************************************************************************)

\* _restrictMinMax
RestrictMinMax(d) ==
    LET lo == options.minDateTime.day
        hi == options.maxDateTime.day
        raised == IF lo # NoDay /\ d < lo THEN lo ELSE d
    IN  IF hi # NoDay /\ raised > hi THEN hi ELSE raised

\* _setDateFromField: the selected day follows the field, if it was changed.
SetDateFromField(p) ==
    LET date == IF p.input.day = NoDay THEN RestrictMinMax(Today) ELSE p.input.day
    IN  IF p.lastValSet /\ p.input = p.lastVal
            THEN p
            ELSE [p EXCEPT !.lastValSet = TRUE, !.lastVal = p.input,
                           !.currentDay = IF p.input = Empty THEN NoDay ELSE date,
                           !.selectedDay = RestrictMinMax(date)]

\* _updateAlternate: the calendar writes its date into the alternative field.
UpdateAlternate(p) ==
    IF ~options.altField THEN p
    ELSE [p EXCEPT !.alt =
            IF p.currentDay = NoDay \/ p.input = Empty THEN Empty
            ELSE [day |-> p.currentDay, time |-> NoTime]]

\* _updateDatepicker: the calendar is drawn again, which takes the sliders out
\* of the page, and the time picker is added to it.
UpdateDatepicker(p) ==
    AddTimePicker([p EXCEPT !.sliders = IF @ = "none" THEN @ ELSE "removed"])

\* _selectDate: the field gets the day and the time formatted last.  Without
\* sliders _limitMinMaxDateTime throws, and nothing else happens.
SelectDate(p, day) ==
    LET limited == LimitMinMaxDateTime(p)
        written == UpdateAlternate(
                     [limited EXCEPT
                        !.input = [day |-> day, time |-> limited.formattedTime]])
    IN  IF p.sliders = "none" THEN limited
        ELSE UpdateDatepicker(UpdateDateTime(written))

\* _setTime: a time outside the limits becomes the lower limit.
SetTime(p, t) ==
    LET outside == \E f \in Field : Below(t[f], p.min[f]) \/ Below(p.max[f], t[f])
        new     == IF outside THEN p.min ELSE t
        aligned == [f \in Field |->
                      TrimAlign(new[f], p.min[f],
                        LastStep(p.max[f], options.step[f]), options.step[f])]
        moved   == [p EXCEPT
                      !.position = IF p.sliders = "live" THEN aligned ELSE @,
                      !.time     = IF p.sliders = "none" THEN new ELSE @]
    IN  UpdateDateTime(OnTimeChange(moved))

-----------------------------------------------------------------------------
(***************************************************************************)
(* What the user does.                                                     *)
(***************************************************************************)
Init ==
    /\ \E given \in GivenOptions : options = NewOptions(given)
    /\ \E text \in TypedText : picker = NewPicker(options, text)
    /\ calls = 0

Step(p) == picker' = p /\ UNCHANGED options

\* The field gets the focus (_showDatepicker).
Show ==
    /\ ~picker.showing
    /\ Step(UpdateDatepicker(
              SetDateFromField([picker EXCEPT !.showing = TRUE,
                                              !.lastValSet = FALSE])))

\* _hideDatepicker, which calls onClose.
Close ==
    /\ picker.showing
    /\ LET p == [picker EXCEPT !.showing = FALSE]
       IN  Step(IF p.timeDefined /\ p.input # Empty THEN UpdateDateTime(p) ELSE p)

\* A click on a day; only those between the bounds can be clicked.
SelectDay(d) ==
    /\ picker.showing
    /\ RestrictMinMax(d) = d
    /\ Step(SelectDate([picker EXCEPT !.selectedDay = d, !.currentDay = d], d))

\* Ctrl+End
ClearDate ==
    /\ picker.showing
    /\ Step(SelectDate(picker, NoDay))

\* Arrow keys move by days, the buttons of the header by months; a new month is
\* told to onChangeMonthYear, which writes the field.
AdjustDate(d) ==
    /\ picker.showing
    /\ RestrictMinMax(d) = d
    /\ LET p == [picker EXCEPT !.selectedDay = d]
       IN  \/ Step(UpdateDatepicker(p))
           \/ Step(UpdateDatepicker(UpdateDateTime(p)))

\* A slider is dragged or moved by a key.
Slide(f, v) ==
    LET p == [picker EXCEPT !.position[f] = v]
    IN  /\ picker.showing
        /\ picker.sliders = "live"
        /\ SliderValue(p, f) # SliderValue(picker, f)
        /\ Step(OnTimeChange([p EXCEPT !.position[f] = SliderValue(p, f)]))

\* A click on a cell of a grid.
ClickGrid(f, cell) ==
    LET last  == LastStep(picker.max[f], options.step[f])
        value == IF f = "hour" THEN CellHour(HourCell(cell, options.ampm), options.ampm)
                               ELSE cell
    IN  /\ picker.showing
        /\ picker.sliders = "live"
        /\ cell \in GridCells(picker.min[f], last, options.grid[f])
        /\ Step(OnTimeChange([picker EXCEPT !.position[f] = value]))

\* _doKeyPress lets the letters of am and pm through if the picker shows them.
Typable(text) ==
    text.time # NoTime /\ text.time.half # "" =>
        options.ampm /\ FormatPosition(options.timeFormat, "half") # 0

\* _doKeyUp, the override and then the original.
DoKeyUp(p) ==
    LET differs(q) == ~q.lastValSet \/ q.input # q.lastVal
        first == IF options.timeOnly /\ differs(p) THEN UpdateDatepicker(p) ELSE p
    IN  IF differs(first) /\ first.input.day # NoDay
            THEN UpdateDatepicker(UpdateAlternate(SetDateFromField(first)))
            ELSE first

\* The user edits the text of the field.
Type(text) ==
    /\ Typable(text)
    /\ Step(DoKeyUp([picker EXCEPT !.input = text]))

\* Any other key, an arrow for one.
PressKey == Step(DoKeyUp(picker))

\* _gotoToday, the button and Ctrl+Home.
GotoToday(now) ==
    LET today == UpdateDateTime([picker EXCEPT !.selectedDay = Today])
    IN  /\ picker.showing
        /\ Step(SetTime(
             UpdateDatepicker(
               [today EXCEPT !.selectedDay = RestrictMinMax(Today)]), now))

\* Another picker of the page is opened: they share one element, which it empties.
OtherPickerShows ==
    /\ ~picker.showing
    /\ picker.sliders = "live"
    /\ Step([picker EXCEPT !.sliders = "removed"])

-----------------------------------------------------------------------------
(***************************************************************************)
(* What the scripts of the page do, at any time.                           *)
(***************************************************************************)

\* disableTimepicker, enableTimepicker
SwitchTimepicker(shown) ==
    Step(UpdateDateTime(OnTimeChange([picker EXCEPT !.showTimepicker = shown])))

\* setTime with a Date, or with nothing: the default time of the options.
CallSetTime(t) ==
    Step(SetTime(SetDateFromField(picker), t))

\* Date.setHours: what is too much for a field goes into the next one, and hours
\* beyond 23 into the next day.
SetHours(t) ==
    LET minutes == t.minute + t.second \div 60
        hours   == t.hour + minutes \div 60
    IN  [hour |-> hours % 24, minute |-> minutes % 60, second |-> t.second % 60]

\* setTime with a string: what can be read of it, on top of the present time; what
\* is not a time at all counts as no time given.
CallSetTimeText(text) ==
    LET p    == ParseTime(SetDateFromField(picker), text, FALSE)
        time == IF \E f \in Field : p.time[f] = NaN THEN options.time
                ELSE SetHours(p.time)
    IN  Step(SetTime(p, time))

\* setDate: the day, then the time of a Date; without one, today and the default
\* time.
CallSetDate(d, t) ==
    LET date    == RestrictMinMax(IF d = NoDay THEN Today ELSE d)
        drawn   == UpdateDatepicker(picker)
        chosen  == [drawn EXCEPT !.selectedDay = date, !.currentDay = date]
        noticed == IF Month[drawn.selectedDay] # Month[date]
                       THEN UpdateDateTime(chosen) ELSE chosen
        dated   == UpdateAlternate(UpdateDatepicker(
                     [noticed EXCEPT !.input =
                        IF d = NoDay THEN Empty
                        ELSE [day |-> date, time |-> NoTime]]))
    IN  Step(SetTime(SetDateFromField(dated), t))

\* getDate reads the field, into the picker.
CallGetDate ==
    LET p == SetDateFromField(picker)
    IN  Step(IF p.currentDay = NoDay \/ p.input = Empty THEN p
             ELSE ParseTime(p, p.input, TRUE))

User ==
    \/ Show \/ Close \/ ClearDate \/ PressKey \/ OtherPickerShows
    \/ \E d \in Day : SelectDay(d) \/ AdjustDate(d)
    \/ \E f \in Field : \E v \in Spot[f] : Slide(f, v) \/ ClickGrid(f, v)
    \/ \E text \in TypedText : Type(text)
    \/ \E now \in Clock : GotoToday(now)

Script ==
    \/ \E shown \in BOOLEAN : SwitchTimepicker(shown)
    \/ \E t \in Clock \cup {options.time} : CallSetTime(t)
    \/ \E text \in TypedText : CallSetTimeText(text)
    \/ \E d \in Day, t \in Clock : CallSetDate(d, t)
    \/ CallSetDate(NoDay, options.time)
    \/ CallGetDate

Next ==
    \/ User /\ UNCHANGED calls
    \/ calls < MaxCalls /\ Script /\ calls' = calls + 1

Spec == Init /\ [][Next]_vars

-----------------------------------------------------------------------------
\* Two digits, or two digits and twelve hours.
Number == NaN .. 111

IsText(text) ==
    /\ text.day \in {NoDay} \cup 0 .. LastDay
    /\ text.time # NoTime =>
         /\ DOMAIN text.time.clock = Shown(options.timeFormat)
         /\ \A f \in Shown(options.timeFormat) : text.time.clock[f] \in Number
         /\ text.time.half \in {"", "AM", "PM"}

TypeOK ==
    /\ options.min \in TimeOfDay /\ options.max \in TimeOfDay
    /\ IsText(picker.input) /\ IsText(picker.alt) /\ IsText(picker.lastVal)
    /\ picker.selectedDay \in 0 .. LastDay
    /\ picker.currentDay \in {NoDay} \cup 0 .. LastDay
    /\ picker.time \in [Field -> Number] /\ picker.position \in [Field -> Number]
    /\ picker.ampm \in {"", "AM", "PM"}
    /\ picker.min \in TimeOfDay /\ picker.max \in TimeOfDay
    /\ picker.minOriginal \in TimeOfDay \cup {NoTimes}
    /\ picker.maxOriginal \in TimeOfDay \cup {NoTimes}
    /\ picker.sliders \in {"none", "live", "removed"}
    /\ {picker.showing, picker.lastValSet, picker.timeDefined,
        picker.showTimepicker} \subseteq BOOLEAN
    /\ calls \in 0 .. MaxCalls

(***************************************************************************)
(* Whichever way the user comes to a day, and whatever scripts did before, *)
(* the limits are then those of the day: narrowed on the first and on the  *)
(* last allowed day, as the options say on the others.                     *)
(***************************************************************************)
LimitsOfDay(p) ==
    /\ p.min = IF Narrowed(options.minDateTime, p)
                   THEN options.minDateTime.time ELSE options.min
    /\ p.max = IF Narrowed(options.maxDateTime, p)
                   THEN options.maxDateTime.time ELSE options.max

ChangesDay ==
    \/ Show \/ ClearDate
    \/ \E d \in Day : SelectDay(d) \/ AdjustDate(d)
    \/ \E now \in Clock : GotoToday(now)

LimitsFollowDay == [][LimitsOfDay(picker') \/ ~ChangesDay]_vars

(***************************************************************************)
(* The text that will be written when the picker closes, which is also the *)
(* label above the sliders, says where the sliders stand.                  *)
(***************************************************************************)
LabelShowsSliders ==
    picker.showing /\ picker.sliders = "live" =>
        LET read == [f \in Field |-> SliderValue(picker, f)]
        IN  picker.formattedTime =
              FormatTime(read, Half(read.hour), options.timeFormat, options.ampm)

Seconds(t) == (t.hour * 60 + t.minute) * 60 + t.second

(***************************************************************************)
(* A picker that closes leaves a time between the bounds in the field,     *)
(* whatever was typed, slid or clicked before.                             *)
(***************************************************************************)
InBounds(text) ==
    LET time == ReadTime(Midnight, text, text.time.half)
    IN  /\ text.day = options.minDateTime.day =>
              Seconds(time) >= Seconds(options.minDateTime.time)
        /\ text.day = options.maxDateTime.day =>
              Seconds(time) <= Seconds(options.maxDateTime.time)

ClosesInBounds ==
    [][Close /\ calls = 0 /\ picker.timeDefined /\ Readable(picker'.input, TRUE)
          => InBounds(picker'.input)]_vars

(***************************************************************************)
(* The time is lost (NaN) only by using sliders that another picker or a   *)
(* redrawing without the time took out of the page.  A time can also be    *)
(* lost on the sliders: added when it was, they stand nowhere, and take a  *)
(* time read since with them when one of them is moved.                    *)
(***************************************************************************)
Lost(p) == \E f \in Field : p.time[f] = NaN

LostOnSliders(p) == p.sliders = "live" /\ \E f \in Field : p.position[f] = NaN

Kept(p) == ~Lost(p) /\ ~LostOnSliders(p)

TimeLostWithSliders ==
    [][Kept(picker) => Kept(picker') \/ picker'.sliders = "removed"]_vars

(***************************************************************************)
(* What is typed is kept as it is, letter by letter, if the sliders can    *)
(* stand where it puts them.                                               *)
(***************************************************************************)
TypedTextKept ==
    [][\A text \in TypedText :
        Type(text) /\ Readable(text, TRUE) /\ picker'.time =
            ReadTime(picker.time, text, text.time.half) /\ ~Lost(picker')
          => picker'.input = text]_vars

=============================================================================
