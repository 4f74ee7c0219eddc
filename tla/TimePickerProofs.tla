--------------------------- MODULE TimePickerProofs ---------------------------
(***************************************************************************)
(* Theorems about the picker, for any options a page may give, any days    *)
(* and any texts: its limits follow the day, its label tells where the     *)
(* sliders stand, its fields keep their types, and a time is lost only     *)
(* with the sliders.                                                       *)
(***************************************************************************)
EXTENDS TimePicker, TLAPS

\* The fields of the picker that the limits of a day are about.
IsPicker(p) ==
    {"input", "alt", "selectedDay", "currentDay", "showing", "lastValSet",
     "lastVal", "time", "ampm", "formattedTime", "timeDefined", "min", "max",
     "minOriginal", "maxOriginal", "sliders", "position", "showTimepicker"}
        \subseteq DOMAIN p

\* q has the day and the limits of p.
SameLimits(p, q) ==
    /\ IsPicker(q)
    /\ q.selectedDay = p.selectedDay
    /\ q.min = p.min /\ q.minOriginal = p.minOriginal
    /\ q.max = p.max /\ q.maxOriginal = p.maxOriginal

\* An original limit that was kept is the one of the options; the limit is the
\* original one until it was kept, and always if there is no bound.
LimitsKnown(p) ==
    /\ IsPicker(p)
    /\ p.selectedDay # NoDay
    /\ p.minOriginal \in {NoTimes, options.min}
    /\ p.minOriginal = NoTimes \/ options.minDateTime.day = NoDay
          => p.min = options.min
    /\ p.maxOriginal \in {NoTimes, options.max}
    /\ p.maxOriginal = NoTimes \/ options.maxDateTime.day = NoDay
          => p.max = options.max

OptionsKnown == options.min # NoTimes /\ options.max # NoTimes

-----------------------------------------------------------------------------
(***************************************************************************)
(* The functions that leave the limits alone.                              *)
(***************************************************************************)
LEMMA UpdateDateTimeLimits ==
    ASSUME NEW p, IsPicker(p)
    PROVE  SameLimits(p, UpdateDateTime(p))
  BY DEF IsPicker, SameLimits, UpdateDateTime

LEMMA OnTimeChangeLimits ==
    ASSUME NEW p, IsPicker(p)
    PROVE  SameLimits(p, OnTimeChange(p))
  <1> DEFINE none    == p.sliders = "none"
             read    == [f \in Field |-> SliderValue(p, f)]
             half    == IF none THEN "AM" ELSE Half(read.hour)
             moved   == [p EXCEPT !.time = IF none THEN @ ELSE read,
                                  !.ampm = IF options.ampm THEN half ELSE @]
             after   == [moved EXCEPT
                           !.formattedTime = FormatTime(moved.time, moved.ampm,
                                          options.timeFormat, options.ampm),
                           !.timeDefined = TRUE]
  <1>1. SameLimits(p, moved)
    BY DEF IsPicker, SameLimits
  <1>2. SameLimits(p, after)
    <2> HIDE DEF moved
    <2> QED  BY <1>1 DEF IsPicker, SameLimits
  <1>3. OnTimeChange(p) \in {after, UpdateDateTime(after)}
    BY DEF OnTimeChange
  <1> HIDE DEF after
  <1>4. SameLimits(after, UpdateDateTime(after))
    BY <1>2, UpdateDateTimeLimits DEF SameLimits
  <1> QED  BY <1>2, <1>3, <1>4 DEF SameLimits

LEMMA ParseTimeLimits ==
    ASSUME NEW p, NEW text, NEW withDate, IsPicker(p)
    PROVE  SameLimits(p, ParseTime(p, text, withDate))
  BY DEF IsPicker, SameLimits, ParseTime

LEMMA UpdateAlternateLimits ==
    ASSUME NEW p, IsPicker(p)
    PROVE  SameLimits(p, UpdateAlternate(p))
  BY DEF IsPicker, SameLimits, UpdateAlternate

LEMMA InjectTimePickerLimits ==
    ASSUME NEW p, IsPicker(p)
    PROVE  SameLimits(p, InjectTimePicker(p))
  <1> DEFINE placed == [p EXCEPT !.sliders = "live", !.position = p.time]
             moved  == OnTimeChange(placed)
  <1>1. SameLimits(p, placed)
    BY DEF IsPicker, SameLimits
  <1>2. SameLimits(placed, moved)
    BY <1>1, OnTimeChangeLimits DEF SameLimits
  <1>3. InjectTimePicker(p)
          \in {p, [moved EXCEPT !.timeDefined = placed.timeDefined]}
    BY DEF InjectTimePicker, PlaceTimePicker
  <1> HIDE DEF placed, moved
  <1> QED  BY <1>1, <1>2, <1>3 DEF IsPicker, SameLimits

LEMMA SetTimeLimits ==
    ASSUME NEW p, NEW t, IsPicker(p)
    PROVE  SameLimits(p, SetTime(p, t))
  <1>1. PICK position, time :
           SetTime(p, t) = UpdateDateTime(OnTimeChange(
                             [p EXCEPT !.position = position, !.time = time]))
    BY DEF SetTime, IsPicker
  <1> DEFINE moved == [p EXCEPT !.position = position, !.time = time]
  <1>2. SameLimits(p, moved)
    BY DEF IsPicker, SameLimits
  <1> HIDE DEF moved
  <1>3. SameLimits(moved, OnTimeChange(moved))
    BY <1>2, OnTimeChangeLimits DEF SameLimits
  <1>4. SameLimits(OnTimeChange(moved), UpdateDateTime(OnTimeChange(moved)))
    BY <1>3, UpdateDateTimeLimits DEF SameLimits
  <1> QED  BY <1>1, <1>2, <1>3, <1>4 DEF SameLimits, moved

\* Knowing the limits carries over from one picker to one with the same.
LEMMA SameLimitsKnown ==
    ASSUME NEW p, NEW q, SameLimits(p, q)
    PROVE  /\ LimitsKnown(p) => LimitsKnown(q)
           /\ LimitsOfDay(p) => LimitsOfDay(q)
  BY DEF SameLimits, LimitsKnown, LimitsOfDay, Narrowed

-----------------------------------------------------------------------------
(***************************************************************************)
(* The functions that find the limits again.                               *)
(***************************************************************************)
LEMMA LimitMinOfDay ==
    ASSUME OptionsKnown, NEW p, NEW q, LimitsKnown(p), q = LimitMin(p)
    PROVE  /\ LimitsKnown(q)
           /\ q.selectedDay = p.selectedDay
           /\ q.min = IF Narrowed(options.minDateTime, q)
                          THEN options.minDateTime.time ELSE options.min
  <1>1. CASE options.minDateTime.day = NoDay
    BY <1>1 DEF LimitMin, LimitsKnown, Narrowed
  <1>2. CASE options.minDateTime.day # NoDay
    <2>1. PICK original, time :
             /\ original = IF p.minOriginal = NoTimes THEN p.min ELSE p.minOriginal
             /\ q = [p EXCEPT !.minOriginal = original,
                              !.min = IF Narrowed(options.minDateTime, p)
                                          THEN options.minDateTime.time
                                          ELSE original,
                              !.time = time]
      BY <1>2 DEF LimitMin, LimitsKnown, IsPicker
    <2>2. original = options.min
      BY <2>1 DEF LimitsKnown
    <2>3. /\ IsPicker(q) /\ q.selectedDay = p.selectedDay
          /\ q.max = p.max /\ q.maxOriginal = p.maxOriginal
          /\ q.minOriginal = options.min
          /\ q.min = IF Narrowed(options.minDateTime, p)
                         THEN options.minDateTime.time ELSE options.min
      BY <2>1, <2>2 DEF LimitsKnown, IsPicker
    <2> QED  BY <1>2, <2>3 DEF LimitsKnown, OptionsKnown, Narrowed
  <1> QED  BY <1>1, <1>2

LEMMA LimitMaxOfDay ==
    ASSUME OptionsKnown, NEW p, NEW q, LimitsKnown(p), q = LimitMax(p)
    PROVE  /\ LimitsKnown(q)
           /\ q.selectedDay = p.selectedDay /\ q.min = p.min
           /\ q.max = IF Narrowed(options.maxDateTime, q)
                          THEN options.maxDateTime.time ELSE options.max
  <1>1. CASE options.maxDateTime.day = NoDay
    BY <1>1 DEF LimitMax, LimitsKnown, Narrowed
  <1>2. CASE options.maxDateTime.day # NoDay
    <2>1. PICK original, time :
             /\ original = IF p.maxOriginal = NoTimes THEN p.max ELSE p.maxOriginal
             /\ q = [p EXCEPT !.maxOriginal = original,
                              !.max = IF Narrowed(options.maxDateTime, p)
                                          THEN options.maxDateTime.time
                                          ELSE original,
                              !.time = time]
      BY <1>2 DEF LimitMax, LimitsKnown, IsPicker
    <2>2. original = options.max
      BY <2>1 DEF LimitsKnown
    <2>3. /\ IsPicker(q) /\ q.selectedDay = p.selectedDay
          /\ q.min = p.min /\ q.minOriginal = p.minOriginal
          /\ q.maxOriginal = options.max
          /\ q.max = IF Narrowed(options.maxDateTime, p)
                         THEN options.maxDateTime.time ELSE options.max
      BY <2>1, <2>2 DEF LimitsKnown, IsPicker
    <2> QED  BY <1>2, <2>3 DEF LimitsKnown, OptionsKnown, Narrowed
  <1> QED  BY <1>1, <1>2

LEMMA LimitsFound ==
    ASSUME OptionsKnown, NEW p, LimitsKnown(p)
    PROVE  LET q == LimitMinMaxDateTime(p)
           IN  /\ LimitsKnown(q) /\ LimitsOfDay(q)
               /\ q.selectedDay = p.selectedDay
  <1> DEFINE r == LimitMin(p)
             q == LimitMax(r)
  <1>1. /\ LimitsKnown(r) /\ r.selectedDay = p.selectedDay
        /\ r.min = IF Narrowed(options.minDateTime, r)
                       THEN options.minDateTime.time ELSE options.min
    BY LimitMinOfDay
  <1> HIDE DEF r
  <1>2. /\ LimitsKnown(q) /\ q.selectedDay = r.selectedDay /\ q.min = r.min
        /\ q.max = IF Narrowed(options.maxDateTime, q)
                       THEN options.maxDateTime.time ELSE options.max
    BY <1>1, LimitMaxOfDay
  <1> HIDE DEF q
  <1>3. LimitsOfDay(q)
    BY <1>1, <1>2 DEF LimitsOfDay, Narrowed
  <1> QED  BY <1>1, <1>2, <1>3 DEF LimitMinMaxDateTime, q, r

LEMMA UpdateDatepickerLimits ==
    ASSUME OptionsKnown, NEW p, LimitsKnown(p)
    PROVE  LET q == UpdateDatepicker(p)
           IN  /\ LimitsKnown(q) /\ LimitsOfDay(q)
               /\ q.selectedDay = p.selectedDay
  <1> DEFINE cut     == [p EXCEPT !.sliders = IF @ = "none" THEN @ ELSE "removed"]
             text    == IF AltTimeOnly /\ cut.alt # Empty
                            THEN [cut.input EXCEPT !.time = cut.alt.time]
                            ELSE cut.input
             parsed  == ParseTime(cut, text, FALSE)
             read    == [parsed EXCEPT !.timeDefined = Matches(text, FALSE)]
             limited == LimitMinMaxDateTime(read)
             q       == InjectTimePicker(limited)
  <1>1. UpdateDatepicker(p) = q
    BY Zenon DEF UpdateDatepicker, AddTimePicker
  <1>2. SameLimits(p, cut)
    BY DEF LimitsKnown, IsPicker, SameLimits
  <1> HIDE DEF cut, text
  <1>3. SameLimits(cut, parsed)
    <2>1. IsPicker(cut)
      BY <1>2 DEF SameLimits
    <2> QED  BY Zenon, <2>1, ParseTimeLimits
  <1> HIDE DEF parsed
  <1>4. SameLimits(parsed, read)
    BY <1>3 DEF SameLimits, IsPicker
  <1> HIDE DEF read
  <1>5. LimitsKnown(read) /\ read.selectedDay = p.selectedDay
    BY <1>2, <1>3, <1>4, SameLimitsKnown DEF SameLimits
  <1>6. /\ LimitsKnown(limited) /\ LimitsOfDay(limited)
        /\ limited.selectedDay = read.selectedDay
    BY <1>5, LimitsFound
  <1> HIDE DEF limited
  <1>7. SameLimits(limited, q)
    BY <1>6, InjectTimePickerLimits DEF LimitsKnown
  <1> HIDE DEF q
  <1>8. LimitsKnown(q) /\ LimitsOfDay(q) /\ q.selectedDay = p.selectedDay
    BY <1>5, <1>6, <1>7, SameLimitsKnown DEF SameLimits
  <1> QED  BY <1>1, <1>8 DEF q, limited, read, parsed, text, cut

LEMMA SelectDateLimits ==
    ASSUME OptionsKnown, NEW p, NEW day, LimitsKnown(p)
    PROVE  LimitsKnown(SelectDate(p, day)) /\ LimitsOfDay(SelectDate(p, day))
  <1> DEFINE limited == LimitMinMaxDateTime(p)
             new     == [limited EXCEPT
                           !.input = [day |-> day, time |-> limited.formattedTime]]
             written == UpdateAlternate(new)
             updated == UpdateDateTime(written)
  <1>1. LimitsKnown(limited) /\ LimitsOfDay(limited)
    BY LimitsFound
  <1>2. SelectDate(p, day) \in {limited, UpdateDatepicker(updated)}
    BY DEF SelectDate
  <1> HIDE DEF limited
  <1>3. SameLimits(limited, new)
    BY <1>1 DEF LimitsKnown, IsPicker, SameLimits
  <1> HIDE DEF new
  <1>4. SameLimits(new, written)
    BY <1>3, UpdateAlternateLimits DEF SameLimits
  <1> HIDE DEF written
  <1>5. SameLimits(written, updated)
    BY <1>4, UpdateDateTimeLimits DEF SameLimits
  <1> HIDE DEF updated
  <1>6. LimitsKnown(updated)
    BY <1>1, <1>3, <1>4, <1>5, SameLimitsKnown
  <1> QED  BY <1>1, <1>2, <1>6, UpdateDatepickerLimits

-----------------------------------------------------------------------------
(***************************************************************************)
(* The calendar always has a day.                                          *)
(***************************************************************************)
LEMMA Days ==
    /\ Today # NoDay /\ DayZero # NoDay
    /\ \A d \in Day : d # NoDay
    /\ \A d : d # NoDay => RestrictMinMax(d) # NoDay
  <1>1. \A d \in Day : d # NoDay
    BY DEF Day, NoDay
  <1>2. ASSUME NEW d, d # NoDay
        PROVE  RestrictMinMax(d) # NoDay
    <2> DEFINE raised == IF options.minDateTime.day # NoDay
                              /\ d < options.minDateTime.day
                           THEN options.minDateTime.day ELSE d
    <2>1. raised # NoDay
      BY <1>2
    <2>2. RestrictMinMax(d) = IF options.maxDateTime.day # NoDay
                                  /\ raised > options.maxDateTime.day
                                THEN options.maxDateTime.day ELSE raised
      BY DEF RestrictMinMax
    <2> QED  BY <2>1, <2>2
  <1>3. Today # NoDay /\ DayZero # NoDay
    BY <1>1, TimePickerAssumption DEF NoDay, DayZero
  <1> QED  BY <1>1, <1>2, <1>3

\* A change of the day keeps what is known of the limits.
LEMMA NewDayKnown ==
    ASSUME NEW p, NEW d, LimitsKnown(p), d # NoDay
    PROVE  /\ LimitsKnown([p EXCEPT !.selectedDay = d])
           /\ \A c : LimitsKnown([p EXCEPT !.selectedDay = d, !.currentDay = c])
  BY DEF LimitsKnown, IsPicker

LEMMA SetDateFromFieldKnown ==
    ASSUME NEW p, LimitsKnown(p)
    PROVE  LimitsKnown(SetDateFromField(p))
  <1> DEFINE date == IF p.input.day = NoDay THEN RestrictMinMax(Today) ELSE p.input.day
             day  == RestrictMinMax(date)
  <1>1. day # NoDay
    BY Days
  <1>2. PICK current :
           SetDateFromField(p) \in
             {p, [p EXCEPT !.lastValSet = TRUE, !.lastVal = p.input,
                           !.currentDay = current, !.selectedDay = day]}
    BY DEF SetDateFromField
  <1> HIDE DEF day
  <1> QED  BY <1>1, <1>2 DEF LimitsKnown, IsPicker

LEMMA DoKeyUpKnown ==
    ASSUME OptionsKnown, NEW p, LimitsKnown(p)
    PROVE  LimitsKnown(DoKeyUp(p))
  <1> DEFINE differs(q) == ~q.lastValSet \/ q.input # q.lastVal
             first == IF options.timeOnly /\ differs(p)
                          THEN UpdateDatepicker(p) ELSE p
             dated == SetDateFromField(first)
             other == UpdateAlternate(dated)
  <1>1. LimitsKnown(first)
    BY UpdateDatepickerLimits
  <1>2. DoKeyUp(p) \in {first, UpdateDatepicker(other)}
    BY DEF DoKeyUp
  <1> HIDE DEF first
  <1>3. LimitsKnown(dated)
    BY <1>1, SetDateFromFieldKnown
  <1> HIDE DEF dated
  <1>4. LimitsKnown(other)
    BY <1>3, UpdateAlternateLimits, SameLimitsKnown DEF LimitsKnown
  <1> HIDE DEF other
  <1> QED  BY <1>1, <1>2, <1>4, UpdateDatepickerLimits

\* Functions that leave the limits alone keep what is known of them.
LEMMA KeepingKnown ==
    ASSUME NEW p, LimitsKnown(p)
    PROVE  /\ LimitsKnown(UpdateDateTime(p))
           /\ LimitsKnown(OnTimeChange(p))
           /\ LimitsKnown(UpdateAlternate(p))
           /\ \A text, withDate : LimitsKnown(ParseTime(p, text, withDate))
           /\ \A t : LimitsKnown(SetTime(p, t))
  <1>1. IsPicker(p)
    BY DEF LimitsKnown
  <1>2. LimitsKnown(UpdateDateTime(p)) /\ LimitsKnown(OnTimeChange(p))
    BY <1>1, UpdateDateTimeLimits, OnTimeChangeLimits, SameLimitsKnown
  <1>3. LimitsKnown(UpdateAlternate(p))
    BY <1>1, UpdateAlternateLimits, SameLimitsKnown
  <1>4. \A text, withDate : LimitsKnown(ParseTime(p, text, withDate))
    BY Zenon, <1>1, ParseTimeLimits, SameLimitsKnown
  <1>5. \A t : LimitsKnown(SetTime(p, t))
    BY Zenon, <1>1, SetTimeLimits, SameLimitsKnown
  <1> QED  BY <1>2, <1>3, <1>4, <1>5

-----------------------------------------------------------------------------
(***************************************************************************)
(* The actions.                                                            *)
(***************************************************************************)
LimitsInv == OptionsKnown /\ LimitsKnown(picker)

\* Fields that the limits do not depend on.
LEMMA OtherFieldsKnown ==
    ASSUME NEW p, LimitsKnown(p), NEW v, NEW f
    PROVE  /\ LimitsKnown([p EXCEPT !.showing = v])
           /\ LimitsKnown([p EXCEPT !.input = v])
           /\ LimitsKnown([p EXCEPT !.sliders = v])
           /\ LimitsKnown([p EXCEPT !.showTimepicker = v])
           /\ LimitsKnown([p EXCEPT !.position = v])
           /\ \A w : LimitsKnown([p EXCEPT !.showing = v, !.lastValSet = w])
  BY DEF LimitsKnown, IsPicker

LEMMA ShowLimits ==
    ASSUME LimitsInv, Show
    PROVE  LimitsKnown(picker') /\ LimitsOfDay(picker')
  <1> DEFINE p == [picker EXCEPT !.showing = TRUE, !.lastValSet = FALSE]
             q == SetDateFromField(p)
  <1>1. LimitsKnown(p)
    BY Zenon, OtherFieldsKnown DEF LimitsInv
  <1>2. picker' = UpdateDatepicker(q)
    BY DEF Show, Step
  <1> HIDE DEF p
  <1>3. LimitsKnown(q)
    BY <1>1, SetDateFromFieldKnown
  <1> HIDE DEF q
  <1> QED  BY <1>2, <1>3, UpdateDatepickerLimits DEF LimitsInv

LEMMA SelectLimits ==
    ASSUME LimitsInv, ClearDate \/ \E d \in Day : SelectDay(d)
    PROVE  LimitsKnown(picker') /\ LimitsOfDay(picker')
  <1>1. CASE ClearDate
    BY <1>1, SelectDateLimits DEF ClearDate, Step, LimitsInv
  <1>2. ASSUME NEW d \in Day, SelectDay(d)
        PROVE  LimitsKnown(picker') /\ LimitsOfDay(picker')
    <2> DEFINE p == [picker EXCEPT !.selectedDay = d, !.currentDay = d]
    <2>1. LimitsKnown(p)
      BY Days, NewDayKnown DEF LimitsInv
    <2>2. picker' = SelectDate(p, d)
      BY <1>2 DEF SelectDay, Step
    <2> HIDE DEF p
    <2> QED  BY <2>1, <2>2, SelectDateLimits DEF LimitsInv
  <1> QED  BY <1>1, <1>2

LEMMA AdjustLimits ==
    ASSUME LimitsInv, NEW d \in Day, AdjustDate(d)
    PROVE  LimitsKnown(picker') /\ LimitsOfDay(picker')
  <1> DEFINE p == [picker EXCEPT !.selectedDay = d]
  <1>1. LimitsKnown(p)
    BY Days, NewDayKnown DEF LimitsInv
  <1>2. \/ picker' = UpdateDatepicker(p)
        \/ picker' = UpdateDatepicker(UpdateDateTime(p))
    BY DEF AdjustDate, Step
  <1> HIDE DEF p
  <1>3. LimitsKnown(UpdateDateTime(p))
    BY <1>1, KeepingKnown
  <1> QED  BY <1>1, <1>2, <1>3, UpdateDatepickerLimits DEF LimitsInv

LEMMA TodayLimits ==
    ASSUME LimitsInv, NEW now, GotoToday(now)
    PROVE  LimitsKnown(picker') /\ LimitsOfDay(picker')
  <1> DEFINE new   == [picker EXCEPT !.selectedDay = Today]
             today == UpdateDateTime(new)
             held  == [today EXCEPT !.selectedDay = RestrictMinMax(Today)]
             drawn == UpdateDatepicker(held)
  <1>1. LimitsKnown(new)
    BY Days, NewDayKnown DEF LimitsInv
  <1>2. picker' = SetTime(drawn, now)
    BY DEF GotoToday, Step
  <1> HIDE DEF new
  <1>3. LimitsKnown(today)
    BY <1>1, KeepingKnown
  <1> HIDE DEF today
  <1>4. LimitsKnown(held)
    BY <1>3, Days, NewDayKnown
  <1> HIDE DEF held
  <1>5. LimitsKnown(drawn) /\ LimitsOfDay(drawn)
    BY <1>4, UpdateDatepickerLimits DEF LimitsInv
  <1> HIDE DEF drawn
  <1>6. SameLimits(drawn, SetTime(drawn, now))
    BY Zenon, <1>5, SetTimeLimits DEF LimitsKnown
  <1> QED  BY <1>2, <1>5, <1>6, SameLimitsKnown

\* The steps of the user that keep the day.
LEMMA SameDayLimits ==
    ASSUME LimitsInv,
           \/ Close \/ PressKey \/ OtherPickerShows
           \/ \E f \in Field : \E v \in Spot[f] : Slide(f, v) \/ ClickGrid(f, v)
           \/ \E text \in TypedText : Type(text)
    PROVE  LimitsKnown(picker')
  <1>1. LimitsKnown(picker) /\ OptionsKnown
    BY DEF LimitsInv
  <1>2. CASE Close
    <2> DEFINE p == [picker EXCEPT !.showing = FALSE]
    <2>1. LimitsKnown(p)
      BY Zenon, <1>1, OtherFieldsKnown
    <2>2. picker' \in {p, UpdateDateTime(p)}
      BY <1>2 DEF Close, Step
    <2> HIDE DEF p
    <2> QED  BY <2>1, <2>2, KeepingKnown
  <1>3. CASE PressKey
    BY <1>1, <1>3, DoKeyUpKnown DEF PressKey, Step
  <1>4. CASE OtherPickerShows
    BY <1>1, <1>4, OtherFieldsKnown DEF OtherPickerShows, Step
  <1>5. ASSUME NEW f \in Field, NEW v, Slide(f, v)
        PROVE  LimitsKnown(picker')
    <2>1. PICK position :
             picker' = OnTimeChange([picker EXCEPT !.position = position])
      BY <1>1, <1>5 DEF Slide, Step, LimitsKnown, IsPicker
    <2>2. LimitsKnown([picker EXCEPT !.position = position])
      BY Zenon, <1>1, OtherFieldsKnown
    <2> QED  BY <2>1, <2>2, KeepingKnown
  <1>6. ASSUME NEW f \in Field, NEW v, ClickGrid(f, v)
        PROVE  LimitsKnown(picker')
    <2>1. PICK position :
             picker' = OnTimeChange([picker EXCEPT !.position = position])
      BY <1>1, <1>6 DEF ClickGrid, Step, LimitsKnown, IsPicker
    <2>2. LimitsKnown([picker EXCEPT !.position = position])
      BY Zenon, <1>1, OtherFieldsKnown
    <2> QED  BY <2>1, <2>2, KeepingKnown
  <1>7. ASSUME NEW text, Type(text)
        PROVE  LimitsKnown(picker')
    <2> DEFINE p == [picker EXCEPT !.input = text]
    <2>1. LimitsKnown(p)
      BY Zenon, <1>1, OtherFieldsKnown
    <2>2. picker' = DoKeyUp(p)
      BY <1>7 DEF Type, Step
    <2> HIDE DEF p
    <2> QED  BY <1>1, <2>1, <2>2, DoKeyUpKnown
  <1> QED  BY <1>2, <1>3, <1>4, <1>5, <1>6, <1>7

LEMMA SetDateLimits ==
    ASSUME LimitsInv, NEW d, NEW t, CallSetDate(d, t)
    PROVE  LimitsKnown(picker')
  <1> DEFINE date    == RestrictMinMax(IF d = NoDay THEN Today ELSE d)
             drawn   == UpdateDatepicker(picker)
             chosen  == [drawn EXCEPT !.selectedDay = date, !.currentDay = date]
             noticed == IF Month[drawn.selectedDay] # Month[date]
                            THEN UpdateDateTime(chosen) ELSE chosen
             text    == IF d = NoDay THEN Empty ELSE [day |-> date, time |-> NoTime]
             written == [noticed EXCEPT !.input = text]
             redrawn == UpdateDatepicker(written)
             dated   == UpdateAlternate(redrawn)
             read    == SetDateFromField(dated)
  <1>1. picker' = SetTime(read, t)
    BY Zenon DEF CallSetDate, Step
  <1>2. LimitsKnown(drawn)
    BY UpdateDatepickerLimits DEF LimitsInv
  <1>3. date # NoDay
    BY Days
  <1> HIDE DEF drawn, date
  <1>4. LimitsKnown(chosen)
    BY <1>2, <1>3, NewDayKnown
  <1> HIDE DEF chosen
  <1>5. LimitsKnown(noticed)
    BY <1>4, KeepingKnown
  <1> HIDE DEF noticed, text
  <1>6. LimitsKnown(written)
    BY Zenon, <1>5, OtherFieldsKnown
  <1> HIDE DEF written
  <1>7. LimitsKnown(redrawn)
    BY <1>6, UpdateDatepickerLimits DEF LimitsInv
  <1> HIDE DEF redrawn
  <1>8. LimitsKnown(dated)
    BY <1>7, KeepingKnown
  <1> HIDE DEF dated
  <1>9. LimitsKnown(read)
    BY <1>8, SetDateFromFieldKnown
  <1> HIDE DEF read
  <1> QED  BY <1>1, <1>9, KeepingKnown

LEMMA ScriptLimits ==
    ASSUME LimitsInv, Script
    PROVE  LimitsKnown(picker')
  <1>1. LimitsKnown(picker) /\ OptionsKnown
    BY DEF LimitsInv
  <1>2. LimitsKnown(SetDateFromField(picker))
    BY <1>1, SetDateFromFieldKnown
  <1>3. ASSUME NEW shown, SwitchTimepicker(shown)
        PROVE  LimitsKnown(picker')
    <2> DEFINE p == [picker EXCEPT !.showTimepicker = shown]
    <2>1. LimitsKnown(p)
      BY Zenon, <1>1, OtherFieldsKnown
    <2>2. picker' = UpdateDateTime(OnTimeChange(p))
      BY <1>3 DEF SwitchTimepicker, Step
    <2> HIDE DEF p
    <2> QED  BY <2>1, <2>2, KeepingKnown
  <1>4. ASSUME NEW t, CallSetTime(t)
        PROVE  LimitsKnown(picker')
    BY <1>2, <1>4, KeepingKnown DEF CallSetTime, Step
  <1>5. ASSUME NEW text, CallSetTimeText(text)
        PROVE  LimitsKnown(picker')
    <2> DEFINE p == ParseTime(SetDateFromField(picker), text, FALSE)
    <2>1. LimitsKnown(p)
      BY Zenon, <1>2, KeepingKnown
    <2>2. PICK t : picker' = SetTime(p, t)
      BY Zenon, <1>5 DEF CallSetTimeText, Step
    <2> HIDE DEF p
    <2> QED  BY <2>1, <2>2, KeepingKnown
  <1>6. CASE CallGetDate
    <2> DEFINE p == SetDateFromField(picker)
    <2>1. picker' \in {p, ParseTime(p, p.input, TRUE)}
      BY <1>6 DEF CallGetDate, Step
    <2>2. LimitsKnown(ParseTime(p, p.input, TRUE))
      BY Zenon, <1>2, KeepingKnown
    <2> HIDE DEF p
    <2> QED  BY <1>2, <2>1, <2>2 DEF p
  <1> QED  BY <1>3, <1>4, <1>5, <1>6, SetDateLimits DEF Script

-----------------------------------------------------------------------------
LEMMA InitLimits == Init => LimitsInv
  <1> SUFFICES ASSUME Init PROVE LimitsInv
    OBVIOUS
  <1>1. PICK given \in GivenOptions : options = NewOptions(given)
    BY DEF Init
  <1>2. PICK text \in TypedText : picker = NewPicker(options, text)
    BY DEF Init
  <1>3. options.min \in TimeOfDay /\ options.max \in TimeOfDay
    BY <1>1, OptionsAssumption
  <1>4. \A t \in TimeOfDay : t # NoTimes
    BY DEF TimeOfDay, NoTimes, NaN, Field
  <1>5. LimitsKnown(picker)
    BY <1>2, Days DEF NewPicker, LimitsKnown, IsPicker
  <1> QED  BY <1>3, <1>4, <1>5 DEF LimitsInv, OptionsKnown

LEMMA OptionsStay == [Next]_vars => UNCHANGED options
  BY DEF Next, vars, User, Script, Show, Close, ClearDate, PressKey,
         OtherPickerShows, SelectDay, AdjustDate, Slide, ClickGrid, Type,
         GotoToday, SwitchTimepicker, CallSetTime, CallSetTimeText, CallSetDate,
         CallGetDate, Step

LEMMA NextLimits ==
    LimitsInv /\ [Next]_vars => LimitsInv' /\ [LimitsOfDay(picker') \/ ~ChangesDay]_vars
  <1> SUFFICES ASSUME LimitsInv, [Next]_vars
               PROVE  LimitsInv' /\ [LimitsOfDay(picker') \/ ~ChangesDay]_vars
    OBVIOUS
  <1>1. LimitsKnown(picker')
    BY ShowLimits, SelectLimits, AdjustLimits, TodayLimits, SameDayLimits,
       ScriptLimits DEF LimitsInv, Next, User, vars
  <1>2. LimitsInv'
    BY <1>1, OptionsStay DEF LimitsInv, OptionsKnown, LimitsKnown
  <1>3. ChangesDay => LimitsOfDay(picker')
    BY ShowLimits, SelectLimits, AdjustLimits, TodayLimits DEF ChangesDay
  <1> QED  BY <1>2, <1>3

(***************************************************************************)
(* Whichever way the user comes to a day, and whatever scripts did before, *)
(* the limits are then those of the day.                                   *)
(***************************************************************************)
THEOREM LimitsAreOfTheDay == Spec => LimitsFollowDay
  BY InitLimits, NextLimits, PTL DEF Spec, LimitsFollowDay

-----------------------------------------------------------------------------
(***************************************************************************)
(* The label above the sliders.  It is true of the sliders whether or not  *)
(* the picker is showing, and each function either leaves both alone or    *)
(* ends with the label being written from the sliders.                     *)
(***************************************************************************)
LabelTrue(p) ==
    p.sliders = "live" =>
        LET read == [f \in Field |-> SliderValue(p, f)]
        IN  p.formattedTime =
              FormatTime(read, Half(read.hour), options.timeFormat, options.ampm)

\* A picker, with a label that is true.
Labelled(p) == IsPicker(p) /\ LabelTrue(p)

\* q has the sliders and the label of p.
SameLabel(p, q) ==
    /\ IsPicker(q)
    /\ q.sliders = p.sliders /\ q.position = p.position
    /\ q.min = p.min /\ q.max = p.max
    /\ q.formattedTime = p.formattedTime

LEMMA SameLabelled ==
    ASSUME NEW p, NEW q, Labelled(p), SameLabel(p, q)
    PROVE  Labelled(q)
  BY DEF Labelled, SameLabel, LabelTrue, SliderValue

LEMMA KeepingLabel ==
    ASSUME NEW p, IsPicker(p)
    PROVE  /\ SameLabel(p, UpdateDateTime(p))
           /\ SameLabel(p, UpdateAlternate(p))
           /\ SameLabel(p, SetDateFromField(p))
           /\ \A text, withDate : SameLabel(p, ParseTime(p, text, withDate))
  <1>1. SameLabel(p, UpdateDateTime(p))
    BY DEF IsPicker, SameLabel, UpdateDateTime
  <1>2. SameLabel(p, UpdateAlternate(p))
    BY DEF IsPicker, SameLabel, UpdateAlternate
  <1>3. SameLabel(p, SetDateFromField(p))
    BY DEF IsPicker, SameLabel, SetDateFromField
  <1>4. ASSUME NEW text, NEW withDate
        PROVE  SameLabel(p, ParseTime(p, text, withDate))
    BY DEF IsPicker, SameLabel, ParseTime
  <1> QED  BY <1>1, <1>2, <1>3, <1>4

\* Without sliders in the page no label can be wrong.
LEMMA NoSlidersLabelled ==
    ASSUME NEW p, IsPicker(p), p.sliders # "live"
    PROVE  Labelled(p)
  BY DEF Labelled, LabelTrue

\* The half of the day is printed only where options.ampm asks for it.
LEMMA HalfOfAmpm ==
    ASSUME NEW time, NEW h, NEW g, options.ampm => h = g
    PROVE  FormatTime(time, h, options.timeFormat, options.ampm)
             = FormatTime(time, g, options.timeFormat, options.ampm)
  <1>1. CASE options.ampm
    BY <1>1
  <1>2. CASE ~options.ampm
    BY <1>2 DEF FormatTime
  <1> QED  BY <1>1, <1>2

LEMMA OnTimeChangeLabelled ==
    ASSUME NEW p, IsPicker(p)
    PROVE  /\ Labelled(OnTimeChange(p))
           /\ OnTimeChange(p).sliders = p.sliders
  <1> DEFINE none    == p.sliders = "none"
             read    == [f \in Field |-> SliderValue(p, f)]
             half    == IF none THEN "AM" ELSE Half(read.hour)
             moved   == [p EXCEPT !.time = IF none THEN @ ELSE read,
                                  !.ampm = IF options.ampm THEN half ELSE @]
             text    == FormatTime(moved.time, moved.ampm,
                                   options.timeFormat, options.ampm)
             after   == [moved EXCEPT !.formattedTime = text, !.timeDefined = TRUE]
  <1>1. OnTimeChange(p) \in {after, UpdateDateTime(after)}
    BY DEF OnTimeChange
  <1>2. /\ IsPicker(moved)
        /\ moved.sliders = p.sliders /\ moved.position = p.position
        /\ moved.min = p.min /\ moved.max = p.max
        /\ ~none => moved.time = read
        /\ options.ampm => moved.ampm = half
    <2> HIDE DEF read, half
    <2> QED  BY DEF IsPicker
  <1> HIDE DEF moved
  <1>3. /\ IsPicker(after)
        /\ after.sliders = p.sliders /\ after.position = p.position
        /\ after.min = p.min /\ after.max = p.max
        /\ after.formattedTime = text
    <2> HIDE DEF text
    <2> QED  BY <1>2 DEF IsPicker
  <1>4. LabelTrue(after)
    <2> SUFFICES ASSUME p.sliders = "live"
                 PROVE  after.formattedTime =
                          FormatTime(read, Half(read.hour),
                                     options.timeFormat, options.ampm)
      <3>1. read = [f \in Field |-> SliderValue(after, f)]
        <4> HIDE DEF after
        <4> QED  BY <1>3 DEF SliderValue
      <3> HIDE DEF read, after
      <3> QED  BY <1>3, <3>1 DEF LabelTrue
    <2>1. ~none /\ half = Half(read.hour)
      OBVIOUS
    <2> HIDE DEF read, half, after
    <2>2. text = FormatTime(read, moved.ampm, options.timeFormat, options.ampm)
      BY <1>2, <2>1
    <2> HIDE DEF text
    <2> QED  BY <1>2, <1>3, <2>1, <2>2, HalfOfAmpm
  <1> HIDE DEF after
  <1>5. Labelled(after)
    BY <1>3, <1>4 DEF Labelled
  <1>6. SameLabel(after, UpdateDateTime(after))
    BY <1>3, KeepingLabel
  <1>7. Labelled(UpdateDateTime(after))
    BY <1>5, <1>6, SameLabelled
  <1> QED  BY <1>1, <1>3, <1>5, <1>6, <1>7 DEF SameLabel

\* Sliders that are added stand where the label says; without a time picker
\* there are none in the page.
LEMMA InjectTimePickerLabelled ==
    ASSUME NEW p, IsPicker(p), p.sliders # "live"
    PROVE  Labelled(InjectTimePicker(p))
  <1>1. CASE ~p.showTimepicker
    BY <1>1, NoSlidersLabelled DEF InjectTimePicker
  <1>2. CASE p.showTimepicker
    <2> DEFINE placed == [p EXCEPT !.sliders = "live", !.position = p.time]
               moved  == OnTimeChange(placed)
               done   == [moved EXCEPT !.timeDefined = placed.timeDefined]
    <2>1. InjectTimePicker(p) = done
      BY <1>2 DEF InjectTimePicker, PlaceTimePicker
    <2>2. IsPicker(placed)
      BY DEF IsPicker
    <2> HIDE DEF placed
    <2>3. Labelled(moved)
      BY <2>2, OnTimeChangeLabelled
    <2> HIDE DEF moved
    <2>4. SameLabel(moved, done)
      BY <2>3 DEF Labelled, SameLabel, IsPicker
    <2> HIDE DEF done
    <2> QED  BY <2>1, <2>3, <2>4, SameLabelled
  <1> QED  BY <1>1, <1>2

\* The limits alone do not bring sliders into the page or take them out.
LEMMA LimitsKeepSliders ==
    ASSUME NEW p, IsPicker(p)
    PROVE  LET q == LimitMinMaxDateTime(p)
           IN  /\ IsPicker(q)
               /\ q.sliders = p.sliders /\ q.formattedTime = p.formattedTime
               /\ q.showTimepicker = p.showTimepicker
  <1> DEFINE r == LimitMin(p)
             q == LimitMax(r)
  <1>1. /\ IsPicker(r)
        /\ r.sliders = p.sliders /\ r.formattedTime = p.formattedTime
        /\ r.showTimepicker = p.showTimepicker
    BY DEF IsPicker, LimitMin
  <1> HIDE DEF r
  <1>2. /\ IsPicker(q)
        /\ q.sliders = r.sliders /\ q.formattedTime = r.formattedTime
        /\ q.showTimepicker = r.showTimepicker
    BY <1>1 DEF IsPicker, LimitMax
  <1> HIDE DEF q
  <1> QED  BY <1>1, <1>2 DEF LimitMinMaxDateTime, q, r

LEMMA UpdateDatepickerLabelled ==
    ASSUME NEW p, IsPicker(p)
    PROVE  Labelled(UpdateDatepicker(p))
  <1> DEFINE cut     == [p EXCEPT !.sliders = IF @ = "none" THEN @ ELSE "removed"]
             text    == IF AltTimeOnly /\ cut.alt # Empty
                            THEN [cut.input EXCEPT !.time = cut.alt.time]
                            ELSE cut.input
             parsed  == ParseTime(cut, text, FALSE)
             read    == [parsed EXCEPT !.timeDefined = Matches(text, FALSE)]
             limited == LimitMinMaxDateTime(read)
  <1>1. UpdateDatepicker(p) = InjectTimePicker(limited)
    BY Zenon DEF UpdateDatepicker, AddTimePicker
  <1>2. IsPicker(cut) /\ cut.sliders # "live"
    BY DEF IsPicker
  <1> HIDE DEF cut, text
  <1>3. SameLabel(cut, parsed)
    BY Zenon, <1>2, KeepingLabel
  <1> HIDE DEF parsed
  <1>4. SameLabel(parsed, read)
    BY <1>3 DEF SameLabel, IsPicker
  <1> HIDE DEF read
  <1>5. IsPicker(read) /\ read.sliders # "live"
    BY <1>2, <1>3, <1>4 DEF SameLabel
  <1>6. IsPicker(limited) /\ limited.sliders # "live"
    BY <1>5, LimitsKeepSliders
  <1> HIDE DEF limited
  <1> QED  BY <1>1, <1>6, InjectTimePickerLabelled

LEMMA SelectDateLabelled ==
    ASSUME NEW p, NEW day, Labelled(p)
    PROVE  Labelled(SelectDate(p, day))
  <1> DEFINE limited == LimitMinMaxDateTime(p)
             new     == [limited EXCEPT
                           !.input = [day |-> day, time |-> limited.formattedTime]]
             written == UpdateAlternate(new)
             updated == UpdateDateTime(written)
  <1>1. IsPicker(limited) /\ limited.sliders = p.sliders
    BY LimitsKeepSliders DEF Labelled
  <1>2. CASE p.sliders = "none"
    <2>1. SelectDate(p, day) = limited
      BY <1>2 DEF SelectDate
    <2> HIDE DEF limited
    <2> QED  BY <1>1, <1>2, <2>1, NoSlidersLabelled
  <1>3. CASE p.sliders # "none"
    <2>1. SelectDate(p, day) = UpdateDatepicker(updated)
      BY <1>3 DEF SelectDate
    <2> HIDE DEF limited
    <2>2. IsPicker(new)
      BY <1>1 DEF IsPicker
    <2> HIDE DEF new
    <2>3. IsPicker(written)
      BY <2>2, KeepingLabel DEF SameLabel
    <2> HIDE DEF written
    <2>4. IsPicker(updated)
      BY <2>3, KeepingLabel DEF SameLabel
    <2> HIDE DEF updated
    <2> QED  BY <2>1, <2>4, UpdateDatepickerLabelled
  <1> QED  BY <1>2, <1>3

LEMMA SetTimeLabelled ==
    ASSUME NEW p, NEW t, IsPicker(p)
    PROVE  Labelled(SetTime(p, t))
  <1>1. PICK position, time :
           SetTime(p, t) = UpdateDateTime(OnTimeChange(
                             [p EXCEPT !.position = position, !.time = time]))
    BY DEF SetTime, IsPicker
  <1> DEFINE moved == [p EXCEPT !.position = position, !.time = time]
  <1>2. IsPicker(moved)
    BY DEF IsPicker
  <1> HIDE DEF moved
  <1>3. Labelled(OnTimeChange(moved))
    BY <1>2, OnTimeChangeLabelled
  <1>4. SameLabel(OnTimeChange(moved), UpdateDateTime(OnTimeChange(moved)))
    BY <1>3, KeepingLabel DEF Labelled
  <1> QED  BY <1>1, <1>3, <1>4, SameLabelled DEF moved

LEMMA DoKeyUpLabelled ==
    ASSUME NEW p, Labelled(p)
    PROVE  Labelled(DoKeyUp(p))
  <1> DEFINE differs(q) == ~q.lastValSet \/ q.input # q.lastVal
             first == IF options.timeOnly /\ differs(p)
                          THEN UpdateDatepicker(p) ELSE p
             dated == SetDateFromField(first)
             other == UpdateAlternate(dated)
  <1>1. Labelled(first)
    BY UpdateDatepickerLabelled DEF Labelled
  <1>2. DoKeyUp(p) \in {first, UpdateDatepicker(other)}
    BY DEF DoKeyUp
  <1> HIDE DEF first
  <1>3. IsPicker(dated)
    BY <1>1, KeepingLabel DEF SameLabel, Labelled
  <1> HIDE DEF dated
  <1>4. IsPicker(other)
    BY <1>3, KeepingLabel DEF SameLabel
  <1> HIDE DEF other
  <1> QED  BY <1>1, <1>2, <1>4, UpdateDatepickerLabelled

\* Fields the label does not depend on.
LEMMA OtherFieldsLabelled ==
    ASSUME NEW p, Labelled(p), NEW v
    PROVE  /\ Labelled([p EXCEPT !.showing = v])
           /\ Labelled([p EXCEPT !.input = v])
  <1>1. /\ SameLabel(p, [p EXCEPT !.showing = v])
        /\ SameLabel(p, [p EXCEPT !.input = v])
    BY DEF Labelled, SameLabel, IsPicker
  <1> QED  BY Zenon, <1>1, SameLabelled

\* Any change of fields leaves a picker.
LEMMA FieldsOfPicker ==
    ASSUME NEW p, IsPicker(p), NEW v, NEW w
    PROVE  /\ IsPicker([p EXCEPT !.position = v])
           /\ IsPicker([p EXCEPT !.input = v])
           /\ IsPicker([p EXCEPT !.selectedDay = v])
           /\ IsPicker([p EXCEPT !.sliders = v])
           /\ IsPicker([p EXCEPT !.showTimepicker = v])
           /\ IsPicker([p EXCEPT !.showing = v, !.lastValSet = w])
           /\ IsPicker([p EXCEPT !.selectedDay = v, !.currentDay = w])
  BY DEF IsPicker

LEMMA UserLabelled ==
    ASSUME Labelled(picker), User
    PROVE  Labelled(picker')
  <1>1. IsPicker(picker)
    BY DEF Labelled
  <1>2. CASE Show
    <2> DEFINE p == [picker EXCEPT !.showing = TRUE, !.lastValSet = FALSE]
    <2>1. picker' = UpdateDatepicker(SetDateFromField(p))
      BY <1>2 DEF Show, Step
    <2>2. IsPicker(p)
      BY <1>1 DEF IsPicker
    <2> HIDE DEF p
    <2>3. IsPicker(SetDateFromField(p))
      BY <2>2, KeepingLabel DEF SameLabel
    <2> QED  BY <2>1, <2>3, UpdateDatepickerLabelled
  <1>3. CASE Close
    <2> DEFINE p == [picker EXCEPT !.showing = FALSE]
    <2>1. picker' \in {p, UpdateDateTime(p)}
      BY <1>3 DEF Close, Step
    <2>2. Labelled(p)
      BY Zenon, OtherFieldsLabelled
    <2> HIDE DEF p
    <2> QED  BY <2>1, <2>2, KeepingLabel, SameLabelled DEF Labelled
  <1>4. CASE ClearDate
    BY <1>4, SelectDateLabelled DEF ClearDate, Step
  <1>5. CASE PressKey
    BY <1>5, DoKeyUpLabelled DEF PressKey, Step
  <1>6. CASE OtherPickerShows
    <2>1. picker' = [picker EXCEPT !.sliders = "removed"]
      BY <1>6 DEF OtherPickerShows, Step
    <2>2. IsPicker(picker') /\ picker'.sliders # "live"
      BY <1>1, <2>1 DEF IsPicker
    <2> QED  BY <2>2, NoSlidersLabelled
  <1>7. ASSUME NEW d \in Day, SelectDay(d)
        PROVE  Labelled(picker')
    <2> DEFINE p == [picker EXCEPT !.selectedDay = d, !.currentDay = d]
    <2>1. picker' = SelectDate(p, d)
      BY <1>7 DEF SelectDay, Step
    <2>2. SameLabel(picker, p)
      BY <1>1 DEF IsPicker, SameLabel
    <2> HIDE DEF p
    <2> QED  BY <2>1, <2>2, SameLabelled, SelectDateLabelled
  <1>8. ASSUME NEW d \in Day, AdjustDate(d)
        PROVE  Labelled(picker')
    <2> DEFINE p == [picker EXCEPT !.selectedDay = d]
    <2>1. picker' \in {UpdateDatepicker(p), UpdateDatepicker(UpdateDateTime(p))}
      BY <1>8 DEF AdjustDate, Step
    <2>2. IsPicker(p)
      BY Zenon, <1>1, FieldsOfPicker
    <2> HIDE DEF p
    <2>3. IsPicker(UpdateDateTime(p))
      BY <2>2, KeepingLabel DEF SameLabel
    <2> QED  BY <2>1, <2>2, <2>3, UpdateDatepickerLabelled
  <1>9. ASSUME NEW f \in Field, NEW v, Slide(f, v) \/ ClickGrid(f, v)
        PROVE  Labelled(picker')
    <2>1. PICK position :
             picker' = OnTimeChange([picker EXCEPT !.position = position])
      BY <1>1, <1>9 DEF Slide, ClickGrid, Step, IsPicker
    <2>2. IsPicker([picker EXCEPT !.position = position])
      BY Zenon, <1>1, FieldsOfPicker
    <2> QED  BY <2>1, <2>2, OnTimeChangeLabelled
  <1>10. ASSUME NEW text, Type(text)
         PROVE  Labelled(picker')
    <2> DEFINE p == [picker EXCEPT !.input = text]
    <2>1. picker' = DoKeyUp(p)
      BY <1>10 DEF Type, Step
    <2>2. Labelled(p)
      BY Zenon, OtherFieldsLabelled
    <2> HIDE DEF p
    <2> QED  BY <2>1, <2>2, DoKeyUpLabelled
  <1>11. ASSUME NEW now, GotoToday(now)
         PROVE  Labelled(picker')
    <2> DEFINE new   == [picker EXCEPT !.selectedDay = Today]
               today == UpdateDateTime(new)
               held  == [today EXCEPT !.selectedDay = RestrictMinMax(Today)]
               drawn == UpdateDatepicker(held)
    <2>1. picker' = SetTime(drawn, now)
      BY <1>11 DEF GotoToday, Step
    <2>2. IsPicker(new)
      BY Zenon, <1>1, FieldsOfPicker
    <2> HIDE DEF new
    <2>3. IsPicker(today)
      BY <2>2, KeepingLabel DEF SameLabel
    <2> HIDE DEF today
    <2>4. IsPicker(held)
      BY Zenon, <2>3, FieldsOfPicker
    <2> HIDE DEF held
    <2>5. IsPicker(drawn)
      BY <2>4, UpdateDatepickerLabelled DEF Labelled
    <2> HIDE DEF drawn
    <2> QED  BY <2>1, <2>5, SetTimeLabelled
  <1> QED  BY <1>2, <1>3, <1>4, <1>5, <1>6, <1>7, <1>8, <1>9, <1>10, <1>11
           DEF User

LEMMA SetDateLabelled ==
    ASSUME IsPicker(picker), NEW d, NEW t, CallSetDate(d, t)
    PROVE  Labelled(picker')
  <1> DEFINE date    == RestrictMinMax(IF d = NoDay THEN Today ELSE d)
             drawn   == UpdateDatepicker(picker)
             chosen  == [drawn EXCEPT !.selectedDay = date, !.currentDay = date]
             noticed == IF Month[drawn.selectedDay] # Month[date]
                            THEN UpdateDateTime(chosen) ELSE chosen
             text    == IF d = NoDay THEN Empty ELSE [day |-> date, time |-> NoTime]
             written == [noticed EXCEPT !.input = text]
             redrawn == UpdateDatepicker(written)
             dated   == UpdateAlternate(redrawn)
             read    == SetDateFromField(dated)
  <1>1. picker' = SetTime(read, t)
    BY Zenon DEF CallSetDate, Step
  <1>2. IsPicker(drawn)
    BY UpdateDatepickerLabelled DEF Labelled
  <1> HIDE DEF drawn, date
  <1>3. IsPicker(chosen)
    BY Zenon, <1>2, FieldsOfPicker
  <1> HIDE DEF chosen
  <1>4. IsPicker(noticed)
    BY <1>3, KeepingLabel DEF SameLabel
  <1> HIDE DEF noticed, text
  <1>5. IsPicker(written)
    BY Zenon, <1>4, FieldsOfPicker
  <1> HIDE DEF written
  <1>6. IsPicker(redrawn)
    BY <1>5, UpdateDatepickerLabelled DEF Labelled
  <1> HIDE DEF redrawn
  <1>7. IsPicker(dated)
    BY <1>6, KeepingLabel DEF SameLabel
  <1> HIDE DEF dated
  <1>8. IsPicker(read)
    BY <1>7, KeepingLabel DEF SameLabel
  <1> HIDE DEF read
  <1> QED  BY <1>1, <1>8, SetTimeLabelled

LEMMA ScriptLabelled ==
    ASSUME Labelled(picker), Script
    PROVE  Labelled(picker')
  <1>1. IsPicker(picker)
    BY DEF Labelled
  <1> DEFINE p == SetDateFromField(picker)
  <1>2. Labelled(p)
    BY <1>1, KeepingLabel, SameLabelled
  <1> HIDE DEF p
  <1>3. IsPicker(p)
    BY <1>2 DEF Labelled
  <1>4. ASSUME NEW shown, SwitchTimepicker(shown)
        PROVE  Labelled(picker')
    <2> DEFINE q == [picker EXCEPT !.showTimepicker = shown]
               r == OnTimeChange(q)
    <2>1. picker' = UpdateDateTime(r)
      BY <1>4 DEF SwitchTimepicker, Step
    <2>2. IsPicker(q)
      BY Zenon, <1>1, FieldsOfPicker
    <2> HIDE DEF q
    <2>3. Labelled(r)
      BY <2>2, OnTimeChangeLabelled
    <2> HIDE DEF r
    <2> QED  BY <2>1, <2>3, KeepingLabel, SameLabelled DEF Labelled
  <1>5. ASSUME NEW t, CallSetTime(t)
        PROVE  Labelled(picker')
    BY <1>3, <1>5, SetTimeLabelled DEF CallSetTime, Step, p
  <1>6. ASSUME NEW text, CallSetTimeText(text)
        PROVE  Labelled(picker')
    <2> DEFINE q == ParseTime(p, text, FALSE)
    <2>1. PICK t : picker' = SetTime(q, t)
      BY Zenon, <1>6 DEF CallSetTimeText, Step, p
    <2>2. SameLabel(p, q)
      BY Zenon, <1>3, KeepingLabel
    <2> HIDE DEF q
    <2> QED  BY <2>1, <2>2, SetTimeLabelled DEF SameLabel
  <1>7. CASE CallGetDate
    <2>1. picker' \in {p, ParseTime(p, p.input, TRUE)}
      BY <1>7 DEF CallGetDate, Step, p
    <2>2. SameLabel(p, ParseTime(p, p.input, TRUE))
      BY Zenon, <1>3, KeepingLabel
    <2>3. Labelled(ParseTime(p, p.input, TRUE))
      BY <1>2, <2>2, SameLabelled
    <2> QED  BY <1>2, <2>1, <2>3
  <1> QED  BY <1>1, <1>4, <1>5, <1>6, <1>7, SetDateLabelled DEF Script

LEMMA InitLabelled == Init => Labelled(picker)
  <1> SUFFICES ASSUME Init PROVE Labelled(picker)
    OBVIOUS
  <1>1. PICK text \in TypedText : picker = NewPicker(options, text)
    BY DEF Init
  <1>2. IsPicker(picker) /\ picker.sliders # "live"
    BY <1>1 DEF NewPicker, IsPicker
  <1> QED  BY <1>2, NoSlidersLabelled

LEMMA LabelledNext ==
    ASSUME UNCHANGED options, Labelled(picker')
    PROVE  Labelled(picker)'
  BY DEF Labelled, IsPicker, LabelTrue, SliderValue

(***************************************************************************)
(* The label, which is the text that will be written, says where the       *)
(* sliders stand, whatever the user and the scripts did before.            *)
(***************************************************************************)
THEOREM LabelTellsSliders == Spec => []LabelShowsSliders
  <1>1. Labelled(picker) /\ [Next]_vars => Labelled(picker)'
    <2> SUFFICES ASSUME Labelled(picker), [Next]_vars
                 PROVE  Labelled(picker)'
      OBVIOUS
    <2>1. UNCHANGED options
      BY OptionsStay
    <2>2. Labelled(picker')
      BY UserLabelled, ScriptLabelled DEF Next, vars
    <2> QED  BY <2>1, <2>2, LabelledNext
  <1>2. Labelled(picker) => LabelShowsSliders
    BY DEF Labelled, LabelTrue, LabelShowsSliders
  <1> QED  BY InitLabelled, <1>1, <1>2, PTL DEF Spec

-----------------------------------------------------------------------------
(***************************************************************************)
(* The numbers of the sliders.                                             *)
(***************************************************************************)
LEMMA Remainder ==
    ASSUME NEW a \in Nat, NEW n \in Nat, n > 0
    PROVE  /\ a % n \in Nat /\ a % n < n /\ a % n <= a
           /\ a < n => a % n = a
  OBVIOUS

\* The last position is not above the limit, and not below the step unless it
\* is zero.
LEMMA LastStepRange ==
    ASSUME NEW max \in 0 .. 59, NEW step \in Nat, step > 0
    PROVE  /\ LastStep(max, step) \in 0 .. max
           /\ step > max => LastStep(max, step) = 0
  BY Remainder DEF LastStep

\* A slider stands at a number below 100, unless its position is none.
LEMMA TrimAlignRange ==
    ASSUME NEW v \in Int, NEW min \in 0 .. 59, NEW max \in 0 .. 59,
           NEW step \in Nat, step > 0, step > 59 => max = 0
    PROVE  LET w == TrimAlign(v, min, max, step)
           IN  /\ w \in NaN .. 99
               /\ w = NaN <=> v = NaN
  <1> DEFINE rest == (v - min) % step
  <1>1. CASE v = NaN \/ v <= min \/ v >= max
    BY <1>1 DEF TrimAlign, NaN
  <1>2. CASE v # NaN /\ v > min /\ v < max
    <2>1. rest \in Nat /\ rest < step /\ rest <= v - min
      BY <1>2, Remainder
    <2>2. step <= 59
      BY <1>2
    <2> HIDE DEF rest
    <2>3. /\ 2 * rest >= step => v - rest + step \in min .. 99
          /\ v - rest \in min .. 99
      BY <1>2, <2>1, <2>2
    <2>4. TrimAlign(v, min, max, step) =
            IF 2 * rest >= step THEN v - rest + step ELSE v - rest
      BY <1>2 DEF TrimAlign, rest
    <2> QED  BY <1>2, <2>3, <2>4 DEF NaN
  <1> QED  BY <1>1, <1>2

LEMMA Numbers ==
    /\ \A n \in Number : n \in Int /\ n <= 111 /\ (n # NaN => n \in Nat)
    /\ NaN \in Number /\ NaN <= 99
    /\ \A n \in Nat : n <= 111 => n \in Number
    /\ \A n \in 0 .. 12 : n \in Number /\ n <= 99
    /\ \A n \in Number : n # NaN => n % 12 \in 0 .. 11
  BY DEF Number, NaN

LEMMA ClockFields ==
    ASSUME NEW t \in TimeOfDay
    PROVE  /\ t \in [Field -> Number] /\ t # NoTimes
           /\ t.hour <= 23
           /\ \A f \in Field : t[f] \in 0 .. 59
  <1>1. DOMAIN t = Field /\ t = [f \in Field |-> t[f]]
    BY DEF TimeOfDay, Field
  <1>2. t.hour \in 0 .. 23 /\ t.minute \in 0 .. 59 /\ t.second \in 0 .. 59
    BY DEF TimeOfDay
  <1>3. \A f \in Field : t[f] \in 0 .. 59
    BY <1>2 DEF Field
  <1>4. t \in [Field -> Number]
    BY <1>1, <1>3 DEF Number, NaN
  <1>5. t["hour"] # NoTimes["hour"]
    BY <1>2 DEF NoTimes, Field, NaN
  <1> QED  BY <1>2, <1>3, <1>4, <1>5

-----------------------------------------------------------------------------
(***************************************************************************)
(* The types.  What a field of the time can be is closed under printing    *)
(* and reading only with what relates them: an hour above 99 is printed    *)
(* only with a half of the day that is not read as twelve hours more.      *)
(***************************************************************************)
OptionsFit ==
    /\ {options.min, options.max, options.time} \subseteq TimeOfDay
    /\ \A bound \in {options.minDateTime, options.maxDateTime} :
         bound.day # NoDay => bound.day \in Day /\ bound.time \in TimeOfDay
    /\ \A f \in Field : options.step[f] \in Nat \ {0}
    /\ options.showTimepicker \in BOOLEAN
    /\ \A text \in TypedText :
         text.time # NoTime => DOMAIN text.time.clock = Shown(options.timeFormat)

NoHalfShown == FormatPosition(options.timeFormat, "half") = 0

PrintOK(time) ==
    time # NoTime =>
        /\ DOMAIN time.clock = Shown(options.timeFormat)
        /\ \A f \in DOMAIN time.clock : time.clock[f] \in Number
        /\ time.half \in {"", "AM", "PM"}
        /\ "hour" \in DOMAIN time.clock /\ (time.half = "PM" \/ NoHalfShown)
             => time.clock["hour"] <= 99

TextOK(text) ==
    /\ text = [day |-> text.day, time |-> text.time]
    /\ text.day \in {NoDay} \cup 0 .. LastDay
    /\ PrintOK(text.time)

Typed(p) ==
    /\ IsPicker(p)
    /\ TextOK(p.input) /\ TextOK(p.alt) /\ TextOK(p.lastVal)
    /\ PrintOK(p.formattedTime)
    /\ p.selectedDay \in 0 .. LastDay /\ p.currentDay \in {NoDay} \cup 0 .. LastDay
    /\ p.time \in [Field -> Number] /\ p.position \in [Field -> Number]
    /\ p.ampm \in {"", "AM", "PM"}
    /\ p.min \in TimeOfDay /\ p.max \in TimeOfDay
    /\ p.minOriginal \in TimeOfDay \cup {NoTimes}
    /\ p.maxOriginal \in TimeOfDay \cup {NoTimes}
    /\ p.sliders \in {"none", "live", "removed"}
    /\ p.showing \in BOOLEAN /\ p.lastValSet \in BOOLEAN
    /\ p.timeDefined \in BOOLEAN /\ p.showTimepicker \in BOOLEAN
    /\ NoHalfShown /\ p.sliders = "none" => p.ampm # "PM" /\ p.time["hour"] <= 99

\* From p to q the types are kept, and neither a time nor a place is lost.
Spares(p, q) == Typed(q) /\ (Kept(p) => Kept(q))

LEMMA SparesOn ==
    ASSUME NEW p, NEW q, NEW r, Spares(p, q), Spares(q, r)
    PROVE  Spares(p, r)
  BY DEF Spares

\* A slider in the page, wherever it was put.
LEMMA SliderPlace ==
    ASSUME OptionsFit, NEW p, p.sliders = "live",
           p.min \in TimeOfDay, p.max \in TimeOfDay,
           NEW f \in Field, p.position[f] \in Int
    PROVE  /\ SliderValue(p, f) \in NaN .. 99
           /\ SliderValue(p, f) = NaN <=> p.position[f] = NaN
  <1> DEFINE step == options.step[f]
             last == LastStep(p.max[f], step)
             w    == TrimAlign(p.position[f], p.min[f], last, step)
  <1>1. p.min[f] \in 0 .. 59 /\ p.max[f] \in 0 .. 59
    BY ClockFields
  <1>2. step \in Nat /\ step > 0
    BY DEF OptionsFit
  <1>3. SliderValue(p, f) = w
    BY DEF SliderValue
  <1> HIDE DEF step
  <1>4. last \in 0 .. 59 /\ (step > 59 => last = 0)
    <2>1. last \in 0 .. p.max[f] /\ (step > p.max[f] => last = 0)
      BY <1>1, <1>2, LastStepRange
    <2> HIDE DEF last
    <2> QED  BY <1>1, <1>2, <2>1
  <1> HIDE DEF last
  <1>5. w \in NaN .. 99 /\ (w = NaN <=> p.position[f] = NaN)
    BY <1>1, <1>2, <1>4, TrimAlignRange
  <1> QED  BY <1>3, <1>5

LEMMA SliderValueRange ==
    ASSUME OptionsFit, NEW p, Typed(p), NEW f \in Field
    PROVE  /\ SliderValue(p, f) \in NaN .. 99
           /\ p.sliders = "live" /\ p.position[f] # NaN => SliderValue(p, f) # NaN
  <1>1. CASE p.sliders # "live"
    BY <1>1 DEF SliderValue, NaN
  <1>2. CASE p.sliders = "live"
    <2>1. p.position[f] \in Int
      BY Numbers DEF Typed
    <2> QED  BY <1>2, <2>1, SliderPlace DEF Typed
  <1> QED  BY <1>1, <1>2

\* An hour is printed as it is, if it is not one of the afternoon, or as one of
\* twelve.
LEMMA Hour12Range ==
    ASSUME NEW hour \in Number, NEW half
    PROVE  \/ Hour12(hour, half) = hour /\ (half # "PM" \/ hour = NaN)
           \/ Hour12(hour, half) \in 0 .. 12
  <1>1. hour \in Int /\ (hour # NaN => hour % 12 \in 0 .. 11)
    BY Numbers
  <1>2. CASE half = "AM" \/ hour = NaN
    <2>1. Hour12(hour, half) = IF hour = 0 THEN 12 ELSE hour
      BY <1>2 DEF Hour12
    <2> QED  BY <1>1, <1>2, <2>1
  <1>3. CASE half # "AM" /\ hour # NaN
    <2>1. Hour12(hour, half) = IF hour % 12 = 0 THEN 12 ELSE hour % 12
      BY <1>3 DEF Hour12
    <2> QED  BY <1>1, <1>3, <2>1
  <1> QED  BY <1>2, <1>3

LEMMA FormatTimeOK ==
    ASSUME NEW time \in [Field -> Number], NEW half \in {"", "AM", "PM"},
           NoHalfShown => time["hour"] <= 99
    PROVE  PrintOK(FormatTime(time, half, options.timeFormat, options.ampm))
  <1> DEFINE printed == FormatTime(time, half, options.timeFormat, options.ampm)
             hour12  == Hour12(time["hour"], half)
  <1>1. /\ hour12 \in Number
        /\ half = "PM" \/ NoHalfShown => hour12 <= 99
    <2>1. time["hour"] \in Number
      BY DEF Field
    <2>2. \/ hour12 = time["hour"] /\ (half # "PM" \/ time["hour"] = NaN)
          \/ hour12 \in 0 .. 12
      BY <2>1, Hour12Range
    <2> HIDE DEF hour12
    <2>3. CASE hour12 \in 0 .. 12
      BY <2>3, Numbers
    <2>4. CASE hour12 = time["hour"] /\ (half # "PM" \/ time["hour"] = NaN)
      <3>1. half = "PM" \/ NoHalfShown => hour12 <= 99
        BY Zenon, <2>4, Numbers
      <3> QED  BY <2>1, <2>4, <3>1
    <2> QED  BY <2>2, <2>3, <2>4
  <1>2. /\ DOMAIN printed.clock = Shown(options.timeFormat)
        /\ \A f \in DOMAIN printed.clock :
             printed.clock[f] = IF f = "hour" /\ options.ampm THEN hour12 ELSE time[f]
        /\ printed.half = IF options.ampm /\ ~NoHalfShown THEN half ELSE ""
    BY DEF FormatTime, NoHalfShown
  <1>3. Shown(options.timeFormat) \subseteq Field
    BY DEF Shown
  <1> HIDE DEF printed, hour12
  <1>4. \A f \in DOMAIN printed.clock : printed.clock[f] \in Number
    BY <1>1, <1>2, <1>3
  <1>5. printed.half \in {"", "AM", "PM"}
    BY <1>2
  <1>6. ASSUME "hour" \in DOMAIN printed.clock, printed.half = "PM" \/ NoHalfShown
        PROVE  printed.clock["hour"] <= 99
    BY <1>1, <1>2, <1>6
  <1> QED  BY <1>2, <1>4, <1>5, <1>6 DEF PrintOK, printed

LEMMA ReadTimeOK ==
    ASSUME NEW text, TextOK(text), text.time # NoTime,
           NEW time \in [Field -> Number], NEW half,
           half = "PM" => text.time.half = "PM" \/ NoHalfShown
    PROVE  LET read == ReadTime(time, text, half)
           IN  /\ read \in [Field -> Number]
               /\ NoHalfShown /\ half # "PM" /\ time["hour"] <= 99
                    => read["hour"] <= 99
               /\ \A f \in Field :
                    /\ time[f] # NaN
                    /\ \A g \in DOMAIN text.time.clock : text.time.clock[g] # NaN
                    => read[f] # NaN
  <1> DEFINE clock == text.time.clock
             read  == ReadTime(time, text, half)
  <1>1. /\ \A f \in DOMAIN clock : clock[f] \in Number
        /\ "hour" \in DOMAIN clock /\ (half = "PM" \/ NoHalfShown)
             => clock["hour"] <= 99
    BY DEF TextOK, PrintOK
  <1>2. ASSUME "hour" \in DOMAIN clock
        PROVE  /\ HourRead(clock["hour"], half) \in Number
               /\ NoHalfShown /\ half # "PM" => HourRead(clock["hour"], half) <= 99
               /\ clock["hour"] # NaN => HourRead(clock["hour"], half) # NaN
    BY <1>1, <1>2 DEF HourRead, Number, NaN
  <1>3. /\ read = [f \in Field |-> read[f]]
        /\ \A f \in Field :
             read[f] = IF f \notin DOMAIN clock THEN time[f]
                       ELSE IF f = "hour" THEN HourRead(clock["hour"], half)
                       ELSE clock[f]
    BY DEF ReadTime
  <1>4. "hour" \in Field
    BY DEF Field
  <1> HIDE DEF read, clock
  <1>5. \A f \in Field : read[f] \in Number
    BY <1>1, <1>2, <1>3
  <1>6. read \in [Field -> Number]
    BY <1>3, <1>5
  <1>7. NoHalfShown /\ half # "PM" /\ time["hour"] <= 99 => read["hour"] <= 99
    BY <1>1, <1>2, <1>3, <1>4
  <1>8. ASSUME NEW f \in Field, time[f] # NaN, \A g \in DOMAIN clock : clock[g] # NaN
        PROVE  read[f] # NaN
    BY <1>2, <1>3, <1>8
  <1> QED  BY <1>6, <1>7, <1>8 DEF read, clock

-----------------------------------------------------------------------------
(***************************************************************************)
(* The functions of the add-on.                                            *)
(***************************************************************************)
LEMMA WrittenOK ==
    /\ \A d \in {NoDay} \cup 0 .. LastDay :
         \A t : PrintOK(t) => TextOK([day |-> d, time |-> t])
    /\ PrintOK(NoTime) /\ TextOK(Empty)
  <1>1. PrintOK(NoTime)
    BY DEF PrintOK
  <1>2. ASSUME NEW d \in {NoDay} \cup 0 .. LastDay, NEW t, PrintOK(t)
        PROVE  TextOK([day |-> d, time |-> t])
    BY <1>2 DEF TextOK
  <1> QED  BY <1>1, <1>2 DEF Empty

\* Changes of a few fields that keep the types.
LEMMA FieldsWritten ==
    ASSUME NEW p, Typed(p)
    PROVE  /\ \A v : TextOK(v) => Spares(p, [p EXCEPT !.input = v])
           /\ \A v, w : TextOK(v) /\ TextOK(w)
                => Spares(p, [p EXCEPT !.input = v, !.alt = w])
           /\ \A v : TextOK(v) => Spares(p, [p EXCEPT !.alt = v])
           /\ \A v \in BOOLEAN : Spares(p, [p EXCEPT !.timeDefined = v])
           /\ \A v \in BOOLEAN : Spares(p, [p EXCEPT !.showing = v])
           /\ \A v \in BOOLEAN : Spares(p, [p EXCEPT !.showTimepicker = v])
           /\ \A v, w \in BOOLEAN :
                Spares(p, [p EXCEPT !.showing = v, !.lastValSet = w])
           /\ \A v \in 0 .. LastDay : Spares(p, [p EXCEPT !.selectedDay = v])
           /\ \A v \in 0 .. LastDay :
                Spares(p, [p EXCEPT !.selectedDay = v, !.currentDay = v])
  <1>1. ASSUME NEW v, TextOK(v)
        PROVE  Spares(p, [p EXCEPT !.input = v]) /\ Spares(p, [p EXCEPT !.alt = v])
    BY <1>1 DEF Spares, Typed, IsPicker, Kept, Lost, LostOnSliders
  <1>2. ASSUME NEW v, NEW w, TextOK(v), TextOK(w)
        PROVE  Spares(p, [p EXCEPT !.input = v, !.alt = w])
    BY <1>2 DEF Spares, Typed, IsPicker, Kept, Lost, LostOnSliders
  <1>3. ASSUME NEW v \in BOOLEAN
        PROVE  /\ Spares(p, [p EXCEPT !.timeDefined = v])
               /\ Spares(p, [p EXCEPT !.showing = v])
               /\ Spares(p, [p EXCEPT !.showTimepicker = v])
    BY DEF Spares, Typed, IsPicker, Kept, Lost, LostOnSliders
  <1>4. ASSUME NEW v \in BOOLEAN, NEW w \in BOOLEAN
        PROVE  Spares(p, [p EXCEPT !.showing = v, !.lastValSet = w])
    BY DEF Spares, Typed, IsPicker, Kept, Lost, LostOnSliders
  <1>5. ASSUME NEW v \in 0 .. LastDay
        PROVE  /\ Spares(p, [p EXCEPT !.selectedDay = v])
               /\ Spares(p, [p EXCEPT !.selectedDay = v, !.currentDay = v])
    BY DEF Spares, Typed, IsPicker, Kept, Lost, LostOnSliders
  <1> QED  BY <1>1, <1>2, <1>3, <1>4, <1>5

LEMMA UpdateDateTimeSpares ==
    ASSUME NEW p, Typed(p)
    PROVE  Spares(p, UpdateDateTime(p))
  <1> DEFINE timed == options.alwaysSetTime \/ p.timeDefined
             date  == [day |-> p.selectedDay, time |-> NoTime]
             text  == [day  |-> IF options.timeOnly THEN NoDay ELSE p.selectedDay,
                       time |-> IF options.timeOnly \/ timed
                                    THEN p.formattedTime ELSE NoTime]
             other == IF AltTimeOnly THEN [day |-> NoDay, time |-> p.formattedTime]
                                     ELSE text
             input == IF p.showTimepicker /\ ~AltTimeOnly THEN text ELSE date
             alt   == IF p.showTimepicker /\ options.altField THEN other ELSE p.alt
  <1>1. TextOK(date) /\ TextOK(text) /\ TextOK([day |-> NoDay, time |-> p.formattedTime])
    BY WrittenOK DEF Typed
  <1> HIDE DEF date, text
  <1>2. TextOK(input) /\ TextOK(alt)
    BY <1>1 DEF Typed
  <1>3. UpdateDateTime(p) \in {p, [p EXCEPT !.input = input, !.alt = alt]}
    BY DEF UpdateDateTime, Typed, IsPicker, text, date
  <1> HIDE DEF input, alt
  <1>4. Spares(p, [p EXCEPT !.input = input, !.alt = alt])
    BY Zenon, <1>2, FieldsWritten
  <1>5. Spares(p, p)
    BY DEF Spares
  <1> QED  BY <1>3, <1>4, <1>5

\* Only sliders that are out of the page lose the time.
LEMMA OnTimeChangeSpares ==
    ASSUME OptionsFit, NEW p, Typed(p)
    PROVE  /\ Typed(OnTimeChange(p))
           /\ p.sliders # "removed" => Spares(p, OnTimeChange(p))
           /\ OnTimeChange(p).sliders = p.sliders
  <1> DEFINE none    == p.sliders = "none"
             read    == [f \in Field |-> SliderValue(p, f)]
             half    == IF none THEN "AM" ELSE Half(read.hour)
             moved   == [p EXCEPT !.time = IF none THEN @ ELSE read,
                                  !.ampm = IF options.ampm THEN half ELSE @]
             text    == FormatTime(moved.time, moved.ampm,
                                   options.timeFormat, options.ampm)
             after   == [moved EXCEPT !.formattedTime = text, !.timeDefined = TRUE]
  <1>1. OnTimeChange(p) \in {after, UpdateDateTime(after)}
    BY DEF OnTimeChange
  <1>2. /\ read \in [Field -> Number]
        /\ read["hour"] <= 99
        /\ p.sliders = "live" /\ ~LostOnSliders(p) => \A f \in Field : read[f] # NaN
    <2>1. \A n \in NaN .. 99 : n \in Number /\ n <= 99
      BY DEF Number, NaN
    <2>2. \A f \in Field : read[f] \in NaN .. 99
      BY SliderValueRange
    <2>3. "hour" \in Field
      BY DEF Field
    <2>4. p.sliders = "live" /\ ~LostOnSliders(p) => \A f \in Field : read[f] # NaN
      BY SliderValueRange DEF LostOnSliders
    <2> HIDE DEF read
    <2>5. read = [f \in Field |-> read[f]]
      BY DEF read
    <2> QED  BY <2>1, <2>2, <2>3, <2>4, <2>5
  <1>3. half \in {"AM", "PM"} /\ (none => half = "AM")
    BY DEF Half
  <1> HIDE DEF read, half
  <1>4. /\ moved.time = IF none THEN p.time ELSE read
        /\ moved.ampm = IF options.ampm THEN half ELSE p.ampm
        /\ moved.sliders = p.sliders /\ moved.position = p.position
    BY DEF Typed, IsPicker
  <1>5. Typed(moved)
    <2>1. /\ moved.time \in [Field -> Number] /\ moved.ampm \in {"", "AM", "PM"}
          /\ NoHalfShown /\ moved.sliders = "none"
               => moved.ampm # "PM" /\ moved.time["hour"] <= 99
      BY <1>2, <1>3, <1>4 DEF Typed
    <2> QED  BY <2>1 DEF Typed, IsPicker
  <1>6. p.sliders # "removed" => (Kept(p) => Kept(moved))
    BY <1>2, <1>4 DEF Kept, Lost, LostOnSliders, Typed
  <1> HIDE DEF moved
  <1>7. PrintOK(text)
    <2>1. NoHalfShown => moved.time["hour"] <= 99
      BY <1>2, <1>4 DEF Typed
    <2> QED  BY <1>5, <2>1, FormatTimeOK DEF Typed
  <1> HIDE DEF text
  <1>8. Spares(moved, after) /\ after.sliders = p.sliders
    BY <1>4, <1>5, <1>7 DEF Spares, Typed, IsPicker, Kept, Lost, LostOnSliders
  <1> HIDE DEF after
  <1>9. Spares(after, UpdateDateTime(after))
    BY <1>8, UpdateDateTimeSpares DEF Spares
  <1>10. UpdateDateTime(after).sliders = p.sliders
    BY <1>8, KeepingLabel DEF SameLabel, Spares, Typed
  <1> QED  BY <1>1, <1>5, <1>6, <1>8, <1>9, <1>10 DEF Spares

LEMMA ParseTimeSpares ==
    ASSUME NEW p, Typed(p), NEW text, TextOK(text), NEW withDate
    PROVE  Spares(p, ParseTime(p, text, withDate))
  <1> DEFINE half == IF ~NoHalfShown THEN text.time.half ELSE p.ampm
             read == ReadTime(p.time, text, half)
             q    == [p EXCEPT !.ampm = half, !.time = read]
  <1>1. CASE ~Matches(text, withDate)
    BY <1>1 DEF ParseTime, Spares
  <1>2. CASE Matches(text, withDate)
    <2>1. ParseTime(p, text, withDate) = q
      BY <1>2 DEF ParseTime, Typed, IsPicker, NoHalfShown
    <2>2. /\ text.time # NoTime
          /\ \A g \in DOMAIN text.time.clock : text.time.clock[g] # NaN
      BY <1>2 DEF Matches, Readable
    <2>3. /\ half \in {"", "AM", "PM"}
          /\ half = "PM" => text.time.half = "PM" \/ NoHalfShown
          /\ NoHalfShown => half = p.ampm
      BY <2>2 DEF TextOK, PrintOK, Typed
    <2> HIDE DEF half
    <2>4. /\ read \in [Field -> Number]
          /\ NoHalfShown /\ half # "PM" /\ p.time["hour"] <= 99 => read["hour"] <= 99
          /\ \A f \in Field : p.time[f] # NaN => read[f] # NaN
      BY <2>2, <2>3, ReadTimeOK DEF Typed
    <2> HIDE DEF read
    <2>5. Typed(q)
      BY <2>3, <2>4 DEF Typed, IsPicker
    <2>6. Kept(p) => Kept(q)
      BY <2>4 DEF Kept, Lost, LostOnSliders, Typed, IsPicker
    <2> QED  BY <2>1, <2>5, <2>6 DEF Spares
  <1> QED  BY <1>1, <1>2

\* A limit, with a time that is taken from it where it was beyond it.
LEMMA LimitSpares ==
    ASSUME NEW p, Typed(p), NEW o \in TimeOfDay, NEW time,
           time = [f \in Field |-> time[f]],
           \A f \in Field : time[f] \in {o[f], p.time[f]},
           NEW limit \in TimeOfDay, NEW original \in TimeOfDay
    PROVE  /\ Spares(p, [p EXCEPT !.minOriginal = original, !.min = limit, !.time = time])
           /\ Spares(p, [p EXCEPT !.maxOriginal = original, !.max = limit, !.time = time])
  <1>1. o \in [Field -> Number] /\ o["hour"] <= 99 /\ \A f \in Field : o[f] # NaN
    <2>1. \A n \in 0 .. 59 : n # NaN /\ n <= 99
      BY DEF NaN
    <2>2. "hour" \in Field
      BY DEF Field
    <2> QED  BY <2>1, <2>2, ClockFields
  <1>2. "hour" \in Field
    BY DEF Field
  <1>3. time \in [Field -> Number]
    BY <1>1 DEF Typed
  <1>4. p.time["hour"] <= 99 => time["hour"] <= 99
    BY <1>1, <1>2
  <1>5. ~Lost(p) => \A f \in Field : time[f] # NaN
    BY <1>1 DEF Lost
  <1> DEFINE q == [p EXCEPT !.minOriginal = original, !.min = limit, !.time = time]
             r == [p EXCEPT !.maxOriginal = original, !.max = limit, !.time = time]
  <1>6. Typed(q) /\ Typed(r)
    BY <1>3, <1>4 DEF Typed, IsPicker
  <1>7. (Kept(p) => Kept(q)) /\ (Kept(p) => Kept(r))
    BY <1>5 DEF Typed, IsPicker, Kept, Lost, LostOnSliders
  <1> QED  BY <1>6, <1>7 DEF Spares

LEMMA LimitMinSpares ==
    ASSUME OptionsFit, NEW p, Typed(p)
    PROVE  Spares(p, LimitMin(p))
  <1>1. CASE options.minDateTime.day = NoDay
    BY <1>1 DEF LimitMin, Spares
  <1>2. CASE options.minDateTime.day # NoDay
    <2> DEFINE o == options.minDateTime.time
               raised   == [f \in Field |->
                              IF Below(p.time[f], o[f]) THEN o[f] ELSE p.time[f]]
               original == IF p.minOriginal = NoTimes THEN p.min ELSE p.minOriginal
               first    == Narrowed(options.minDateTime, p)
               min      == IF first THEN o ELSE original
               time     == IF first THEN raised ELSE p.time
    <2>1. LimitMin(p) = [p EXCEPT !.minOriginal = original, !.min = min, !.time = time]
      BY <1>2 DEF LimitMin, Typed, IsPicker
    <2>2. o \in TimeOfDay
      BY <1>2 DEF OptionsFit
    <2> HIDE DEF o
    <2>3. original \in TimeOfDay /\ min \in TimeOfDay
      BY <2>2 DEF Typed
    <2>4. time = [f \in Field |-> time[f]] /\ \A f \in Field : time[f] \in {o[f], p.time[f]}
      BY DEF Typed
    <2> HIDE DEF original, min, first, time, raised
    <2>5. Spares(p, [p EXCEPT !.minOriginal = original, !.min = min, !.time = time])
      BY Zenon, <2>2, <2>3, <2>4, LimitSpares
    <2> QED  BY <2>1, <2>5
  <1> QED  BY <1>1, <1>2

LEMMA LimitMaxSpares ==
    ASSUME OptionsFit, NEW p, Typed(p)
    PROVE  Spares(p, LimitMax(p))
  <1>1. CASE options.maxDateTime.day = NoDay
    BY <1>1 DEF LimitMax, Spares
  <1>2. CASE options.maxDateTime.day # NoDay
    <2> DEFINE o == options.maxDateTime.time
               lowered  == [f \in Field |->
                              IF Below(o[f], p.time[f]) THEN o[f] ELSE p.time[f]]
               original == IF p.maxOriginal = NoTimes THEN p.max ELSE p.maxOriginal
               last     == Narrowed(options.maxDateTime, p)
               max      == IF last THEN o ELSE original
               time     == IF last THEN lowered ELSE p.time
    <2>1. LimitMax(p) = [p EXCEPT !.maxOriginal = original, !.max = max, !.time = time]
      BY <1>2 DEF LimitMax, Typed, IsPicker
    <2>2. o \in TimeOfDay
      BY <1>2 DEF OptionsFit
    <2> HIDE DEF o
    <2>3. original \in TimeOfDay /\ max \in TimeOfDay
      BY <2>2 DEF Typed
    <2>4. time = [f \in Field |-> time[f]] /\ \A f \in Field : time[f] \in {o[f], p.time[f]}
      BY DEF Typed
    <2> HIDE DEF original, max, last, time, lowered
    <2>5. Spares(p, [p EXCEPT !.maxOriginal = original, !.max = max, !.time = time])
      BY Zenon, <2>2, <2>3, <2>4, LimitSpares
    <2> QED  BY <2>1, <2>5
  <1> QED  BY <1>1, <1>2

LEMMA LimitsSpare ==
    ASSUME OptionsFit, NEW p, Typed(p)
    PROVE  Spares(p, LimitMinMaxDateTime(p))
  <1> DEFINE q == LimitMin(p)
  <1>1. Spares(p, q)
    BY LimitMinSpares
  <1> HIDE DEF q
  <1>2. Spares(q, LimitMax(q))
    BY <1>1, LimitMaxSpares DEF Spares
  <1> QED  BY <1>1, <1>2, SparesOn DEF LimitMinMaxDateTime, q

\* New sliders are where the time is.
LEMMA InjectTimePickerSpares ==
    ASSUME OptionsFit, NEW p, Typed(p), p.sliders # "live"
    PROVE  Spares(p, InjectTimePicker(p))
  <1>1. CASE ~p.showTimepicker
    BY <1>1 DEF InjectTimePicker, Spares
  <1>2. CASE p.showTimepicker
    <2> DEFINE placed == [p EXCEPT !.sliders = "live", !.position = p.time]
               moved  == OnTimeChange(placed)
               done   == [moved EXCEPT !.timeDefined = placed.timeDefined]
    <2>1. InjectTimePicker(p) = done
      BY <1>2 DEF InjectTimePicker, PlaceTimePicker
    <2>2. Typed(placed) /\ placed.sliders = "live"
      BY DEF Typed, IsPicker
    <2>3. Kept(p) => Kept(placed)
      BY DEF Typed, IsPicker, Kept, Lost, LostOnSliders
    <2> HIDE DEF placed
    <2>4. Spares(placed, moved)
      BY <2>2, OnTimeChangeSpares
    <2> HIDE DEF moved
    <2>5. Spares(moved, done)
      <3>1. placed.timeDefined \in BOOLEAN /\ Typed(moved)
        BY <2>2, <2>4 DEF Typed, Spares
      <3> QED  BY <3>1, FieldsWritten
    <2> HIDE DEF done
    <2> QED  BY <2>1, <2>2, <2>3, <2>4, <2>5 DEF Spares
  <1> QED  BY <1>1, <1>2

LEMMA UpdateDatepickerSpares ==
    ASSUME OptionsFit, NEW p, Typed(p)
    PROVE  Spares(p, UpdateDatepicker(p))
  <1> DEFINE cut     == [p EXCEPT !.sliders = IF @ = "none" THEN @ ELSE "removed"]
             text    == IF AltTimeOnly /\ cut.alt # Empty
                            THEN [cut.input EXCEPT !.time = cut.alt.time]
                            ELSE cut.input
             parsed  == ParseTime(cut, text, FALSE)
             timed   == Matches(text, FALSE)
             read    == [parsed EXCEPT !.timeDefined = timed]
             limited == LimitMinMaxDateTime(read)
  <1>1. UpdateDatepicker(p) = InjectTimePicker(limited)
    BY Zenon DEF UpdateDatepicker, AddTimePicker
  <1>2. Spares(p, cut) /\ cut.sliders # "live"
    BY DEF Spares, Typed, IsPicker, Kept, Lost, LostOnSliders
  <1>3. IsPicker(cut) /\ TextOK(cut.input) /\ TextOK(cut.alt)
    BY <1>2 DEF Spares, Typed
  <1> HIDE DEF cut
  <1>4. TextOK(text)
    <2>1. CASE text = cut.input
      BY <1>3, <2>1
    <2>2. CASE text = [cut.input EXCEPT !.time = cut.alt.time]
      <3>1. text = [day |-> cut.input.day, time |-> cut.alt.time]
        BY <1>3, <2>2 DEF TextOK
      <3> QED  BY <1>3, <3>1, WrittenOK DEF TextOK
    <2> QED  BY <2>1, <2>2
  <1> HIDE DEF text
  <1>5. Spares(cut, parsed) /\ parsed.sliders = cut.sliders
    <2>1. Spares(cut, parsed)
      BY Zenon, <1>2, <1>4, ParseTimeSpares DEF Spares
    <2>2. SameLabel(cut, parsed)
      BY Zenon, <1>3, KeepingLabel
    <2> QED  BY <2>1, <2>2 DEF SameLabel
  <1>6. timed \in BOOLEAN
    BY DEF Matches, Readable
  <1> HIDE DEF parsed, timed
  <1>7. Spares(parsed, read) /\ read.sliders = parsed.sliders
    <2>1. Spares(parsed, read)
      BY <1>5, <1>6, FieldsWritten DEF Spares
    <2>2. IsPicker(parsed)
      BY <1>5 DEF Spares, Typed
    <2> QED  BY <2>1, <2>2 DEF IsPicker
  <1> HIDE DEF read
  <1>8. Spares(read, limited) /\ limited.sliders = read.sliders
    BY <1>7, LimitsSpare, LimitsKeepSliders DEF Spares, Typed
  <1> HIDE DEF limited
  <1>9. Spares(limited, InjectTimePicker(limited))
    BY <1>2, <1>5, <1>7, <1>8, InjectTimePickerSpares DEF Spares
  <1> QED  BY <1>1, <1>2, <1>5, <1>7, <1>8, <1>9 DEF Spares

LEMMA DaysFit ==
    ASSUME OptionsFit
    PROVE  /\ Today \in 0 .. LastDay /\ Day \subseteq 0 .. LastDay
           /\ \A d \in 0 .. LastDay : RestrictMinMax(d) \in 0 .. LastDay
  <1>1. Day \subseteq 0 .. LastDay /\ Today \in 0 .. LastDay
    BY TimePickerAssumption DEF Day
  <1>2. ASSUME NEW d \in 0 .. LastDay
        PROVE  RestrictMinMax(d) \in 0 .. LastDay
    <2> DEFINE lo     == options.minDateTime.day
               hi     == options.maxDateTime.day
               raised == IF lo # NoDay /\ d < lo THEN lo ELSE d
    <2>1. /\ lo # NoDay => lo \in 0 .. LastDay
          /\ hi # NoDay => hi \in 0 .. LastDay
      BY <1>1 DEF OptionsFit
    <2>2. RestrictMinMax(d) = IF hi # NoDay /\ raised > hi THEN hi ELSE raised
      BY DEF RestrictMinMax
    <2> HIDE DEF lo, hi
    <2> QED  BY <2>1, <2>2
  <1> QED  BY <1>1, <1>2

LEMMA SetDateFromFieldSpares ==
    ASSUME OptionsFit, NEW p, Typed(p)
    PROVE  Spares(p, SetDateFromField(p))
  <1> DEFINE date    == IF p.input.day = NoDay THEN RestrictMinMax(Today) ELSE p.input.day
             current == IF p.input = Empty THEN NoDay ELSE date
             day     == RestrictMinMax(date)
             q       == [p EXCEPT !.lastValSet = TRUE, !.lastVal = p.input,
                                  !.currentDay = current, !.selectedDay = day]
  <1>1. SetDateFromField(p) \in {p, q}
    BY DEF SetDateFromField
  <1>2. date \in 0 .. LastDay
    <2>1. p.input.day \in {NoDay} \cup 0 .. LastDay
      BY DEF Typed, TextOK
    <2> QED  BY <2>1, DaysFit
  <1>3. day \in 0 .. LastDay
    BY <1>2, DaysFit
  <1>4. current \in {NoDay} \cup 0 .. LastDay
    BY <1>2
  <1> HIDE DEF date, day, current
  <1>5. Typed(q)
    BY <1>3, <1>4 DEF Typed, IsPicker
  <1>6. Kept(p) => Kept(q)
    BY DEF Typed, IsPicker, Kept, Lost, LostOnSliders
  <1> QED  BY <1>1, <1>5, <1>6 DEF Spares

LEMMA UpdateAlternateSpares ==
    ASSUME NEW p, Typed(p)
    PROVE  Spares(p, UpdateAlternate(p))
  <1>1. CASE ~options.altField
    BY <1>1 DEF UpdateAlternate, Spares
  <1>2. CASE options.altField
    <2> DEFINE date == [day |-> p.currentDay, time |-> NoTime]
    <2>1. TextOK(date) /\ TextOK(Empty)
      BY WrittenOK DEF Typed
    <2>2. UpdateAlternate(p) \in {[p EXCEPT !.alt = Empty], [p EXCEPT !.alt = date]}
      BY <1>2 DEF UpdateAlternate
    <2> HIDE DEF date
    <2>3. Spares(p, [p EXCEPT !.alt = Empty]) /\ Spares(p, [p EXCEPT !.alt = date])
      BY Zenon, <2>1, FieldsWritten
    <2> QED  BY <2>2, <2>3
  <1> QED  BY <1>1, <1>2

LEMMA SelectDateSpares ==
    ASSUME OptionsFit, NEW p, Typed(p), NEW day \in {NoDay} \cup 0 .. LastDay
    PROVE  Spares(p, SelectDate(p, day))
  <1> DEFINE limited == LimitMinMaxDateTime(p)
             text    == [day |-> day, time |-> limited.formattedTime]
             new     == [limited EXCEPT !.input = text]
             written == UpdateAlternate(new)
             updated == UpdateDateTime(written)
  <1>1. Spares(p, limited)
    BY LimitsSpare
  <1>2. SelectDate(p, day) \in {limited, UpdateDatepicker(updated)}
    BY DEF SelectDate
  <1> HIDE DEF limited
  <1>3. TextOK(text)
    BY <1>1, WrittenOK DEF Spares, Typed
  <1> HIDE DEF text
  <1>4. Spares(limited, new)
    BY Zenon, <1>1, <1>3, FieldsWritten DEF Spares
  <1> HIDE DEF new
  <1>5. Spares(new, written)
    BY <1>4, UpdateAlternateSpares DEF Spares
  <1> HIDE DEF written
  <1>6. Spares(written, updated)
    BY <1>5, UpdateDateTimeSpares DEF Spares
  <1> HIDE DEF updated
  <1>7. Spares(updated, UpdateDatepicker(updated))
    BY <1>6, UpdateDatepickerSpares DEF Spares
  <1> QED  BY <1>1, <1>2, <1>4, <1>5, <1>6, <1>7 DEF Spares

\* A time that a caller gives: one that is a time, or one that was read, with an
\* hour of the day.
IsGiven(t) ==
    /\ t \in [Field -> Number] /\ t["hour"] <= 99
    /\ \A f \in Field : t[f] # NaN

LEMMA TimesGiven ==
    ASSUME NEW t \in TimeOfDay
    PROVE  IsGiven(t)
  <1>1. \A n \in 0 .. 59 : n # NaN /\ n <= 99
    BY DEF NaN
  <1>2. "hour" \in Field
    BY DEF Field
  <1> QED  BY <1>1, <1>2, ClockFields DEF IsGiven

LEMMA DivisionRange ==
    ASSUME NEW a \in Nat, NEW n \in Nat \ {0}
    PROVE  a \div n \in Nat
  OBVIOUS

\* Whatever was read: a time that Date.setHours takes is one of the day.
LEMMA SetHoursGiven ==
    ASSUME NEW t \in [Field -> Number], \A f \in Field : t[f] # NaN
    PROVE  IsGiven(SetHours(t))
  <1> DEFINE minutes == t.minute + t.second \div 60
             hours   == t.hour + minutes \div 60
  <1>1. t.hour \in Nat /\ t.minute \in Nat /\ t.second \in Nat
    BY Numbers DEF Field
  <1>2. minutes \in Nat
    BY <1>1, DivisionRange
  <1>3. SetHours(t) = [hour |-> hours % 24, minute |-> minutes % 60, second |-> t.second % 60]
    BY DEF SetHours
  <1> HIDE DEF minutes
  <1>4. hours \in Nat
    BY <1>1, <1>2, DivisionRange
  <1> HIDE DEF hours
  <1>5. hours % 24 \in 0 .. 23
    BY <1>4, Remainder
  <1>6. minutes % 60 \in 0 .. 59 /\ t.second % 60 \in 0 .. 59
    BY <1>1, <1>2, Remainder
  <1>7. SetHours(t) \in TimeOfDay
    BY <1>3, <1>5, <1>6 DEF TimeOfDay
  <1> QED  BY <1>7, TimesGiven

LEMMA SetTimeSpares ==
    ASSUME OptionsFit, NEW p, Typed(p), NEW t, IsGiven(t)
    PROVE  /\ Typed(SetTime(p, t))
           /\ p.sliders # "removed" => Spares(p, SetTime(p, t))
           /\ SetTime(p, t).sliders = p.sliders
  <1> DEFINE outside == \E f \in Field : Below(t[f], p.min[f]) \/ Below(p.max[f], t[f])
             new     == IF outside THEN p.min ELSE t
             aligned == [f \in Field |->
                           TrimAlign(new[f], p.min[f],
                             LastStep(p.max[f], options.step[f]), options.step[f])]
             moved   == [p EXCEPT
                           !.position = IF p.sliders = "live" THEN aligned ELSE @,
                           !.time     = IF p.sliders = "none" THEN new ELSE @]
  <1>1. SetTime(p, t) = UpdateDateTime(OnTimeChange(moved))
    BY Zenon DEF SetTime
  <1>2. IsGiven(new)
    BY TimesGiven DEF Typed
  <1> HIDE DEF new
  <1>3. aligned \in [Field -> Number] /\ \A f \in Field : aligned[f] # NaN
    <2>0. \A f \in Field :
            aligned[f] = TrimAlign(new[f], p.min[f],
                           LastStep(p.max[f], options.step[f]), options.step[f])
      OBVIOUS
    <2>1. ASSUME NEW f \in Field
          PROVE  aligned[f] \in Number /\ aligned[f] # NaN
      <3> DEFINE step == options.step[f]
                 last == LastStep(p.max[f], step)
                 w    == TrimAlign(new[f], p.min[f], last, step)
      <3>1. p.min[f] \in 0 .. 59 /\ p.max[f] \in 0 .. 59
        BY ClockFields DEF Typed
      <3>2. step \in Nat /\ step > 0
        BY DEF OptionsFit
      <3>3. new[f] \in Int /\ new[f] # NaN
        BY <1>2, Numbers DEF IsGiven
      <3>4. aligned[f] = w
        BY <2>0
      <3> HIDE DEF step, aligned, outside, moved
      <3>5. last \in 0 .. 59 /\ (step > 59 => last = 0)
        <4>1. last \in 0 .. p.max[f] /\ (step > p.max[f] => last = 0)
          BY <3>1, <3>2, LastStepRange
        <4> HIDE DEF last
        <4> QED  BY <3>1, <3>2, <4>1
      <3> HIDE DEF last
      <3>6. w \in NaN .. 99 /\ w # NaN
        BY <3>1, <3>2, <3>3, <3>5, TrimAlignRange
      <3> HIDE DEF w
      <3>7. \A n \in NaN .. 99 : n \in Number
        BY DEF Number, NaN
      <3> QED  BY <3>4, <3>6, <3>7
    <2>2. aligned = [f \in Field |-> aligned[f]]
      OBVIOUS
    <2> HIDE DEF aligned
    <2> QED  BY <2>1, <2>2
  <1> HIDE DEF aligned
  <1>4. Spares(p, moved) /\ moved.sliders = p.sliders
    <2>1. Typed(moved) /\ moved.sliders = p.sliders
      BY <1>2, <1>3 DEF Typed, IsPicker, IsGiven
    <2>2. Kept(p) => Kept(moved)
      BY <1>2, <1>3 DEF Typed, IsPicker, IsGiven, Kept, Lost, LostOnSliders
    <2> QED  BY <2>1, <2>2 DEF Spares
  <1> HIDE DEF moved
  <1> DEFINE changed == OnTimeChange(moved)
  <1>5. /\ Typed(changed) /\ changed.sliders = p.sliders
        /\ p.sliders # "removed" => Spares(moved, changed)
    BY <1>4, OnTimeChangeSpares DEF Spares
  <1> HIDE DEF changed
  <1>6. Spares(changed, UpdateDateTime(changed))
    BY <1>5, UpdateDateTimeSpares
  <1>7. UpdateDateTime(changed).sliders = changed.sliders
    BY <1>5, KeepingLabel DEF SameLabel, Typed
  <1> QED  BY <1>1, <1>4, <1>5, <1>6, <1>7 DEF Spares, changed

LEMMA DoKeyUpSpares ==
    ASSUME OptionsFit, NEW p, Typed(p)
    PROVE  Spares(p, DoKeyUp(p))
  <1> DEFINE differs(q) == ~q.lastValSet \/ q.input # q.lastVal
             first == IF options.timeOnly /\ differs(p)
                          THEN UpdateDatepicker(p) ELSE p
             dated == SetDateFromField(first)
             other == UpdateAlternate(dated)
  <1>1. Spares(p, first)
    BY UpdateDatepickerSpares DEF Spares
  <1>2. DoKeyUp(p) \in {first, UpdateDatepicker(other)}
    BY DEF DoKeyUp
  <1> HIDE DEF first
  <1>3. Spares(first, dated)
    BY <1>1, SetDateFromFieldSpares DEF Spares
  <1> HIDE DEF dated
  <1>4. Spares(dated, other)
    BY <1>3, UpdateAlternateSpares DEF Spares
  <1> HIDE DEF other
  <1>5. Spares(other, UpdateDatepicker(other))
    BY <1>4, UpdateDatepickerSpares DEF Spares
  <1> QED  BY <1>1, <1>2, <1>3, <1>4, <1>5 DEF Spares

-----------------------------------------------------------------------------
(***************************************************************************)
(* The actions.                                                            *)
(***************************************************************************)

\* A step keeps the types, and loses what was kept only with sliders that are
\* out of the page.
Follows(p, q) == Typed(q) /\ (Kept(p) => Kept(q) \/ q.sliders = "removed")

LEMMA SparesFollows ==
    ASSUME NEW p, NEW q, Spares(p, q)
    PROVE  /\ Follows(p, q)
           /\ \A r : Follows(q, r) => Follows(p, r)
  BY DEF Spares, Follows

LEMMA ChangeFollows ==
    ASSUME OptionsFit, NEW p, Typed(p)
    PROVE  /\ Follows(p, OnTimeChange(p))
           /\ \A t : IsGiven(t) => Follows(p, SetTime(p, t))
  <1>1. Follows(p, OnTimeChange(p))
    BY OnTimeChangeSpares DEF Follows, Spares, Typed
  <1>2. ASSUME NEW t, IsGiven(t)
        PROVE  Follows(p, SetTime(p, t))
    BY <1>2, SetTimeSpares DEF Follows, Spares, Typed
  <1> QED  BY <1>1, <1>2

\* A click in a grid puts the slider at a number the slider can show.
LEMMA CellPlace ==
    ASSUME OptionsFit, NEW p, Typed(p), NEW f \in Field, NEW cell,
           cell \in GridCells(p.min[f], LastStep(p.max[f], options.step[f]),
                              options.grid[f])
    PROVE  /\ cell \in 0 .. 59
           /\ f = "hour" =>
                CellHour(HourCell(cell, options.ampm), options.ampm) = cell
  <1>1. p.min[f] \in 0 .. 59 /\ p.max[f] \in 0 .. 59
    BY ClockFields DEF Typed
  <1> DEFINE step == options.step[f]
             last == LastStep(p.max[f], step)
  <1>2. step \in Nat /\ step > 0
    BY DEF OptionsFit
  <1>3. cell \in p.min[f] .. last - 1
    BY DEF GridCells
  <1> HIDE DEF step
  <1>4. last \in 0 .. p.max[f]
    BY <1>1, <1>2, LastStepRange
  <1> HIDE DEF last
  <1>5. cell \in 0 .. 59
    BY <1>1, <1>3, <1>4
  <1>6. f = "hour" => cell <= 22
    <2>1. p.max["hour"] \in 0 .. 23
      BY DEF Typed, TimeOfDay
    <2> QED  BY <1>3, <1>4, <1>5, <2>1
  <1>7. CASE ~options.ampm
    BY <1>5, <1>7 DEF CellHour, HourCell
  <1>8. ASSUME options.ampm, f = "hour"
        PROVE  CellHour(HourCell(cell, options.ampm), options.ampm) = cell
    <2> DEFINE shown == HourCell(cell, options.ampm)
    <2>1. /\ shown.number = IF cell = 0 THEN 12
                            ELSE IF cell > 12 THEN cell - 12 ELSE cell
          /\ shown.letter = IF cell < 12 THEN "a" ELSE "p"
      BY <1>5, <1>8 DEF HourCell
    <2> HIDE DEF shown
    <2>2. CellHour(shown, options.ampm) =
            IF shown.letter = "a"
              THEN IF shown.number = 12 THEN 0 ELSE shown.number
              ELSE IF shown.number = 12 THEN 12 ELSE shown.number + 12
      BY <1>8 DEF CellHour
    <2>3. "a" # "p" /\ cell \in Int /\ cell >= 0 /\ cell <= 22
      BY <1>5, <1>6, <1>8
    <2>4. CellHour(shown, options.ampm) = cell
      <3>1. CASE cell < 12
        BY <2>1, <2>2, <2>3, <3>1
      <3>2. CASE cell >= 12
        BY <2>1, <2>2, <2>3, <3>2
      <3> QED  BY <2>3, <3>1, <3>2
    <2> QED  BY <2>4 DEF shown
  <1> QED  BY <1>5, <1>7, <1>8

LEMMA PlaceFollows ==
    ASSUME OptionsFit, NEW p, Typed(p), NEW f \in Field, NEW v \in 0 .. 99
    PROVE  Follows(p, OnTimeChange([p EXCEPT !.position = [@ EXCEPT ![f] = v]]))
  <1> DEFINE q == [p EXCEPT !.position = [@ EXCEPT ![f] = v]]
  <1>1. v \in Number /\ v # NaN
    BY DEF Number, NaN
  <1>2. Spares(p, q)
    <2>1. Typed(q)
      BY <1>1 DEF Typed, IsPicker
    <2>2. Kept(p) => Kept(q)
      BY <1>1 DEF Typed, IsPicker, Kept, Lost, LostOnSliders
    <2> QED  BY <2>1, <2>2 DEF Spares
  <1> HIDE DEF q
  <1>3. Follows(q, OnTimeChange(q))
    BY <1>2, ChangeFollows DEF Spares
  <1> QED  BY <1>2, <1>3, SparesFollows DEF q

LEMMA SlidersFollow ==
    ASSUME OptionsFit, Typed(picker), NEW f \in Field, NEW v \in Spot[f],
           Slide(f, v) \/ ClickGrid(f, v)
    PROVE  Follows(picker, picker')
  <1>1. CASE Slide(f, v)
    <2> DEFINE p == [picker EXCEPT !.position[f] = v]
               w == SliderValue(p, f)
    <2>1. v \in Int /\ v # NaN
      BY TimePickerAssumption DEF NaN
    <2>2. /\ p.sliders = "live" /\ p.position[f] = v
          /\ p.min \in TimeOfDay /\ p.max \in TimeOfDay
      BY <1>1 DEF Slide, Typed, IsPicker
    <2>3. picker' = OnTimeChange([p EXCEPT !.position[f] = w])
      BY <1>1 DEF Slide, Step
    <2>4. [p EXCEPT !.position[f] = w]
            = [picker EXCEPT !.position = [@ EXCEPT ![f] = w]]
      <3> HIDE DEF w
      <3> QED  BY DEF Typed, IsPicker
    <2> HIDE DEF p
    <2>5. w \in NaN .. 99 /\ w # NaN
      BY <2>1, <2>2, SliderPlace
    <2> HIDE DEF w
    <2>6. w \in 0 .. 99
      BY <2>5 DEF NaN
    <2> QED  BY <2>3, <2>4, <2>6, PlaceFollows
  <1>2. CASE ClickGrid(f, v)
    <2>1. /\ v \in 0 .. 59
          /\ f = "hour" => CellHour(HourCell(v, options.ampm), options.ampm) = v
      BY <1>2, CellPlace DEF ClickGrid
    <2>2. picker' = OnTimeChange([picker EXCEPT !.position[f] = v])
      BY <1>2, <2>1 DEF ClickGrid, Step
    <2>3. [picker EXCEPT !.position[f] = v]
            = [picker EXCEPT !.position = [@ EXCEPT ![f] = v]]
      OBVIOUS
    <2>4. v \in 0 .. 99
      BY <2>1
    <2> QED  BY <2>2, <2>3, <2>4, PlaceFollows
  <1> QED  BY <1>1, <1>2

\* What can be typed.
LEMMA TypedTextOK ==
    ASSUME OptionsFit, NEW text \in TypedText
    PROVE  TextOK(text)
  <1>1. /\ text = [day |-> text.day, time |-> text.time]
        /\ text.day \in {NoDay} \cup 0 .. LastDay
    BY TextAssumption, DaysFit
  <1>2. ASSUME text.time # NoTime
        PROVE  PrintOK(text.time)
    <2>1. /\ DOMAIN text.time.clock = Shown(options.timeFormat)
          /\ \A f \in DOMAIN text.time.clock : text.time.clock[f] \in NaN .. 99
          /\ text.time.half \in {"", "AM", "PM"}
      BY <1>2, TextAssumption DEF OptionsFit
    <2>2. \A n \in NaN .. 99 : n \in Number /\ n <= 99
      BY DEF Number, NaN
    <2> QED  BY <2>1, <2>2 DEF PrintOK
  <1> QED  BY <1>1, <1>2 DEF TextOK, PrintOK

LEMMA UserFollows ==
    ASSUME OptionsFit, Typed(picker), User
    PROVE  Follows(picker, picker')
  <1>1. CASE Show
    <2> DEFINE p == [picker EXCEPT !.showing = TRUE, !.lastValSet = FALSE]
               q == SetDateFromField(p)
    <2>1. picker' = UpdateDatepicker(q)
      BY <1>1 DEF Show, Step
    <2>2. Spares(picker, p)
      BY Zenon, FieldsWritten
    <2> HIDE DEF p
    <2>3. Spares(p, q)
      BY <2>2, SetDateFromFieldSpares DEF Spares
    <2> HIDE DEF q
    <2>4. Spares(q, picker')
      BY <2>1, <2>3, UpdateDatepickerSpares DEF Spares
    <2> QED  BY <2>2, <2>3, <2>4, SparesFollows
  <1>2. CASE Close
    <2> DEFINE p == [picker EXCEPT !.showing = FALSE]
    <2>1. picker' \in {p, UpdateDateTime(p)}
      BY <1>2 DEF Close, Step
    <2>2. Spares(picker, p)
      BY Zenon, FieldsWritten
    <2> HIDE DEF p
    <2>3. Spares(p, UpdateDateTime(p))
      BY <2>2, UpdateDateTimeSpares DEF Spares
    <2> QED  BY <2>1, <2>2, <2>3, SparesFollows
  <1>3. CASE ClearDate
    BY <1>3, SelectDateSpares, SparesFollows DEF ClearDate, Step
  <1>4. CASE PressKey
    BY <1>4, DoKeyUpSpares, SparesFollows DEF PressKey, Step
  <1>5. CASE OtherPickerShows
    <2>1. picker' = [picker EXCEPT !.sliders = "removed"]
      BY <1>5 DEF OtherPickerShows, Step
    <2> QED  BY <2>1 DEF Follows, Typed, IsPicker
  <1>6. ASSUME NEW d \in Day, SelectDay(d)
        PROVE  Follows(picker, picker')
    <2> DEFINE p == [picker EXCEPT !.selectedDay = d, !.currentDay = d]
    <2>1. picker' = SelectDate(p, d)
      BY <1>6 DEF SelectDay, Step
    <2>2. d \in 0 .. LastDay
      BY DaysFit
    <2>3. Spares(picker, p)
      BY Zenon, <2>2, FieldsWritten
    <2> HIDE DEF p
    <2>4. Spares(p, picker')
      BY <2>1, <2>2, <2>3, SelectDateSpares DEF Spares
    <2> QED  BY <2>3, <2>4, SparesFollows
  <1>7. ASSUME NEW d \in Day, AdjustDate(d)
        PROVE  Follows(picker, picker')
    <2> DEFINE p == [picker EXCEPT !.selectedDay = d]
    <2>1. picker' \in {UpdateDatepicker(p), UpdateDatepicker(UpdateDateTime(p))}
      BY <1>7 DEF AdjustDate, Step
    <2>2. d \in 0 .. LastDay
      BY DaysFit
    <2>3. Spares(picker, p)
      BY Zenon, <2>2, FieldsWritten
    <2> HIDE DEF p
    <2>4. Spares(p, UpdateDateTime(p)) /\ Spares(p, UpdateDatepicker(p))
      BY <2>3, UpdateDateTimeSpares, UpdateDatepickerSpares DEF Spares
    <2>5. Spares(UpdateDateTime(p), UpdateDatepicker(UpdateDateTime(p)))
      BY <2>4, UpdateDatepickerSpares DEF Spares
    <2> QED  BY <2>1, <2>3, <2>4, <2>5, SparesFollows
  <1>8. ASSUME NEW text \in TypedText, Type(text)
        PROVE  Follows(picker, picker')
    <2> DEFINE p == [picker EXCEPT !.input = text]
    <2>1. picker' = DoKeyUp(p)
      BY <1>8 DEF Type, Step
    <2>2. Spares(picker, p)
      BY Zenon, TypedTextOK, FieldsWritten
    <2> HIDE DEF p
    <2>3. Spares(p, DoKeyUp(p))
      BY <2>2, DoKeyUpSpares DEF Spares
    <2> QED  BY <2>1, <2>2, <2>3, SparesFollows
  <1>9. ASSUME NEW now \in Clock, GotoToday(now)
        PROVE  Follows(picker, picker')
    <2> DEFINE new   == [picker EXCEPT !.selectedDay = Today]
               today == UpdateDateTime(new)
               day   == RestrictMinMax(Today)
               held  == [today EXCEPT !.selectedDay = day]
               drawn == UpdateDatepicker(held)
    <2>1. picker' = SetTime(drawn, now)
      BY <1>9 DEF GotoToday, Step
    <2>2. Today \in 0 .. LastDay /\ day \in 0 .. LastDay
      BY DaysFit
    <2> HIDE DEF day
    <2>3. Spares(picker, new)
      BY Zenon, <2>2, FieldsWritten
    <2> HIDE DEF new
    <2>4. Spares(new, today)
      BY <2>3, UpdateDateTimeSpares DEF Spares
    <2> HIDE DEF today
    <2>5. Spares(today, held)
      BY Zenon, <2>2, <2>4, FieldsWritten DEF Spares
    <2> HIDE DEF held
    <2>6. Spares(held, drawn)
      BY <2>5, UpdateDatepickerSpares DEF Spares
    <2> HIDE DEF drawn
    <2>7. IsGiven(now)
      BY TimesGiven, TimePickerAssumption
    <2>8. Follows(drawn, picker')
      BY <2>1, <2>6, <2>7, ChangeFollows DEF Spares
    <2> QED  BY <2>3, <2>4, <2>5, <2>6, <2>8, SparesFollows
  <1> QED  BY <1>1, <1>2, <1>3, <1>4, <1>5, <1>6, <1>7, <1>8, <1>9, SlidersFollow
           DEF User

LEMMA SetDateFollows ==
    ASSUME OptionsFit, Typed(picker), NEW d, NEW t, CallSetDate(d, t),
           d \in Day \/ d = NoDay, IsGiven(t)
    PROVE  Follows(picker, picker')
  <1> DEFINE date    == RestrictMinMax(IF d = NoDay THEN Today ELSE d)
             drawn   == UpdateDatepicker(picker)
             chosen  == [drawn EXCEPT !.selectedDay = date, !.currentDay = date]
             noticed == IF Month[drawn.selectedDay] # Month[date]
                            THEN UpdateDateTime(chosen) ELSE chosen
             text    == IF d = NoDay THEN Empty ELSE [day |-> date, time |-> NoTime]
             written == [noticed EXCEPT !.input = text]
             redrawn == UpdateDatepicker(written)
             dated   == UpdateAlternate(redrawn)
             read    == SetDateFromField(dated)
  <1>1. picker' = SetTime(read, t)
    BY Zenon DEF CallSetDate, Step
  <1>2. Spares(picker, drawn)
    BY UpdateDatepickerSpares
  <1>3. date \in 0 .. LastDay
    BY DaysFit
  <1> HIDE DEF drawn, date
  <1>4. Spares(drawn, chosen)
    BY Zenon, <1>2, <1>3, FieldsWritten DEF Spares
  <1> HIDE DEF chosen
  <1>5. Spares(chosen, noticed)
    BY <1>4, UpdateDateTimeSpares DEF Spares
  <1>6. TextOK(text)
    BY <1>3, WrittenOK
  <1> HIDE DEF noticed, text
  <1>7. Spares(noticed, written)
    BY Zenon, <1>5, <1>6, FieldsWritten DEF Spares
  <1> HIDE DEF written
  <1>8. Spares(written, redrawn)
    BY <1>7, UpdateDatepickerSpares DEF Spares
  <1> HIDE DEF redrawn
  <1>9. Spares(redrawn, dated)
    BY <1>8, UpdateAlternateSpares DEF Spares
  <1> HIDE DEF dated
  <1>10. Spares(dated, read)
    BY <1>9, SetDateFromFieldSpares DEF Spares
  <1> HIDE DEF read
  <1>11. Follows(read, picker')
    BY <1>1, <1>10, ChangeFollows DEF Spares
  <1> QED  BY <1>2, <1>4, <1>5, <1>7, <1>8, <1>9, <1>10, <1>11, SparesFollows

LEMMA ScriptFollows ==
    ASSUME OptionsFit, Typed(picker), Script
    PROVE  Follows(picker, picker')
  <1> DEFINE p == SetDateFromField(picker)
  <1>1. Spares(picker, p)
    BY SetDateFromFieldSpares
  <1>2. IsGiven(options.time) /\ \A t \in Clock : IsGiven(t)
    BY TimesGiven, TimePickerAssumption DEF OptionsFit
  <1> HIDE DEF p
  <1>3. ASSUME NEW shown \in BOOLEAN, SwitchTimepicker(shown)
        PROVE  Follows(picker, picker')
    <2> DEFINE q == [picker EXCEPT !.showTimepicker = shown]
               r == OnTimeChange(q)
    <2>1. picker' = UpdateDateTime(r)
      BY <1>3 DEF SwitchTimepicker, Step
    <2>2. Spares(picker, q)
      BY Zenon, FieldsWritten
    <2> HIDE DEF q
    <2>3. Follows(q, r)
      BY <2>2, ChangeFollows DEF Spares
    <2> HIDE DEF r
    <2>4. Spares(r, picker') /\ picker'.sliders = r.sliders
      BY <2>1, <2>3, UpdateDateTimeSpares, KeepingLabel
         DEF Follows, Typed, SameLabel
    <2>5. Follows(q, picker')
      BY <2>3, <2>4 DEF Spares, Follows
    <2> QED  BY <2>2, <2>5, SparesFollows
  <1>4. ASSUME NEW t, CallSetTime(t), IsGiven(t)
        PROVE  Follows(picker, picker')
    <2>1. picker' = SetTime(p, t)
      BY <1>4 DEF CallSetTime, Step, p
    <2>2. Follows(p, picker')
      BY <1>1, <1>4, <2>1, ChangeFollows DEF Spares
    <2> QED  BY <1>1, <2>2, SparesFollows
  <1>5. ASSUME NEW text \in TypedText, CallSetTimeText(text)
        PROVE  Follows(picker, picker')
    <2> DEFINE q    == ParseTime(p, text, FALSE)
               lost == \E f \in Field : q.time[f] = NaN
               time == IF lost THEN options.time ELSE SetHours(q.time)
    <2>1. picker' = SetTime(q, time)
      BY Zenon, <1>5 DEF CallSetTimeText, Step, p
    <2>2. Spares(p, q)
      BY Zenon, <1>1, TypedTextOK, ParseTimeSpares DEF Spares
    <2> HIDE DEF q
    <2>3. ASSUME ~lost
          PROVE  IsGiven(SetHours(q.time))
      BY <2>2, <2>3, SetHoursGiven DEF Spares, Typed
    <2>4. IsGiven(time)
      BY Zenon, <1>2, <2>3
    <2> HIDE DEF time
    <2>5. Follows(q, picker')
      BY <2>1, <2>2, <2>4, ChangeFollows DEF Spares
    <2> QED  BY <1>1, <2>2, <2>5, SparesFollows
  <1>6. CASE CallGetDate
    <2>1. picker' \in {p, ParseTime(p, p.input, TRUE)}
      BY <1>6 DEF CallGetDate, Step, p
    <2>2. Spares(p, ParseTime(p, p.input, TRUE))
      BY Zenon, <1>1, ParseTimeSpares DEF Spares, Typed
    <2> QED  BY <1>1, <2>1, <2>2, SparesFollows
  <1>7. ASSUME NEW d, NEW t, CallSetDate(d, t),
               \/ d \in Day /\ t \in Clock
               \/ d = NoDay /\ t = options.time
        PROVE  Follows(picker, picker')
    BY <1>2, <1>7, SetDateFollows
  <1> QED  BY <1>2, <1>3, <1>4, <1>5, <1>6, <1>7 DEF Script

LEMMA InitTyped == Init => OptionsFit /\ Typed(picker)
  <1> SUFFICES ASSUME Init PROVE OptionsFit /\ Typed(picker)
    OBVIOUS
  <1>1. PICK given \in GivenOptions : options = NewOptions(given)
    BY DEF Init
  <1>2. PICK text \in TypedText : picker = NewPicker(options, text)
    BY DEF Init
  <1>3. OptionsFit
    BY <1>1, OptionsAssumption, TextAssumption DEF OptionsFit
  <1>4. TextOK(text) /\ TextOK(Empty) /\ PrintOK(NoTime)
    BY <1>3, TypedTextOK, WrittenOK
  <1>5. /\ Midnight \in [Field -> Number] /\ Midnight["hour"] <= 99
        /\ DayZero \in 0 .. LastDay
    <2>1. 0 \in Number
      BY DEF Number, NaN
    <2>2. LastDay \in Nat
      BY TimePickerAssumption
    <2> QED  BY <2>1, <2>2 DEF Midnight, Field, DayZero
  <1>6. Typed(picker)
    <2>1. /\ options.min \in TimeOfDay /\ options.max \in TimeOfDay
          /\ options.showTimepicker \in BOOLEAN
      BY <1>3 DEF OptionsFit
    <2> QED  BY <1>2, <1>4, <1>5, <2>1 DEF NewPicker, Typed, IsPicker
  <1> QED  BY <1>3, <1>6

TypedInv == OptionsFit /\ Typed(picker) /\ calls \in 0 .. MaxCalls

LEMMA TypedNext ==
    ASSUME UNCHANGED options, Typed(picker')
    PROVE  Typed(picker)'
  <1>1. NoHalfShown' = NoHalfShown
    BY DEF NoHalfShown
  <1>2. /\ TextOK(picker.input)' /\ TextOK(picker.alt)' /\ TextOK(picker.lastVal)'
        /\ PrintOK(picker.formattedTime)'
    <2>1. TextOK(picker.input)'
      BY <1>1 DEF Typed, TextOK, PrintOK
    <2>2. TextOK(picker.alt)'
      BY <1>1 DEF Typed, TextOK, PrintOK
    <2>3. TextOK(picker.lastVal)'
      BY <1>1 DEF Typed, TextOK, PrintOK
    <2>4. PrintOK(picker.formattedTime)'
      BY <1>1 DEF Typed, PrintOK
    <2> QED  BY <2>1, <2>2, <2>3, <2>4
  <1> QED  BY <1>1, <1>2 DEF Typed, IsPicker

LEMMA NextTyped ==
    ASSUME TypedInv, [Next]_vars
    PROVE  TypedInv' /\ [Follows(picker, picker')]_vars
  <1>1. OptionsFit' /\ UNCHANGED options
    BY OptionsStay DEF TypedInv, OptionsFit
  <1>2. CASE UNCHANGED vars
    <2>1. Typed(picker') /\ UNCHANGED <<options, calls>> /\ picker' = picker
      BY <1>2 DEF TypedInv, vars
    <2> QED  BY <1>1, <1>2, <2>1, TypedNext DEF TypedInv
  <1>3. CASE Next
    <2>1. Follows(picker, picker')
      BY <1>3, UserFollows, ScriptFollows DEF Next, TypedInv
    <2>2. Typed(picker)'
      BY <1>1, <2>1, TypedNext DEF Follows
    <2>3. calls' \in 0 .. MaxCalls
      BY <1>3, TimePickerAssumption DEF TypedInv, Next
    <2> QED  BY <1>1, <2>1, <2>2, <2>3 DEF TypedInv
  <1> QED  BY <1>2, <1>3

LEMMA InvIsTyped == TypedInv => TypeOK
  <1> SUFFICES ASSUME TypedInv PROVE TypeOK
    OBVIOUS
  <1>1. ASSUME NEW text, TextOK(text)
        PROVE  IsText(text)
    BY <1>1 DEF TextOK, PrintOK, IsText
  <1> QED  BY <1>1 DEF TypedInv, OptionsFit, Typed, TypeOK

\* The counter of the calls starts at none.
LEMMA InitInv == Init => TypedInv
  BY InitTyped, TimePickerAssumption DEF Init, TypedInv

(***************************************************************************)
(* The fields of a picker hold what they should, whatever is typed: hours  *)
(* read from two digits and a half of the day stay below 112, however      *)
(* often they are printed and read again.                                  *)
(***************************************************************************)
THEOREM PickerTypeCorrect == Spec => []TypeOK
  <1>1. TypedInv /\ [Next]_vars => TypedInv'
    BY NextTyped
  <1> QED  BY InitInv, <1>1, InvIsTyped, PTL DEF Spec

(***************************************************************************)
(* The time, and the places of the sliders, are lost only with sliders     *)
(* that are out of the page.                                               *)
(***************************************************************************)
THEOREM TimeIsKept == Spec => TimeLostWithSliders
  <1>1. TypedInv /\ [Next]_vars => TypedInv'
    BY NextTyped
  <1>2. TypedInv /\ [Next]_vars
          => [Kept(picker) => Kept(picker') \/ picker'.sliders = "removed"]_vars
    BY NextTyped DEF Follows
  <1> QED  BY InitInv, <1>1, <1>2, PTL DEF Spec, TimeLostWithSliders

=============================================================================
