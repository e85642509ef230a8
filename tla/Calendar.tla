------------------------------ MODULE Calendar -------------------------------
(* caldav.rs: when a calendar object matches a calendar-query, and the     *)
(* busy time it has. A component has one record shape, whatever its kind:  *)
(* [kind, start, end, due, duration, props, comps, uid, recid, rec,        *)
(* transp, status, periods], with None for what it lacks. rec is the set   *)
(* of starts its RRULE, RDATE and EXDATE make (by the rrule crate), or     *)
(* Bad when they cannot be read.                                           *)
EXTENDS TextMatch, Integers, FiniteSets, FiniteSetsExt

CONSTANTS
    Bad,            \* what cannot be read
    Day,            \* the ticks of a day
    MaxOccurrences  \* MAX_OCCURRENCE_EXPANSION

-----------------------------------------------------------------------------
(* Times. A value is [kind, wall, offset]; a zone nobody knows, and a time *)
(* that does not exist in its zone or does twice, has offset None.         *)

to_utc(t) == IF t.kind = "zoned" /\ t.offset # None THEN t.wall - t.offset ELSE t.wall

\* parse_ical_duration(): a machine over the words "P" and "T", and n of a unit, in seconds.
Weight == [W |-> 604800, D |-> 86400, H |-> 3600, M |-> 60, S |-> 1]
DurationStep(s, w) ==
    CASE s.at = "start" /\ w.unit = "P" -> [s EXCEPT !.at = "date"]
      [] s.at = "date" /\ w.unit = "T" -> [s EXCEPT !.at = "T"]
      [] s.at = "date" /\ w.unit \in {"W", "D"} ->
            [s EXCEPT !.sum = @ + w.n * Weight[w.unit], !.any = TRUE]
      [] s.at \in {"T", "time"} /\ w.unit \in {"H", "M", "S"} ->
            [s EXCEPT !.at = "time", !.sum = @ + w.n * Weight[w.unit], !.any = TRUE]
      [] OTHER -> [s EXCEPT !.at = "bad"]
parse_ical_duration(negative, words) ==
    LET end == FoldLeft(DurationStep, [at |-> "start", sum |-> 0, any |-> FALSE], words)
    IN  IF end.at \in {"date", "time"} /\ end.any THEN IF negative THEN -end.sum ELSE end.sum ELSE None

\* component_span(): [start, end), or None.
component_span(c) ==
    LET span(s, e) == [start |-> s, end |-> e]
        s == to_utc(c.start)
        length == IF c.duration # None THEN c.duration ELSE IF c.start.kind = "date" THEN Day ELSE 0
    IN  CASE c.start # None /\ c.end # None -> span(s, to_utc(c.end))
          [] c.start # None /\ c.end = None /\ c.due # None -> span(s, to_utc(c.due))
          [] c.start # None /\ c.end = None /\ c.due = None -> span(s, s + length)
          [] c.start = None /\ c.end # None -> span(to_utc(c.end), to_utc(c.end))
          [] c.start = None /\ c.end = None /\ c.due # None -> span(to_utc(c.due), to_utc(c.due))
          [] OTHER -> None

\* A plausible mistake: a point at the start of the range is outside it.
time_spans_overlapOpen(s, e, from, to) == (to = None \/ s < to) /\ (from = None \/ from < e)

time_spans_overlap(s, e, from, to) ==
    /\ to = None \/ s < to
    /\ from = None \/ (IF s = e THEN from <= s ELSE from < e)

\* A range is [start, end]: a value, None when it is absent, or Bad; a range
\* with a bad bound or without any matches nothing.
Bounded(range) ==
    /\ range.start # Bad /\ range.end # Bad
    /\ range.start # None \/ range.end # None
Overlaps(span, range) ==
    Bounded(range) /\ span # None /\ time_spans_overlap(span.start, span.end, range.start, range.end)

-----------------------------------------------------------------------------
(* calendar-query. A component filter is [name, undefined, range, props,   *)
(* comps], a property filter [name, undefined, range, text, params].       *)

\* DATE-TIME is a point; DATE is a day; any other value has no time.
property_overlaps_time_range(p, range) ==
    p.time # None /\ LET s == to_utc(p.time)
                     IN  Overlaps([start |-> s, end |-> IF p.time.kind = "date" THEN s + Day ELSE s], range)

property_instance_matches(p, pf) ==
    /\ pf.range = None \/ property_overlaps_time_range(p, pf.range)
    /\ \A f \in pf.params : ParamMatches(f, {x.value : x \in {y \in p.params : y.name = f.name}})

\* A plausible mistake: text is matched with instances the other filters exclude.
matches_prop_valuesLoose(props, pf) ==
    LET named == {p \in props : p.name = pf.name}
    IN  IF pf.undefined THEN named = {}
        ELSE /\ \E p \in named : property_instance_matches(p, pf)
             /\ pf.text = None \/ matches_any(pf.text, {p.value : p \in named})

matches_prop_values(props, pf) ==
    LET named == {p \in props : p.name = pf.name}
        candidates == {p \in named : property_instance_matches(p, pf)}
    IN  IF pf.undefined THEN named = {}
        ELSE candidates # {} /\ (pf.text = None \/ matches_any(pf.text, {p.value : p \in candidates}))

RECURSIVE component_matches_filter(_, _)
\* nested_other_filters_match()
NestedMatch(comps, filters) ==
    \A f \in filters :
        LET children == {c \in comps : c.kind = f.name}
        IN  IF f.undefined THEN children = {} ELSE \E c \in children : component_matches_filter(c, f)
component_matches_filter(c, f) ==
    /\ f.range = None \/ Overlaps(component_span(c), f.range)
    /\ \A pf \in f.props : matches_prop_values(c.props, pf)
    /\ NestedMatch(c.comps, f.comps)

\* matches_calendar(): a calendar is [props, comps], Bad when it cannot be read.
matches_calendar(cal, f) ==
    IF f.name = "VCALENDAR"
    THEN /\ ~f.undefined
         /\ f.range = None \/ \E c \in cal.comps : Overlaps(component_span(c), f.range)
         /\ \A pf \in f.props : matches_prop_values(cal.props, pf)
         /\ NestedMatch(cal.comps, f.comps)
    ELSE NestedMatch(cal.comps, {f})
calendar_matches_query(cal, f) == f # None /\ cal # Bad /\ matches_calendar(cal, f)

-----------------------------------------------------------------------------
(* free-busy-query. An interval is [start, end, type]; types are ordered.  *)

BUSY == 1
TENTATIVE == 2
UNAVAILABLE == 3

event_busy_type(c) ==
    IF c.transp = "TRANSPARENT" \/ c.status = "CANCELLED" THEN None
    ELSE IF c.status = "TENTATIVE" THEN TENTATIVE ELSE BUSY

from_fbtype(value) ==
    CASE value = "FREE" -> None [] value = "BUSY-TENTATIVE" -> TENTATIVE
      [] value = "BUSY-UNAVAILABLE" -> UNAVAILABLE [] OTHER -> BUSY

\* A plausible mistake: an occurrence that was moved is counted twice.
OverriddenNever(c, cal) == {}

\* The occurrences that other components of the same object stand for.
Overridden(c, cal) ==
    IF c.uid = None THEN {}
    ELSE {to_utc(o.recid) : o \in {x \in cal.comps : x.kind = "VEVENT" /\ x.uid = c.uid /\ x.recid # None}}

\* The first occurrences from the length of the event before the range on, at
\* most so many of them.
Expanded(c, length, from, to) ==
    LET window == {s \in c.rec : from - length <= s /\ s <= to}
    IN  {s \in window : Cardinality({x \in window : x <= s}) <= MaxOccurrences}

event_occurrences_in_range(c, cal, from, to) ==
    LET span == component_span(c)
        length == span.end - span.start
        starts == IF c.rec \in {None, Bad} THEN {span.start}
                  ELSE Expanded(c, length, from, to) \ Overridden(c, cal)
    IN  IF span = None THEN {}
        ELSE {[start |-> s, end |-> s + length] :
                s \in {x \in starts : time_spans_overlap(x, x + length, from, to)}}

\* parse_freebusy_period(): [start, end] or [start, duration].
PeriodEnd(p) == IF p.end # None THEN p.end ELSE IF p.duration # None THEN p.start + p.duration ELSE None
collect_vfreebusy_periods(c, from, to) ==
    {[start |-> p.start, end |-> PeriodEnd(p), type |-> from_fbtype(p.fbtype)] :
        p \in {x \in c.periods : /\ from_fbtype(x.fbtype) # None
                                 /\ PeriodEnd(x) # None /\ x.start <= PeriodEnd(x)
                                 /\ time_spans_overlap(x.start, PeriodEnd(x), from, to)}}

calendar_busy_intervals(cal, from, to) ==
    UNION {IF c.kind = "VFREEBUSY" THEN collect_vfreebusy_periods(c, from, to)
           ELSE IF c.kind = "VEVENT" /\ event_busy_type(c) # None
           THEN {[start |-> o.start, end |-> o.end, type |-> event_busy_type(c)] :
                    o \in event_occurrences_in_range(c, cal, from, to)}
           ELSE {} : c \in cal.comps}

\* A plausible mistake: a period inside another one ends it.
CoalesceShrinks(merged, next) ==
    IF merged # <<>> /\ Last(merged).type = next.type /\ next.start <= Last(merged).end
    THEN [merged EXCEPT ![Len(merged)].end = next.end]
    ELSE Append(merged, next)

Coalesce(merged, next) ==
    IF merged # <<>> /\ Last(merged).type = next.type /\ next.start <= Last(merged).end
    THEN IF next.end > Last(merged).end THEN [merged EXCEPT ![Len(merged)].end = next.end] ELSE merged
    ELSE Append(merged, next)

merge_busy_intervals(intervals) ==
    LET byType(a, b) == a.type < b.type \/ (a.type = b.type /\ a.start < b.start)
        byStart(a, b) == a.start < b.start \/ (a.start = b.start /\ a.type < b.type)
    IN  SortSeq(FoldLeft(Coalesce, <<>>, SortSeq(SetToSeq(intervals), byType)), byStart)

\* handle_freebusy_query() on the objects it read: refused, or what is busy.
\* A bound is a UTC date and time; None stands for anything else.
freebusy(objects, from, to) ==
    IF from = None \/ to = None \/ from >= to THEN None
    ELSE merge_busy_intervals(UNION {calendar_busy_intervals(cal, from, to) : cal \in objects \ {Bad}})
-----------------------------------------------------------------------------

\* The instants an event takes up: its time, a day when it has a date alone,
\* or the one instant it starts at.
Instants(c) ==
    LET s == to_utc(c.start)
        end == CASE c.end # None -> to_utc(c.end) [] c.end = None /\ c.duration # None -> s + c.duration
                 [] OTHER -> IF c.start.kind = "date" THEN s + Day ELSE s
    IN  IF end = s THEN {s} ELSE s..(end - 1)
Within(t, range) == (range.start = None \/ range.start <= t) /\ (range.end = None \/ t < range.end)

\* An event is in a time range if and only if they share an instant, and a
\* range that cannot be read finds nothing (RFC 4791 9.9, VEVENT).
OverlapLaw(event, range) ==
    Overlaps(component_span(event), range) = (Bounded(range) /\ \E t \in Instants(event) : Within(t, range))

\* Durations add up what they name, in one of the two places a unit belongs in.
DurationLaw(words) ==
    LET value == parse_ical_duration(FALSE, words)
        has(units) == {i \in DOMAIN words : words[i].unit \in units}
        sum(units) == MapThenSumSet(LAMBDA i : words[i].n * Weight[words[i].unit], has(units))
        T == has({"T"})
    IN  value # None =>
            /\ value = sum({"W", "D"}) + sum({"H", "M", "S"})
            /\ parse_ical_duration(TRUE, words) = -value
            /\ Cardinality(T) <= 1 /\ has({"P"}) = {1}
            /\ \A i \in has({"H", "M", "S"}) : \E t \in T : t < i
            /\ \A i \in has({"W", "D"}), t \in T : i < t

\* A property filter and the one that negates its text never match together
\* and leave out nothing; an instance its time range or parameters exclude
\* never counts; and "is-not-defined" is the opposite of the name alone.
PropLaw(props, pf) ==
    LET bare == [pf EXCEPT !.text = None]
        counting == {p \in props : matches_prop_values({p}, bare)}
        nameOnly == [bare EXCEPT !.range = None, !.params = {}, !.undefined = FALSE]
    IN  /\ pf.text # None /\ ~pf.undefined =>
              LET negated == [pf EXCEPT !.text.negate = ~@]
              IN  /\ ~(matches_prop_values(props, pf) /\ matches_prop_values(props, negated))
                  /\ (matches_prop_values(props, pf) \/ matches_prop_values(props, negated))
                        = matches_prop_values(props, bare)
        /\ ~pf.undefined => matches_prop_values(props, pf) = matches_prop_values(counting, pf)
        /\ matches_prop_values(props, [nameOnly EXCEPT !.undefined = TRUE]) # matches_prop_values(props, nameOnly)

\* A query finds an object when one component meets all that is asked of it,
\* with or without the VCALENDAR around the filter.
QueryLaw(cal, f) ==
    LET wrapped == [name |-> "VCALENDAR", undefined |-> FALSE, range |-> None, props |-> {}, comps |-> {f}]
        of == {c \in cal.comps : c.kind = f.name}
        only(c) == [cal EXCEPT !.comps = {c}]
    IN  /\ calendar_matches_query(cal, wrapped) = calendar_matches_query(cal, f)
        /\ f.undefined => calendar_matches_query(cal, f) = (of = {})
        /\ ~f.undefined => calendar_matches_query(cal, f) = \E c \in of : calendar_matches_query(only(c), f)
        /\ ~f.undefined /\ f.range # None /\ calendar_matches_query(cal, f) =>
              calendar_matches_query(cal, [wrapped EXCEPT !.range = f.range, !.comps = {}])
        /\ ~calendar_matches_query(Bad, f) /\ ~calendar_matches_query(cal, None)

\* The report says of each instant in the range whether, and how, one of the
\* events occupies it, and of no instant what is not so: whatever the events'
\* own order, how they overlap, and which occurrences were moved. The periods
\* come in order, and no two of a type overlap or touch. An event that occurs
\* more often than the bound on its expansion may be missed after that.
FreeBusyLaw(objects, from, to) ==
    LET report == freebusy(objects, from, to)
        span(c) == component_span(c)
        moved(c, cal) == {to_utc(o.recid) : o \in {x \in cal.comps : x.uid # None /\ x.uid = c.uid /\ x.recid # None}}
        starts(c, cal) == IF c.rec \in {None, Bad} THEN {to_utc(c.start)} ELSE c.rec \ moved(c, cal)
        Takes(c, cal, t) == \E s \in starts(c, cal) : s <= t /\ t < s + span(c).end - span(c).start
        At(t, type) ==
            \E cal \in objects \ {Bad} : \E c \in cal.comps :
                \/ c.kind = "VEVENT" /\ event_busy_type(c) = type /\ Takes(c, cal, t)
                \/ c.kind = "VFREEBUSY" /\ \E p \in c.periods :
                        from_fbtype(p.fbtype) = type /\ PeriodEnd(p) # None /\ p.start <= t /\ t < PeriodEnd(p)
        Said(t, type) == \E i \in DOMAIN report : report[i].type = type /\ report[i].start <= t /\ t < report[i].end
        few == \A cal \in objects \ {Bad} : \A c \in cal.comps :
                  c.rec \in {None, Bad} \/ Cardinality(c.rec) <= MaxOccurrences
    IN  /\ (report = None) = (from = None \/ to = None \/ ~(from < to))
        /\ report # None =>
              /\ \A t \in (from - 2 * Day)..(to + 2 * Day), type \in {BUSY, TENTATIVE, UNAVAILABLE} :
                    /\ Said(t, type) => At(t, type)
                    /\ few /\ from <= t /\ t < to /\ At(t, type) => Said(t, type)
              /\ \A i, j \in DOMAIN report : i < j =>
                    /\ report[i].start <= report[j].start
                    /\ report[i].type = report[j].type => report[i].end < report[j].start
=============================================================================
