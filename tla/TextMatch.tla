------------------------------ MODULE TextMatch ------------------------------
(* dav_filters.rs: the text and parameter filters calendar and address     *)
(* book queries share. A text is a sequence of letters [letter, upper].    *)
EXTENDS Naturals, Sequences, SequencesExt

CONSTANT None

Lower(text) == [i \in DOMAIN text |-> [text[i] EXCEPT !.upper = FALSE]]

\* An unknown collation compares letter by letter, an unknown match type as "contains".
CaseInsensitive(tm) == tm.collation \in {None, "i;ascii-casemap", "i;unicode-casemap"}

HasPart(text, part) == \E i \in 1..(Len(text) + 1) : IsPrefix(part, SubSeq(text, i, Len(text)))

\* TextMatch::matches()
matches(tm, value) ==
    LET haystack == IF CaseInsensitive(tm) THEN Lower(value) ELSE value
        needle == IF CaseInsensitive(tm) THEN Lower(tm.text) ELSE tm.text
    IN  CASE tm.type = "equals" -> haystack = needle
          [] tm.type = "starts-with" -> IsPrefix(needle, haystack)
          [] tm.type = "ends-with" -> IsSuffix(needle, haystack)
          [] OTHER -> HasPart(haystack, needle)

\* A plausible mistake: each value is negated by itself.
matches_anyEach(tm, values) == \E v \in values : matches(tm, v) # tm.negate

matches_any(tm, values) == (\E v \in values : matches(tm, v)) # tm.negate

\* A parameter filter on the values a property instance has for its name.
ParamMatches(pf, values) ==
    IF pf.undefined THEN values = {}
    ELSE values # {} /\ (pf.text = None \/ matches_any(pf.text, values))

-----------------------------------------------------------------------------

\* A text-match is true of a set of values or its negation is, never both; the
\* match types imply one another; letter case matters for no known collation.
TextLaw(tm, values) ==
    LET as(type) == [tm EXCEPT !.type = type, !.negate = FALSE]
        negated == [tm EXCEPT !.negate = ~@]
    IN  /\ matches_any(tm, values) # matches_any(negated, values)
        /\ values = {} => matches_any(tm, values) = tm.negate
        /\ \A v \in values :
              /\ matches(as("equals"), v) = (matches(as("starts-with"), v) /\ Len(v) = Len(tm.text))
              /\ matches(as("equals"), v) = (matches(as("ends-with"), v) /\ Len(v) = Len(tm.text))
              /\ matches(as("starts-with"), v) \/ matches(as("ends-with"), v) => matches(as("contains"), v)
              /\ tm.type = None => matches(tm, v) = matches(as("contains"), v)
              /\ tm.collation = "i;octet" => (matches(as("equals"), v) = (v = tm.text))
              /\ tm.collation # "i;octet" => matches(tm, v) = matches(tm, Lower(v))
        /\ tm.negate => (matches_any(tm, values) = \A v \in values : ~matches(tm, v))
=============================================================================
