----------------------------- MODULE AddressBook -----------------------------
(* carddav.rs: when a vCard matches an addressbook-query. A vCard is a set *)
(* of entries [name, values, params], a filter [name, undefined, texts,    *)
(* params, test], a query [filters, test, limit]; a test is "anyof" or     *)
(* "allof".                                                                *)
EXTENDS TextMatch, Naturals, FiniteSets

CONSTANT Bad        \* a vCard that cannot be read

\* FilterTest::matches()
TestMatches(test, conditions) == IF test = "anyof" THEN TRUE \in conditions ELSE FALSE \notin conditions

\* vcard_entry_matches_param_filter()
EntryParam(entry, paf) == ParamMatches(paf, {x.value : x \in {y \in entry.params : y.name = paf.name}})

\* A plausible mistake: text and parameters may be those of different entries.
FilterMatchesApart(pf, vcard) ==
    LET entries == {e \in vcard : e.name = pf.name}
        values == UNION {e.values : e \in entries}
    IN  IF pf.undefined THEN entries = {}
        ELSE /\ entries # {}
             /\ \/ pf.texts = {} /\ pf.params = {}
                \/ TestMatches(pf.test, {matches_any(tm, values) : tm \in pf.texts}
                                  \cup {\E e \in entries : EntryParam(e, paf) : paf \in pf.params})

\* One filter of addressbook_matches_parsed_query(): text alone is matched
\* over the values of all entries, text and parameters on one entry.
FilterMatches(pf, vcard) ==
    LET entries == {e \in vcard : e.name = pf.name}
        Text(values) == {matches_any(tm, values) : tm \in pf.texts}
    IN  IF pf.undefined THEN entries = {}
        ELSE /\ entries # {}
             /\ \/ pf.texts = {} /\ pf.params = {}
                \/ /\ pf.params = {}
                   /\ TestMatches(pf.test, Text(UNION {e.values : e \in entries}))
                \/ /\ pf.params # {}
                   /\ \E e \in entries :
                        TestMatches(pf.test, Text(e.values) \cup {EntryParam(e, paf) : paf \in pf.params})

addressbook_matches_parsed_query(vcard, query) ==
    \/ query.filters = {}
    \/ vcard # Bad /\ TestMatches(query.test, {FilterMatches(pf, vcard) : pf \in query.filters})

\* addressbook_matches_query() of the public query with at most one filter,
\* [name, undefined, text, params].
vcard_matches_prop_filter(vcard, pf) ==
    LET entries == {e \in vcard : e.name = pf.name}
        values == UNION {e.values : e \in entries}
        Text(vs) == pf.text = None \/ matches_any(pf.text, vs)
    IN  IF pf.undefined THEN entries = {}
        ELSE /\ entries # {}
             /\ IF pf.params = {} THEN values # {} /\ Text(values)
                ELSE \E e \in entries : Text(e.values) /\ \A paf \in pf.params : EntryParam(e, paf)
addressbook_matches_query(vcard, pf) == pf = None \/ (vcard # Bad /\ vcard_matches_prop_filter(vcard, pf))

\* parse_addressbook_query(): a filter element is [test, filters]; None for a
\* body that is refused.
WellFormed(pf) == pf.test \in {None, "anyof", "allof"} /\ (pf.undefined => pf.texts = {} /\ pf.params = {})
Tested(x) == [x EXCEPT !.test = IF @ = None THEN "anyof" ELSE @]
parse_addressbook_query(elements) ==
    IF elements = <<>> THEN [filters |-> {}, test |-> "anyof"]
    ELSE IF \/ Len(elements) > 1 \/ elements[1].test \notin {None, "anyof", "allof"}
            \/ \E pf \in elements[1].filters : ~WellFormed(pf)
    THEN None
    ELSE Tested([elements[1] EXCEPT !.filters = {Tested(pf) : pf \in @}])

-----------------------------------------------------------------------------

\* The queries that both ways to ask can express find the same vCards, where
\* an entry has a value; a filter's parameters and text are met by one entry;
\* entries of another name change nothing; a filter with more conditions finds
\* more when any will do and less when all must hold; "is-not-defined" is the
\* opposite of the name alone.
FilterLaw(vcard, pf) ==
    LET simple == [name |-> pf.name, undefined |-> pf.undefined, params |-> pf.params,
                   text |-> IF pf.texts = {} THEN None ELSE CHOOSE tm \in pf.texts : TRUE]
        single == [filters |-> {[pf EXCEPT !.test = "allof"]}, test |-> "anyof"]
        named == {e \in vcard : e.name = pf.name}
        nameOnly == [pf EXCEPT !.undefined = FALSE, !.texts = {}, !.params = {}]
    IN  /\ Cardinality(pf.texts) <= 1 /\ (\A e \in vcard : e.values # {}) =>
              addressbook_matches_query(vcard, simple) = addressbook_matches_parsed_query(vcard, single)
        /\ FilterMatches(pf, vcard) = FilterMatches(pf, named)
        /\ ~pf.undefined /\ pf.params # {} =>
              FilterMatches(pf, vcard) = \E e \in named : FilterMatches(pf, {e})
        /\ ~pf.undefined => \A tm \in pf.texts : pf.params # {} =>
              LET less == [pf EXCEPT !.texts = @ \ {tm}]
              IN  /\ pf.test = "anyof" /\ FilterMatches(less, vcard) => FilterMatches(pf, vcard)
                  /\ pf.test = "allof" /\ FilterMatches(pf, vcard) => FilterMatches(less, vcard)
        /\ FilterMatches([nameOnly EXCEPT !.undefined = TRUE], vcard) # FilterMatches(nameOnly, vcard)

\* A query that says the opposite of two filters with the other test is the
\* opposite query, an empty one finds everything, and what cannot be read is
\* found by no other.
QueryLaw(vcard, f, g) ==
    LET query(test) == [filters |-> {f, g}, test |-> test]
        found(test) == addressbook_matches_parsed_query(vcard, query(test))
    IN  /\ found("anyof") = (FilterMatches(f, vcard) \/ FilterMatches(g, vcard))
        /\ found("allof") = (FilterMatches(f, vcard) /\ FilterMatches(g, vcard))
        /\ addressbook_matches_parsed_query(Bad, [filters |-> {}, test |-> "allof"])
        /\ ~addressbook_matches_parsed_query(Bad, query("anyof")) /\ ~addressbook_matches_parsed_query(Bad, query("allof"))

\* A body with two filters, a test nobody defined, or "is-not-defined" with
\* other conditions is refused, and nothing is lost of one that is not.
ParseLaw(elements) ==
    LET parsed == parse_addressbook_query(elements)
    IN  /\ parsed = None => elements # <<>>
        /\ parsed # None /\ elements # <<>> =>
              /\ Len(elements) = 1
              /\ Cardinality(parsed.filters) <= Cardinality(elements[1].filters)
              /\ \A pf \in elements[1].filters : \E q \in parsed.filters :
                    /\ q.name = pf.name /\ q.texts = pf.texts /\ q.params = pf.params /\ q.undefined = pf.undefined
                    /\ q.test = IF pf.test = "allof" THEN "allof" ELSE "anyof"
                    /\ q.undefined => q.texts = {} /\ q.params = {}
=============================================================================
