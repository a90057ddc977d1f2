----------------------------- MODULE MCRuleEngine -----------------------------
\* Small rule packs over two event types; a count is already expanded.
EXTENDS RuleEngine

CONSTANTS d1, d2

On(type) == [type |-> type, negate |-> FALSE]
Not(type) == [type |-> type, negate |-> TRUE]
MCRule(triggers, window, sameDevice) ==
    [triggers |-> triggers, window |-> window, sameDevice |-> sameDevice]

\* Each start opens four partials: A then B; the same B twice after an A
\* (count: 2); A without B; A twice with no B between.  A bare B fires at once.
RulePack == <<MCRule(<<On("A"), On("B")>>, 1, TRUE),
              MCRule(<<On("A"), On("B"), On("B")>>, 2, TRUE),
              MCRule(<<On("A"), Not("B")>>, 2, TRUE),
              MCRule(<<On("A"), Not("B"), On("A")>>, 1, TRUE),
              MCRule(<<On("B")>>, 1, TRUE)>>

\* A without B and without C.
TwoNegations == <<MCRule(<<On("A"), Not("B"), Not("C")>>, 2, TRUE)>>
=============================================================================
