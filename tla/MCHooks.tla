------------------------------ MODULE MCHooks -------------------------------
(* Small instances of Hooks for TLC.                                       *)
EXTENDS Hooks

CONSTANTS a, b, lint, fmt, opus

MCUrls == {a, b}
MCOwn == {lint, fmt}
MCEvents == {"PreToolUse", "Stop"}
MCMatched == {"PreToolUse"}

Of(cmds) == [matcher |-> "", cmds |-> cmds]

\* Values of an event: none, user entries in either order, entries of an
\* older apply, an entry that mixes ours with the user's, no array.
Values ==
    {<<>>, <<Of({lint}), Of({fmt})>>, <<Of({fmt}), Of({a}), Of({lint})>>,
     <<Of({a}), Of({a, b})>>, NotAList}

MixedValues == {<<Of({lint}), Of({a, fmt}), Of({lint})>>}

Saved(value) ==
    [kind |-> "settings", pretty |-> FALSE, keys |-> opus,
     hooks |-> [e \in Events |-> IF e = "Stop" THEN <<Of({fmt})>> ELSE value]]

\* Besides settings: no file, an empty one, one that does not parse.
MCUserFiles ==
    {Saved(value) : value \in Values \cup MixedValues}
        \cup {File("missing"), File("empty"), File("broken")}
=============================================================================
