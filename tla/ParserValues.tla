---------------------------- MODULE ParserValues ----------------------------
(***************************************************************************)
(* The values parse() passes to the actions of rules and takes from them.  *)
(* A value is the sequence of what it was made of, so a value that is      *)
(* lost, repeated or out of order shows.                                   *)
(***************************************************************************)
EXTENDS Parser, SequencesExt

\* The tokens that are on the stack, in a value or as an empty one.
Consumed == SubSeq(input, 1, Len(input) + 1 - Len(unread) - Len(token))

EveryRuleActs == \A r \in DOMAIN table.style : table.style[r] # "None"

Values(entries) == FlattenSeq([k \in DOMAIN entries |-> entries[k].value])

-----------------------------------------------------------------------------
(* Properties *)

\* Where every rule has an action, the values on the stack are those of the tokens
\* shifted, each once and in order, whatever a midrule action borrowed, kept or
\* gave back.
ValuesInOrder == EveryRuleActs => Values(stack) = Values(Consumed)

\* The value parse() returns is made of the values of all the tokens of the input.
ValueIsOfInput == outcome.kind = "Value" /\ EveryRuleActs => outcome.value = Values(input)

=============================================================================
