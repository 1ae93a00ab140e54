------------------------------ MODULE Patterns ------------------------------
(***************************************************************************)
(* The regular expressions that tokens are defined with, as RE2 matches    *)
(* them at the start of a text.  RE2 is a library: this much of it is what *)
(* the tokenizer relies on.                                                *)
(*                                                                         *)
(* A text is a sequence of characters.  A pattern is a sequence of         *)
(* alternatives, of which the first that matches counts; an alternative is *)
(* a record                                                                *)
(*   classes   one set of characters for each place                        *)
(*   repeats   whether the last class may occur more often (greedily)      *)
(*   guard     "None", "Boundary" for (\b|$), or "End" for $               *)
(***************************************************************************)
EXTENDS Naturals, Sequences, FiniteSetsExt

CONSTANT WordCharacters          \* the characters that \b looks for

Alternative(classes, repeats, guard) == [classes |-> classes, repeats |-> repeats, guard |-> guard]

Word(text)       == Alternative([k \in DOMAIN text |-> {text[k]}], FALSE, "None")
OneOrMore(chars) == Alternative(<<chars>>, TRUE, "None")
EmptyWord        == Word(<<>>)

\* $, the pattern of the token for the end of a stream.
EndOfText == <<Alternative(<<>>, FALSE, "End")>>

-----------------------------------------------------------------------------

IsWordAt(text, k) == k \in DOMAIN text /\ text[k] \in WordCharacters

HoldsAfter(guard, text, n) ==
  CASE guard = "None"     -> TRUE
    [] guard = "End"      -> n = Len(text)
    [] guard = "Boundary" -> IsWordAt(text, n) # IsWordAt(text, n + 1) \/ n = Len(text)

\* The class for place k of a match.
ClassAt(alternative, k) == alternative.classes[IF k > Len(alternative.classes) THEN Len(alternative.classes) ELSE k]

\* The lengths a match of an alternative may have at the start of a text.
Lengths(alternative, text) ==
  {n \in Len(alternative.classes) .. (IF alternative.repeats THEN Len(text) ELSE Len(alternative.classes)) :
     /\ n <= Len(text)
     /\ \A k \in 1 .. n : text[k] \in ClassAt(alternative, k)
     /\ HoldsAfter(alternative.guard, text, n)}

Matching(pattern, text) == {k \in DOMAIN pattern : Lengths(pattern[k], text) # {}}

HasMatch(pattern, text) == Matching(pattern, text) # {}

\* The size of the submatch that RE2::Match gives for a pattern that matches.
MatchSize(pattern, text) == Max(Lengths(pattern[Min(Matching(pattern, text))], text))

\* "<pattern>(\b|$)": the suffix binds to the last alternative only.
Fullword(pattern) == [pattern EXCEPT ![Len(pattern)].guard = "Boundary"]

=============================================================================
