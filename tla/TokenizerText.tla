---------------------------- MODULE TokenizerText ---------------------------
(***************************************************************************)
(* The stack of input streams as one text, and the tokens that are in it.  *)
(***************************************************************************)
EXTENDS Tokenizer, SequencesExt

CONSTANTS EndMark, Wall          \* as in Scanner

Written(stream) == Append(stream.text, IF stream.at_end THEN Wall ELSE EndMark)

\* What is still to be read, the stream on top first.
Rest == FlattenSeq([k \in DOMAIN streams |-> Written(streams[Len(streams) + 1 - k])])

Text == INSTANCE Scanner WITH
  Scanners <- Prepared,
  rest     <- Rest,
  asked    <- phase \in {"Looping", "Comparing"},
  stopped  <- phase = "Stopped"

\* A stream that is pushed, by the user or by an action of a token, reads as if it
\* stood in the text of the stream below, and every text is cut into tokens by the
\* longest match and the order of declaration alone.
ScansText == Text!Spec

=============================================================================
