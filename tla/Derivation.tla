----------------------------- MODULE Derivation -----------------------------
(***************************************************************************)
(* What Parser::parse() promises about the language: the input, with @end  *)
(* behind it, is taken back to the right-hand side of the start rule by    *)
(* replacing right-hand sides by left-hand sides, the rightmost derivation *)
(* in reverse.  There is no stack here, no state and no table.             *)
(***************************************************************************)
EXTENDS Grammar

CONSTANT Grammars

VARIABLES
  g,           \* the grammar
  form,        \* the sentential form reached, @end included
  accepted

Derived(gr) == {gr.rules[r].lhs : r \in RuleIndex(gr)}

\* Nothing but terminals, @end and what the tokenizer does not know.
Input(gr, word) == \A k \in DOMAIN word : word[k] \notin Derived(gr)

Init ==
  /\ g \in Grammars
  /\ form # <<>> /\ form[Len(form)] = EndSymbol
  /\ Input(g, form)
  /\ accepted = FALSE

\* The right-hand side of rule r lies between before and after.
Handle(r, before, after) ==
  /\ form = before \o g.rules[r].rhs \o after
  /\ Input(g, after)

ReduceHandle ==
  /\ ~accepted
  /\ \E r \in RuleIndex(g) \ {StartRule} : \E p \in 0 .. Len(form) : \E q \in p .. Len(form) :
       LET before == SubSeq(form, 1, p)
           after  == SubSeq(form, q + 1, Len(form))
       IN  Handle(r, before, after) /\ form' = before \o <<g.rules[r].lhs>> \o after
  /\ UNCHANGED <<g, accepted>>

Accept ==
  /\ ~accepted
  /\ form = g.rules[StartRule].rhs
  /\ accepted' = TRUE
  /\ UNCHANGED <<g, form>>

Next == ReduceHandle \/ Accept

Spec == Init /\ [][Next]_<<g, form, accepted>>

=============================================================================
