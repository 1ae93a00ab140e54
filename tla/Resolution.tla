----------------------------- MODULE Resolution -----------------------------
(***************************************************************************)
(* Precedences, and how they and the order of the rules settle which       *)
(* action a state has for a symbol.  The automaton is a constant here: the *)
(* table that is being filled and a table that is already there share this *)
(* module.                                                                 *)
(***************************************************************************)
EXTENDS Integers, Sequences

CONSTANTS
  Symbol,                                  \* names of symbols of any grammar
  g, states, transitions, lookahead        \* the automaton

G == INSTANCE Grammar

Shift(k)  == [kind |-> "Shift", state |-> k]
Reduce(r) == [kind |-> "Reduce", rule |-> r]
Accept    == [kind |-> "Accept"]

-----------------------------------------------------------------------------
(* Precedence *)

Less(p, q)    == p.level < q.level \/ (p.level = q.level /\ p.assoc = "Right")
Greater(p, q) == p.level > q.level \/ (p.level = q.level /\ p.assoc = "Left")

SymbolPrecedence(s) ==
  IF s \in DOMAIN g.precedence THEN g.precedence[s] ELSE G!NoPrecedence

\* The read positions of a rule that terminals are at.
TerminalsOf(r) == {p \in DOMAIN g.rules[r].rhs : G!IsTerminal(g, g.rules[r].rhs[p])}

IsRightmost(p, S) == p \in S /\ \A q \in S : q <= p

\* A rule's own precedence or else that of its rightmost terminal.
StackPrecedence(r) ==
  IF g.rules[r].precedence # G!NoPrecedence THEN g.rules[r].precedence
  ELSE IF TerminalsOf(r) = {} THEN G!NoPrecedence
  ELSE SymbolPrecedence(g.rules[r].rhs[CHOOSE p \in TerminalsOf(r) : IsRightmost(p, TerminalsOf(r))])

\* Both sides have a precedence.
Comparable(r, s) == StackPrecedence(r) # G!NoPrecedence /\ SymbolPrecedence(s) # G!NoPrecedence

\* Lookahead's operator[] has an empty set for a key that is not there.
SymbolsOf(i, r) == IF <<i, r>> \in DOMAIN lookahead THEN lookahead[<<i, r>>] ELSE {}

-----------------------------------------------------------------------------
(* What the rules of add_reduction() come to *)

\* The final items of a state that have a lookahead.
Candidates(i, s) == {item \in states[i] : G!IsFinal(g, item) /\ s \in SymbolsOf(i, item.rule)}

FirstItem(S) == CHOOSE item \in S : \A other \in S : ~G!ItemLess(other, item)
LastItem(S)  == CHOOSE item \in S : \A other \in S : ~G!ItemLess(item, other)

\* The shift or the accept that a state begins with, if any.
Initial(i, s) == {Shift(e[3]) : e \in {x \in transitions : x[1] = i /\ x[2] = s /\ G!IsTerminal(g, s)}} \cup
                 {Accept : item \in {x \in states[i] : G!Reads(g, x, s) /\ s = G!EndSymbol}}

\* The actions, one or none, that the rules of add_reduction() leave: the last
\* rule with a greater precedence than the lookahead, but the first item needs
\* none to fill an empty entry.
Resolved(i, s) ==
  LET C == Candidates(i, s)
      Contenders == IF Initial(i, s) = {} THEN C \ {FirstItem(C)} ELSE C
      Greaters == {item \in Contenders : /\ Comparable(item.rule, s)
                                         /\ ~Less(StackPrecedence(item.rule), SymbolPrecedence(s))}
  IN  IF C = {} THEN Initial(i, s)
      ELSE IF Greaters # {} THEN {Reduce(LastItem(Greaters).rule)}
      ELSE IF Initial(i, s) # {} THEN Initial(i, s)
      ELSE {Reduce(FirstItem(C).rule)}

=============================================================================
