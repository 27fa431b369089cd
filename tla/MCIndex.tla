------------------------------- MODULE MCIndex -------------------------------
EXTENDS Lookup

\* Four characters: one with the readings a and e, ba, bo, zhu.
A == <<-80, -94>>
C == <<-78, -88>>
B == <<-80, -53>>
Z == <<-42, -9>>
Syllables == (A :> <<97>>) @@ (B :> <<98, 97>>) @@ (C :> <<98, 111>>) @@ (Z :> <<122, 104, 117>>)
Several == (A :> <<<<97>>, <<101>>>>)
PySet == {<<97>>, <<101>>, <<98, 97>>, <<98, 111>>, <<122, 104, 117>>}
Tails == << <<>>, <<97>>, <<104, 117>>, <<111>> >>
Parted == ((B \o A \o Z) :> <<B, A \o Z>>) @@ ((C \o A \o Z) :> <<C \o A, Z>>)

P1 == <<49>>
P2 == <<50>>
Word(pre, value, weight, extra) ==
  [pre |-> pre, value |-> value, weight |-> weight, attr |-> 1, bar |-> TRUE, extra |-> extra]

\* A word given twice, one too heavy, one in two parts, one with letters, and one that is not.
Words1 == <<Word(P1, B \o A, 5, <<>>), Word(P1, B \o Z, 2000, <<120>>), Word(P1, B \o A, 7, <<>>),
            Word(P1, B \o A \o Z, 9, <<>>), Word(P1, C \o A \o Z, 8, <<>>), Word(P2, <<65, 32, 49>>, 3, <<>>), Word(P2, <<33>>, 3, <<>>)>>
Words2 == <<Word(P1, A \o Z, 4, <<>>), Word(P1, B \o A \o Z, -2, <<>>), Word(P1, B \o <<97>>, 6, <<>>), Word(P1, B \o <<98>>, 2, <<>>)>>

InputsDef ==
  {[words |-> Words1, sel |-> {CHINESE, SPELL, SIMPLE, EX(CHINESE), EX(SPELL), EX(SIMPLE)}, del |-> <<<<P1, B \o A>>, <<P1, B \o Z>>>>],
   [words |-> Words2, sel |-> {CHINESE, SPELL, SIMPLE, CENTER_CHINESE, CENTER_SPELL, CENTER_SIMPLE}, del |-> <<>>]}

KeyBytes == {<<1>>, <<2>>, <<1, 1>>, <<-1>>, <<3>>, <<1, 2>>, <<1, -1>>}
SecondOf(x) == <<"second", x>>

VARIABLE part
mcVars == <<treeVars, buildVars, part>>
Init == TreeInit /\ BuildInit /\ part \in {"tree", "build"}
Next ==
  \/ part = "tree" /\ TreeNext /\ UNCHANGED <<buildVars, part>>
  \/ part = "build" /\ BuildNext /\ UNCHANGED <<treeVars, part>>
Spec == Init /\ [][Next]_mcVars
=============================================================================
