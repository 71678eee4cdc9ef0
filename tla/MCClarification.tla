-------------------------- MODULE MCClarification ----------------------------
(* Two companies with similar names, one name that fits both and one exact.  *)
EXTENDS Clarification
CONSTANTS acme, bolt, AcmeName, Vague

MCMatches == [e \in {AcmeName, Vague} |-> IF e = AcmeName THEN <<acme>> ELSE <<bolt, acme>>]
MCExact == [e \in {AcmeName, Vague} |-> IF e = AcmeName THEN {acme} ELSE {}]
MCAsked == {<<Vague>>, <<AcmeName, Vague>>}
MCCorpora == SUBSET {acme, bolt}
MCScopes == {All, {acme}}
MCAnswers == {[decision |-> "resolved", picks |-> <<bolt>>],
              [decision |-> "none", picks |-> <<>>]}
\* Replies are interchangeable.
MCSymmetry == Permutations(Replies)
=============================================================================
