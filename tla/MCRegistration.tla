-------------------------- MODULE MCRegistration --------------------------
EXTENDS Registration

CONSTANTS ana, Ana, bo

Names == {ana, Ana, bo}

InSmallLetters == [n \in Names |-> IF n = Ana THEN ana ELSE n]
=============================================================================
