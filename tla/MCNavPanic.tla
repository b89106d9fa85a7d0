------------------------------- MODULE MCNavPanic -------------------------------
(* Navigation with two accounts, of which the configuration knows one.       *)
EXTENDS Navigation

MCKnown == <<2>>
MCNamed == [t \in Texts |-> IF t = "two" THEN {2} ELSE {}]
MCContents == [i \in Ids |-> IF i = 1 THEN SUBSET Texts ELSE {{}}]

================================================================================
