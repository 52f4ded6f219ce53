-------------------------- MODULE MCAccountDelete --------------------------
(* Two accounts with the same attachment: in a recent message of the first, *)
(* and in an old one of the second, for which it is stored.                 *)
EXTENDS AccountDelete

CONSTANTS a1, a2, h1

AccountSet == {a1, a2}
Attachments == [a \in AccountSet |-> {h1}]
Recent1 == [a \in AccountSet |-> IF a = a1 THEN {h1} ELSE {}]
Stored2 == [a \in AccountSet |-> IF a = a2 THEN {h1} ELSE {}]
=============================================================================
