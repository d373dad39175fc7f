---------------------------- MODULE MCConfigApply ----------------------------
(* Instances of ConfigApply for TLC. *)
EXTENDS ConfigApply, TLC

CONSTANTS c1, c2, p1, p2

\* Both commands write the same package, c2 also a second one.
MCTouches == [c \in {c1, c2} |-> IF c = c1 THEN {p1} ELSE {p1, p2}]

\* Both commands write the same, only package.
MCTouchesSame == [c \in {c1, c2} |-> {p1}]

\* Where both commands touch the same packages they are interchangeable.
CmdSymmetry == Permutations(Cmds)

\* One command, one package.
MCTouchesOne == [c \in {c1} |-> {p1}]

=============================================================================
