---- MODULE MCJoystickReport ----
(* Pairs of the numbers at both ends of the first, second and last byte and of the
   first numbers that lead outside them; a negative number; a list whose last button
   is the seventeenth; positions inside, at and beyond the limits. *)
EXTENDS JoystickReport

Numbers == {1, 3, 8, 9, 16, 127, 128, -8}
Long == [i \in 1..17 |-> IF i < 16 THEN 1 ELSE i - 6]
Lists == {<<0>>, <<9, -7>>, Long} \cup {<<a, b>> : a, b \in Numbers}
SomePositions == {-2000, -1000, 0, 1, 999, 1001}
BothModes == {0, 1}
SomeBytes == {0, 255}
====
