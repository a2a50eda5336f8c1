------------------------------- MODULE Numerals -------------------------------
(***************************************************************************)
(* Numbers and the figures they are written in, to any base.               *)
(***************************************************************************)
EXTENDS Naturals, Sequences

\* What is left of n without its last k figures.
Cut(n, base, k) ==
    LET cut[i \in 0..k] == IF i = 0 THEN n ELSE cut[i - 1] \div base
    IN  cut[k]

\* The last len figures of n.
Figures(n, base, len) == [i \in 1..len |-> Cut(n, base, len - i) % base]

\* How many figures n has without zeros in front; 0 has none.
Width(n, base) ==
    CHOOSE len \in 0..n : Cut(n, base, len) = 0 /\ \A k \in 0..(len - 1) : Cut(n, base, k) # 0

InBase(n, base) == Figures(n, base, Width(n, base))

\* The number with these figures behind those of start.
Number(start, figures, base) ==
    LET number[i \in 0..Len(figures)] == IF i = 0 THEN start ELSE number[i - 1] * base + figures[i]
    IN  number[Len(figures)]

Zeros(len) == [i \in 1..len |-> 0]
===============================================================================
