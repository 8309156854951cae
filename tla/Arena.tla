------------------------------- MODULE Arena -------------------------------
(***************************************************************************)
(* What malloc and free promise a program: blocks inside an arena that     *)
(* never overlap, and whose words only the program itself changes.         *)
(***************************************************************************)
EXTENDS Integers

CONSTANTS Low, High,    \* the arena is the bytes Low .. High - 1
          Sizes,        \* the sizes a program asks for
          Values        \* what it may write

VARIABLES owned,        \* owned[p]: the size of the block given out at p
          words         \* words[p]: the words of that block

avars == <<owned, words>>

Bytes(p, n) == p .. p + n - 1

InitArena == owned = << >> /\ words = << >>

(* The contents of a new block are not specified.                          *)
Give(n) ==
  \E p \in Low .. High - n :
    /\ p \notin DOMAIN owned
    /\ \A q \in DOMAIN owned : Bytes(p, n) \cap Bytes(q, owned[q]) = {}
    /\ owned' = [q \in DOMAIN owned \cup {p} |-> IF q = p THEN n ELSE owned[q]]
    /\ DOMAIN words' = DOMAIN owned'
    /\ \A q \in DOMAIN owned : words'[q] = words[q]

Take(p) ==
  /\ owned' = [q \in DOMAIN owned \ {p} |-> owned[q]]
  /\ words' = [q \in DOMAIN owned \ {p} |-> words[q]]

Fill(p, v) ==
  /\ words' = [words EXCEPT ![p] = [k \in DOMAIN words[p] |-> v]]
  /\ UNCHANGED owned

NextArena == \/ \E n \in Sizes : Give(n)
             \/ \E p \in DOMAIN owned : Take(p) \/ \E v \in Values : Fill(p, v)

ArenaSpec == InitArena /\ [][NextArena]_avars
=============================================================================
