-------------------------------- MODULE Bits --------------------------------
(***************************************************************************)
(* Machine words as sets of bit numbers: 2^i is in a word when i is.  The  *)
(* C operators &, |, ^ and a mask are then \cap, \cup, Xor and \cap        *)
(* Below(n), and no number is ever larger than TLC's integers or the       *)
(* provers' reach.  Arithmetic is that of uint32_t.                        *)
(***************************************************************************)
EXTENDS Integers

Below(n) == 0 .. n - 1
Words(n) == SUBSET Below(n)

Xor(a, b) == (a \ b) \cup (b \ a)

\* a << n without a bound, and a >> n.
Up(a, n) == {i + n : i \in a}
Down(a, n) == {i - n : i \in {j \in a : j >= n}}

\* The positions a carry enters when a and b are added: one was generated
\* at some lower j, and every position between propagates it.
Carries(a, b) ==
  {i \in 1 .. 31 : \E j \in 0 .. i - 1 :
     j \in a \cap b /\ (j + 1) .. (i - 1) \subseteq a \cup b}

\* Mutant: the carry does not travel.
Plus_NoRipple(a, b) ==
  Xor(Xor(a, b), Up(a \cap b, 1) \cap Below(32))

\* a + b, and -a, which C spells ~a + 1.
Plus(a, b) == Xor(Xor(a, b), Carries(a, b))
Minus(a) == Plus(Below(32) \ a, {0})
=============================================================================
