------------------------------ MODULE BitFields -----------------------------
(***************************************************************************)
(* Shifts and masks. A machine word, an argument or a byte is the set of   *)
(* the positions of its one bits, 0 the least significant: OR is union,    *)
(* AND with a mask is intersection, so widths up to 32 bits are exact and  *)
(* two fields that overlap show as a union that cannot be taken apart.     *)
(***************************************************************************)
EXTENDS Integers, Sequences, FiniteSets, FiniteSetsExt

(* Of a number below 2^16, and back from one below 2^31. *)
Bits(n) == {i \in 0 .. 15 : (n \div 2 ^ i) % 2 = 1}
Num(b)  ==
  LET from[k \in 0 .. 31] ==   (* the k highest of the 31 bits *)
        IF k = 0 THEN 0 ELSE 2 * from[k - 1] + (IF 31 - k \in b THEN 1 ELSE 0)
  IN  from[31]

(* (x >> lo) & (2^k - 1), and x << lo *)
Take(x, lo, k) == {i \in 0 .. k - 1 : lo + i \in x}
Put(x, lo)     == {lo + i : i \in x}

(* Bits from .. from + k - 1 of argument arg lie at bit lo of word w. *)
Piece(arg, from, k, w, lo) ==
  [arg |-> arg, from |-> from, width |-> k, word |-> w, lo |-> lo]
F(arg, k, w, lo) == Piece(arg, 0, k, w, lo)

ArgsOf(fields)     == {f.arg : f \in fields}
Pieces(fields, a)  == {f \in fields : f.arg = a}
(* The bits of argument a that the fields have room for. *)
RangeOf(fields, a) == UNION {f.from .. f.from + f.width - 1 : f \in Pieces(fields, a)}

(* What the fields put into word w, and what they read argument a as. *)
Packed(fields, args, w) ==
  UNION {Put(Take(args[f.arg], f.from, f.width), f.lo) : f \in {g \in fields : g.word = w}}
Unpacked(fields, words, a) ==
  UNION {Put(Take(words[f.word], f.lo, f.width), f.from) : f \in Pieces(fields, a)}

(* One table of several that name different things. *)
Merged(tables) ==
  [name \in UNION {DOMAIN t : t \in tables} |-> (CHOOSE t \in tables : name \in DOMAIN t)[name]]

(* Sequences of bytes without their trailing zeros. *)
Trimmed(bs) == SubSeq(bs, 1, Max({0} \union {i \in DOMAIN bs : bs[i] # {}}))
=============================================================================
