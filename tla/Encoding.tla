------------------------------- MODULE Encoding -------------------------------
(***************************************************************************)
(* smpp::convert: one call of iconv that converts a text into a buffer of  *)
(* twice its size, and throws if anything of the text is left.  A text is  *)
(* what iconv makes of it: octets of which it takes a character's at a     *)
(* time, of any class that the encoding has.                               *)
(***************************************************************************)
EXTENDS Naturals, TLAPS

Encodings == {"utf_8", "ucs", "latin1"}

\* Characters, by what the encodings need for them: ASCII, the rest of
\* ISO 8859-1, what UTF-8 writes in two, three and four octets beyond that.
Characters == {"ascii", "latin", "two", "three", "four"}

\* Octets of a character in an encoding; zero if it has none.
Width(encoding, c) ==
  CASE encoding = "utf_8" -> (CASE c = "ascii" -> 1
                                [] c \in {"latin", "two"} -> 2
                                [] c = "three" -> 3
                                [] c = "four" -> 4)
    [] encoding = "ucs" -> (IF c = "four" THEN 0 ELSE 2)
    [] encoding = "latin1" -> (IF c \in {"ascii", "latin"} THEN 1 ELSE 0)

VARIABLES
  from, to,    \* encodings
  lsrc, ldst,  \* octets left of the text and of the room for its conversion
  at           \* "iconv", or why iconv returned: "end", "illegal", "full"

vars == <<from, to, lsrc, ldst, at>>

\* dst.resize(2 * lsrc)
Init ==
  /\ from \in Encodings /\ to \in Encodings
  /\ lsrc \in Nat /\ ldst = 2 * lsrc /\ at = "iconv"

\* iconv converts a character ...
Character(c) ==
  /\ at = "iconv" /\ Width(from, c) \in 1..lsrc /\ Width(to, c) \in 1..ldst
  /\ lsrc' = lsrc - Width(from, c) /\ ldst' = ldst - Width(to, c)
  /\ UNCHANGED <<from, to, at>>

\* ... or meets one that is malformed, cut short or unknown to the other
\* encoding (EILSEQ, EINVAL) ...
Illegal ==
  /\ at = "iconv" /\ lsrc > 0
  /\ at' = "illegal" /\ UNCHANGED <<from, to, lsrc, ldst>>

\* ... or one there is no room for (E2BIG) ...
Full(c) ==
  /\ at = "iconv" /\ Width(from, c) \in 1..lsrc /\ Width(to, c) > ldst
  /\ at' = "full" /\ UNCHANGED <<from, to, lsrc, ldst>>

\* ... or has converted the text.
End == at = "iconv" /\ lsrc = 0 /\ at' = "end" /\ UNCHANGED <<from, to, lsrc, ldst>>

Next == (\E c \in Characters : Character(c) \/ Full(c)) \/ Illegal \/ End

Spec == Init /\ [][Next]_vars
-----------------------------------------------------------------------------
\* Twice the octets of the text are enough for any pair of the encodings:
\* convert never throws for want of room (encoding.cpp:29-43).
NeverFull == at # "full"

Inv ==
  /\ from \in Encodings /\ to \in Encodings
  /\ lsrc \in Nat /\ ldst \in Nat /\ at \in {"iconv", "end", "illegal"}
  /\ ldst >= 2 * lsrc

\* No character more than doubles.
LEMMA AtMostDoubled ==
  ASSUME NEW e \in Encodings, NEW d \in Encodings, NEW c \in Characters,
         Width(e, c) # 0
  PROVE  Width(e, c) \in Nat /\ Width(d, c) \in Nat /\ Width(d, c) <= 2 * Width(e, c)
BY DEF Encodings, Characters, Width

LEMMA InvStep == Inv /\ [Next]_vars => Inv'
<1> SUFFICES ASSUME Inv, [Next]_vars PROVE Inv'
  OBVIOUS
<1> USE DEF Inv
<1>1. ASSUME NEW c \in Characters, Character(c) PROVE Inv'
  BY <1>1, AtMostDoubled DEF Character
<1>2. ASSUME NEW c \in Characters, Full(c) PROVE FALSE
  BY <1>2, AtMostDoubled DEF Full
<1>3. CASE Illegal \/ End \/ UNCHANGED vars
  BY <1>3 DEF Illegal, End, vars
<1> QED BY <1>1, <1>2, <1>3 DEF Next

\* The room for the conversion never runs out before the text does
\* (encoding.cpp:29-43).
THEOREM RoomEnough == Spec => []NeverFull
<1>1. Init => Inv
  BY DEF Init, Inv
<1>2. Inv => NeverFull
  BY DEF Inv, NeverFull
<1> QED BY <1>1, <1>2, InvStep, PTL DEF Spec
=============================================================================
