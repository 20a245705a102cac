----------------------------- MODULE SegmentedInfo -----------------------------
(***************************************************************************)
(* The constructor of smpp::segmented_info: which part of which long       *)
(* message a submit_sm carries, from the user data header at the start of  *)
(* short_message or from the sar_* optional parameters.  One step of the   *)
(* specification is one turn of the loop over information elements.        *)
(***************************************************************************)
EXTENDS Naturals, Sequences

CONSTANTS
  Octet,    \* number of values of an octet (uint8_t wraps there)
  Inputs,   \* submit_sm objects to construct from, with what they were made of
  Absent    \* std::nullopt

\* A header as a sender builds it: its length, information elements, each with
\* its own length, then the text.  Element i begins at m.at[i], the text at the
\* last of m.at.  A concatenation element is empty or has its length; the whole
\* is short enough for sm_length, one octet.
AsBuilt(m) ==
  LET n == Len(m.elements)
  IN /\ Len(m.sm) < Octet /\ m.sm[1] < Len(m.sm)
     /\ m.at \in [1..(n + 1) -> 2..(m.sm[1] + 2)] /\ m.at[1] = 2 /\ m.at[n + 1] = m.sm[1] + 2
     /\ m.sent = SubSeq(m.sm, m.sm[1] + 2, Len(m.sm))
     /\ \A i \in 1..n :
          LET e == m.elements[i]
          IN /\ Len(e) >= 2 /\ Len(e) = 2 + e[2]
             /\ m.at[i + 1] = m.at[i] + Len(e) /\ \A k \in 1..Len(e) : e[k] = m.sm[m.at[i] + k - 1]
             /\ (e[1] = 0 => e[2] \in {0, 3}) /\ (e[1] = 8 => e[2] \in {0, 4})

\* udhi is bit 0x40 of esm_class; sar_* are optional parameters.
ASSUME InputsAssumption ==
  /\ Octet \in Nat /\ Octet > 1
  /\ \A m \in Inputs :
       /\ m.udhi \in BOOLEAN /\ m.sm \in Seq(0..(Octet - 1))
       /\ {m.total, m.ref, m.seqnum} \subseteq 0..(Octet - 1) \cup {Absent}
       /\ m.elements \in Seq(Seq(0..(Octet - 1)))
       /\ m.udhi /\ m.sm # <<>> => AsBuilt(m)
       /\ ~m.udhi => m.sent = m.sm
       /\ m.sm = <<>> => m.elements = <<>> /\ m.sent = <<>>

VARIABLES
  in,      \* the pdu
  pc,      \* "begin", "loop" or "done"
  rp,      \* index in short_message of the next octet to look at
  info     \* the members of the object

vars == <<in, pc, rp, info>>

Smaller(m, n) == IF m < n THEN m ELSE n
ValueOr(opt, default) == IF opt = Absent THEN default ELSE opt

\* total_parts, part, id and raw_text as the initializers leave them; id is the
\* sequence of octets it is put together from
Whole == [total |-> 1, part |-> 1, id |-> <<>>, text |-> <<>>]

\* Mutant: the length octet is not counted.
UdhlShort(sm) == Smaller(sm[1], Len(sm) % Octet)

\* Size of the header with its length octet, as far as it is there; both
\* operands of std::min are cast to uint8_t.
Udhl(sm) == Smaller((sm[1] + 1) % Octet, Len(sm) % Octet)

TypeOK ==
  /\ in \in Inputs /\ pc \in {"begin", "loop", "done"} /\ rp \in 1..(Len(in.sm) + 1)
  /\ info.total \in 0..(Octet - 1) /\ info.part \in 0..(Octet - 1)
  /\ info.id \in Seq(0..(Octet - 1)) /\ info.text \in Seq(0..(Octet - 1))

Init == in \in Inputs /\ pc = "begin" /\ rp = 1 /\ info = Whole

\* No header: the sar_* parameters, if any.
FromSar ==
  /\ pc = "begin" /\ ~in.udhi
  /\ pc' = "done" /\ UNCHANGED <<in, rp>>
  /\ info' = IF in.total = Absent THEN info
             ELSE [total |-> in.total, part |-> ValueOr(in.seqnum, 1),
                   id |-> <<ValueOr(in.ref, 0)>>, text |-> in.sm]

\* A header: what follows it is the text.
FromHeader ==
  /\ pc = "begin" /\ in.udhi
  /\ IF in.sm = <<>> THEN pc' = "done" /\ UNCHANGED <<rp, info>>
     ELSE /\ info' = [info EXCEPT !.text = SubSeq(in.sm, Udhl(in.sm) + 1, Len(in.sm))]
          /\ rp' = 2 /\ pc' = "loop"
  /\ UNCHANGED in

Iei == in.sm[rp]
Iel == in.sm[rp + 1]

\* The octets of a reference of the given size, total_parts and part.
Concatenated(size) ==
  [info EXCEPT !.id = SubSeq(in.sm, rp + 2, rp + 1 + size),
               !.total = in.sm[rp + 2 + size], !.part = in.sm[rp + 3 + size]]

\* Concatenation with an 8-bit or a 16-bit reference.
Concat(iei, iel) ==
  /\ pc = "loop" /\ rp <= Udhl(in.sm) /\ Iei = iei /\ Iel = iel
  /\ info' = Concatenated(iel - 2)
  /\ pc' = "done" /\ UNCHANGED <<in, rp>>

\* Mutant: an octet too many is skipped.
SkipTooFar ==
  /\ pc = "loop" /\ rp <= Udhl(in.sm) /\ Iei \notin {0, 8}
  /\ rp' = rp + 3 + Iel /\ UNCHANGED <<in, pc, info>>

\* Any other element is skipped.
Skip ==
  /\ pc = "loop" /\ rp <= Udhl(in.sm) /\ Iei \notin {0, 8}
  /\ rp' = rp + 2 + Iel /\ UNCHANGED <<in, pc, info>>

\* A concatenation element of another length is taken for an empty one.
Misread ==
  /\ pc = "loop" /\ rp <= Udhl(in.sm)
  /\ \/ Iei = 0 /\ Iel # 3
     \/ Iei = 8 /\ Iel # 4
  /\ rp' = rp + 2 /\ UNCHANGED <<in, pc, info>>

End == pc = "loop" /\ rp > Udhl(in.sm) /\ pc' = "done" /\ UNCHANGED <<in, rp, info>>

Next == FromSar \/ FromHeader \/ Concat(0, 3) \/ Concat(8, 4) \/ Skip \/ Misread \/ End

Spec == Init /\ [][Next]_vars
-----------------------------------------------------------------------------
(* Properties *)

Concatenations == {i \in DOMAIN in.elements : in.elements[i][1] \in {0, 8} /\ in.elements[i][2] > 0}
First == in.elements[CHOOSE i \in Concatenations : \A j \in Concatenations : i <= j]

\* What the constructor should find: the first concatenation element of the
\* header, or the sar_* parameters, and the text without the header.  A
\* message without either is not a segment, and keeps no text.
Expected ==
  IF in.udhi
    THEN IF Concatenations = {} THEN [Whole EXCEPT !.text = in.sent]
         ELSE [id |-> SubSeq(First, 3, Len(First) - 2), total |-> First[Len(First) - 1],
               part |-> First[Len(First)], text |-> in.sent]
  ELSE IF in.total = Absent THEN Whole
  ELSE [total |-> in.total, part |-> ValueOr(in.seqnum, 1), id |-> <<ValueOr(in.ref, 0)>>,
        text |-> in.sent]

\* The constructor finds the segment the sender made, whatever elements come
\* before the concatenation element and whatever octets the text and the
\* other elements hold (segmented_info.cpp:11-47).
SegmentAsSent == pc = "done" => info = Expected

\* The loop stays inside the header, element by element: of an element it looks
\* at, the length octet and all that it announces lie before the text
\* (segmented_info.cpp:18-41).  This is of well-built headers only: nothing checks
\* the lengths, and where they do not add up the program reads behind short_message.
InHeader ==
  pc = "loop" =>
    /\ rp <= Udhl(in.sm) + 1
    /\ rp <= Udhl(in.sm) => rp + 1 <= Udhl(in.sm) /\ rp + 1 + Iel <= Udhl(in.sm)
=============================================================================
