--------------------------- MODULE MCSegmentedInfo ---------------------------
(***************************************************************************)
(* Submit_sm objects built the way a sender builds them: a user data       *)
(* header that is a sequence of information elements, then a text.         *)
(***************************************************************************)
EXTENDS SegmentedInfo, SequencesExt, TLC

CONSTANTS MaxElements, MaxText

\* Elements: both concatenations, empty ones, and others of every length.
Elements == {<<0, 3, 5, 4, 2>>, <<8, 4, 6, 7, 4, 3>>, <<0, 3, 0, 0, 8>>} \cup
            {<<0, 0>>, <<8, 0>>} \cup
            {<<1, 0>>, <<9, 1, 8>>, <<3, 2, 0, 3>>, <<1, 3, 8, 4, 0>>}

Headers == BoundedSeq(Elements, MaxElements)
Texts == {SubSeq(<<0, 3, 1>>, 1, n) : n \in 0..MaxText}

\* The size of the header is the octet before it.
Built(elements, text) ==
  LET udh == FlattenSeq(elements) IN <<Len(udh)>> \o udh \o text

\* Where the elements begin.
Starts(elements) ==
  [i \in 1..(Len(elements) + 1) |-> 2 + Len(FlattenSeq(SubSeq(elements, 1, i - 1)))]

NoSar == [total |-> Absent, ref |-> Absent, seqnum |-> Absent]

\* A message keeps its ingredients, which the program does not look at.
WithHeader ==
  {NoSar @@ [udhi |-> TRUE, sm |-> Built(h, t), elements |-> h, at |-> Starts(h), sent |-> t] :
     h \in Headers, t \in Texts}
WithSar ==
  {[udhi |-> FALSE, sm |-> t, total |-> n, ref |-> r, seqnum |-> s, elements |-> <<>>, at |-> <<2>>, sent |-> t] :
     t \in Texts, n \in {Absent, 2}, r \in {Absent, 5}, s \in {Absent, 2}}
Empty == NoSar @@ [udhi |-> TRUE, sm |-> <<>>, elements |-> <<>>, at |-> <<2>>, sent |-> <<>>]

MCInputs == WithHeader \cup WithSar \cup {Empty}
=============================================================================
