------------------------- MODULE SegmentedInfo_proofs -------------------------
(***************************************************************************)
(* The constructor of segmented_info finds the segment that a sender       *)
(* described, for headers of any number of elements of any lengths: the    *)
(* loop goes from the first octet of one element to that of the next, past *)
(* every element that is not a concatenation with content.                 *)
(***************************************************************************)
EXTENDS SegmentedInfo, SequenceTheorems, TLAPS

\* Where the constructor is: at the i-th element, or behind the last.
Elements == Len(in.elements)
At(i) == rp = in.at[i] /\ \A j \in 1..(i - 1) : j \notin Concatenations

\* What the loop has done so far, and what it leaves behind.
Walk ==
  /\ TypeOK
  /\ pc = "begin" => info = Whole /\ rp = 1
  /\ pc = "loop" => /\ in.udhi /\ in.sm # <<>> /\ info = [Whole EXCEPT !.text = in.sent]
                    /\ \E i \in 1..(Elements + 1) : At(i)
  /\ SegmentAsSent
-----------------------------------------------------------------------------
(* The header *)

\* Parts of two sequences that have the same elements are the same.
LEMMA SameParts ==
  ASSUME NEW S, NEW s \in Seq(S), NEW r \in Seq(S), NEW a \in Nat \ {0}, NEW b \in Nat \ {0},
         NEW n \in Nat, a + n <= Len(s) + 1, b + n <= Len(r) + 1,
         \A k \in 0..(n - 1) : s[a + k] = r[b + k]
  PROVE  SubSeq(s, a, a + n - 1) = SubSeq(r, b, b + n - 1)
<1> DEFINE x == SubSeq(s, a, a + n - 1)
           y == SubSeq(r, b, b + n - 1)
<1>1. /\ x \in Seq(S) /\ Len(x) = n
      /\ \A i \in 1..n : x[i] = s[a + i - 1]
  BY SubSeqProperties
<1>2. /\ y \in Seq(S) /\ Len(y) = n
      /\ \A i \in 1..n : y[i] = r[b + i - 1]
  BY SubSeqProperties
<1>3. \A i \in 1..n : s[a + i - 1] = r[b + i - 1]
  <2> TAKE i \in 1..n
  <2>1. i - 1 \in 0..(n - 1) /\ a + (i - 1) = a + i - 1 /\ b + (i - 1) = b + i - 1 OBVIOUS
  <2> QED BY <2>1
<1> HIDE DEF x, y
<1>4. x = y BY <1>1, <1>2, <1>3, SeqEqual
<1> QED BY <1>4 DEF x, y

\* The rest of a sequence.
LEMMA RestOf ==
  ASSUME NEW S, NEW s \in Seq(S), NEW a \in Nat \ {0}
  PROVE  SubSeq(s, a, Len(s)) \in Seq(S)
<1>1. \A k \in a..Len(s) : s[k] \in S OBVIOUS
<1>2. CASE a <= Len(s) BY <1>2, SubSeqProperties
<1>3. CASE a > Len(s) BY <1>3, SubSeqEmpty
<1> QED BY <1>2, <1>3

\* A size that is an octet's with its length octet does not wrap.
LEMMA SizeOf ==
  ASSUME Octet \in Nat, NEW sm, NEW n \in Nat, NEW size \in Nat,
         sm[1] = n, Len(sm) = size, n < size, size < Octet
  PROVE  Udhl(sm) = n + 1
<1>1. (n + 1) % Octet = n + 1 /\ size % Octet = size
  OBVIOUS
<1> QED BY <1>1 DEF Udhl, Smaller

\* The kind and the length of an element are octets.
LEMMA TwoOctets ==
  ASSUME NEW S, NEW s \in Seq(S), Len(s) >= 2 PROVE s[1] \in S /\ s[2] \in S
OBVIOUS

\* The octets of a message.
LEMMA Octets ==
  ASSUME in \in Inputs
  PROVE  /\ Octet \in Nat /\ Octet > 1 /\ in.udhi \in BOOLEAN
         /\ in.sm \in Seq(0..(Octet - 1)) /\ in.elements \in Seq(Seq(0..(Octet - 1)))
         /\ Len(in.sm) \in Nat /\ Elements \in Nat
         /\ in.udhi /\ in.sm # <<>> => AsBuilt(in) /\ Len(in.sm) > 0
BY InputsAssumption DEF Elements

\* The size of the header, with its length octet, does not wrap.
LEMMA HeaderSize ==
  ASSUME in \in Inputs, in.udhi, in.sm # <<>>
  PROVE  /\ AsBuilt(in) /\ in.sm \in Seq(0..(Octet - 1)) /\ Len(in.sm) \in Nat \ {0}
         /\ in.sm[1] \in Nat
         /\ Udhl(in.sm) = in.sm[1] + 1 /\ Udhl(in.sm) <= Len(in.sm)
<1>1. /\ AsBuilt(in) /\ in.sm \in Seq(0..(Octet - 1)) /\ Len(in.sm) \in Nat \ {0}
      /\ Octet \in Nat
  BY Octets
<1>2. in.sm[1] \in 0..(Octet - 1)
  BY <1>1
<1>3. in.sm[1] \in Nat /\ in.sm[1] < Len(in.sm) /\ Len(in.sm) < Octet
  BY <1>1, <1>2 DEF AsBuilt
<1>5. Udhl(in.sm) = in.sm[1] + 1
  BY <1>1, <1>3, SizeOf
<1> QED BY <1>1, <1>3, <1>5

\* There are so many elements, in so many octets.
LEMMA Counts ==
  ASSUME in \in Inputs, in.udhi, in.sm # <<>>
  PROVE  Elements \in Nat /\ Udhl(in.sm) \in Nat
<1>1. Elements \in Nat BY Octets
<1>2. in.sm[1] \in Nat /\ Udhl(in.sm) = in.sm[1] + 1 BY HeaderSize
<1>3. Udhl(in.sm) \in Nat BY <1>2
<1> QED BY <1>1, <1>3

\* Behind the header is the text.
LEMMA TextBehind ==
  ASSUME in \in Inputs, in.udhi, in.sm # <<>>
  PROVE  SubSeq(in.sm, Udhl(in.sm) + 1, Len(in.sm)) = in.sent
<1>1. AsBuilt(in) /\ Udhl(in.sm) + 1 = in.sm[1] + 2
  BY HeaderSize
<1> QED BY <1>1 DEF AsBuilt

\* The octets at the i-th element are those of the element, which ends inside the
\* header.
LEMMA ElementAt ==
  ASSUME in \in Inputs, in.udhi, in.sm # <<>>, NEW i \in 1..Elements, rp = in.at[i]
  PROVE  LET e == in.elements[i]
         IN /\ rp \in Nat /\ rp >= 2 /\ rp <= Udhl(in.sm)
            /\ e \in Seq(0..(Octet - 1)) /\ Len(e) >= 2 /\ Len(e) = 2 + e[2]
            /\ Iei = e[1] /\ Iel = e[2]
            /\ in.at[i + 1] = rp + 2 + Iel /\ rp + 1 + Iel <= Udhl(in.sm)
            /\ \A k \in 1..Len(e) : e[k] = in.sm[rp + k - 1]
            /\ (Iei = 0 => Iel \in {0, 3}) /\ (Iei = 8 => Iel \in {0, 4})
<1> DEFINE e == in.elements[i]
<1>1. /\ AsBuilt(in) /\ in.sm \in Seq(0..(Octet - 1)) /\ in.sm[1] \in Nat
      /\ Udhl(in.sm) = in.sm[1] + 1 /\ Udhl(in.sm) <= Len(in.sm)
  BY HeaderSize
<1>2. Octet \in Nat /\ in.elements \in Seq(Seq(0..(Octet - 1))) /\ Elements \in Nat
  BY Octets
<1>3. e \in Seq(0..(Octet - 1)) /\ Len(e) \in Nat
  BY <1>2 DEF Elements
<1>4. /\ in.at[i] \in 2..(in.sm[1] + 2) /\ in.at[i + 1] \in 2..(in.sm[1] + 2)
      /\ Len(e) >= 2 /\ Len(e) = 2 + e[2]
      /\ in.at[i + 1] = in.at[i] + Len(e) /\ \A k \in 1..Len(e) : e[k] = in.sm[in.at[i] + k - 1]
      /\ (e[1] = 0 => e[2] \in {0, 3}) /\ (e[1] = 8 => e[2] \in {0, 4})
  <2>1. i \in 1..(Elements + 1) /\ i + 1 \in 1..(Elements + 1) BY <1>2
  <2> QED BY <1>1, <2>1 DEF AsBuilt, Elements
<1>5. e[1] \in 0..(Octet - 1) /\ e[2] \in 0..(Octet - 1)
  BY <1>3, <1>4, TwoOctets
<1> HIDE DEF e
<1>6. in.sm[rp] = e[1] /\ in.sm[rp + 1] = e[2]
  <2>1. rp \in Nat /\ 1 \in 1..Len(e) /\ 2 \in 1..Len(e) BY <1>1, <1>3, <1>4
  <2>2. rp + 1 - 1 = rp /\ rp + 2 - 1 = rp + 1 BY <2>1
  <2> QED BY <1>4, <2>1, <2>2
<1>7. Iei = e[1] /\ Iel = e[2]
  BY <1>6 DEF Iei, Iel
<1>8. /\ in.at[i + 1] = rp + 2 + Iel /\ rp \in Nat /\ rp >= 2
      /\ rp + 1 + Iel <= Udhl(in.sm) /\ rp <= Udhl(in.sm)
  <2>1. in.at[i] \in 2..(in.sm[1] + 2) /\ in.at[i + 1] \in 2..(in.sm[1] + 2)
        /\ in.at[i + 1] = in.at[i] + Len(e) /\ Len(e) = 2 + Iel /\ Iel \in Nat
    BY <1>2, <1>4, <1>5, <1>7
  <2>2. in.sm[1] \in Nat /\ Udhl(in.sm) = in.sm[1] + 1 BY <1>1
  <2>3. rp \in Nat /\ rp >= 2 /\ in.at[i + 1] \in Nat /\ in.at[i + 1] <= in.sm[1] + 2 BY <2>1, <2>2
  <2>4. in.at[i + 1] = rp + 2 + Iel
    <3>1. in.at[i + 1] = rp + Len(e) /\ Len(e) = 2 + Iel BY <1>4, <2>1
    <3>2. in.at[i + 1] \in Nat /\ rp \in Nat /\ Len(e) \in Nat /\ Iel \in Nat BY <1>3, <2>1, <2>3
    <3>3. \A a, b, n, l \in Nat : a = b + n /\ n = 2 + l => a = b + 2 + l OBVIOUS
    <3> QED BY <3>1, <3>2, <3>3
  <2>5. rp + 2 + Iel <= in.sm[1] + 2 BY <2>3, <2>4
  <2>6. rp + 1 + Iel <= Udhl(in.sm) /\ rp <= Udhl(in.sm)
    <3>1. rp \in Nat /\ Iel \in Nat BY <2>1, <2>3
    <3>2. \A a, l, n \in Nat : a + 2 + l <= n + 2 => a + 1 + l <= n + 1 /\ a <= n + 1 OBVIOUS
    <3> QED BY <2>2, <2>5, <3>1, <3>2
  <2> QED BY <2>3, <2>4, <2>6
<1> QED BY <1>3, <1>4, <1>7, <1>8 DEF e

\* Behind the last element the header ends.
LEMMA BehindLast ==
  ASSUME in \in Inputs, in.udhi, in.sm # <<>>, rp = in.at[Elements + 1]
  PROVE  rp = Udhl(in.sm) + 1
BY HeaderSize DEF AsBuilt, Elements

\* Inside the header there is an element.
LEMMA InsideAt ==
  ASSUME in \in Inputs, in.udhi, in.sm # <<>>, rp <= Udhl(in.sm), \E i \in 1..(Elements + 1) : At(i)
  PROVE  \E i \in 1..Elements : At(i)
<1>1. PICK i \in 1..(Elements + 1) : At(i) OBVIOUS
<1>2. Elements \in Nat /\ Udhl(in.sm) \in Nat BY Counts
<1>3. i # Elements + 1
  <2>1. ASSUME i = Elements + 1 PROVE FALSE
    <3>1. rp = Udhl(in.sm) + 1 BY <1>1, <2>1, BehindLast DEF At
    <3> QED BY <1>2, <3>1
  <2> QED BY <2>1
<1>4. i \in 1..Elements BY <1>2, <1>3
<1> QED BY <1>1, <1>4

\* Concatenations are elements.
LEMMA ConcatenationsAre ==
  ASSUME in \in Inputs
  PROVE  \A j \in Concatenations : j \in 1..Elements /\ j \in Nat
<1>1. in.elements \in Seq(Seq(0..(Octet - 1))) BY Octets
<1>2. Len(in.elements) \in Nat /\ DOMAIN in.elements = 1..Len(in.elements) BY <1>1, LenProperties
<1>3. \A j \in Concatenations : j \in DOMAIN in.elements BY DEF Concatenations
<1> QED BY <1>2, <1>3 DEF Elements

\* Whether an element is a concatenation.
LEMMA ConcatenationAt ==
  ASSUME in \in Inputs, in.udhi, in.sm # <<>>, NEW i \in 1..Elements, rp = in.at[i]
  PROVE  i \in Concatenations <=> Iei \in {0, 8} /\ Iel > 0
<1>1. i \in DOMAIN in.elements
  BY DEF Elements
<1> QED BY <1>1, ElementAt DEF Concatenations

\* Behind an element that is not one, there is none either.
LEMMA NextElement ==
  ASSUME in \in Inputs, NEW i \in 1..Elements, At(i), i \notin Concatenations,
         rp' = in.at[i + 1], UNCHANGED in
  PROVE  \E k \in 1..(Elements + 1) : At(k)'
<1>1. Elements \in Nat BY Octets
<1>2. i + 1 \in 1..(Elements + 1) BY <1>1
<1>3. At(i + 1)'
  <2>1. \A j \in 1..i : j \notin Concatenations BY <1>1 DEF At
  <2> QED BY <1>1, <2>1 DEF At, Concatenations
<1> QED BY <1>2, <1>3
-----------------------------------------------------------------------------
(* The steps *)

LEMMA WalkInit == Init => Walk
<1> SUFFICES ASSUME Init PROVE Walk OBVIOUS
<1>1. TypeOK
  <2>1. Octet \in Nat /\ Octet > 1 /\ Len(in.sm) \in Nat BY Octets DEF Init
  <2> QED BY <2>1 DEF Init, TypeOK, Whole
<1> QED BY <1>1 DEF Init, Walk, SegmentAsSent

LEMMA FromSarWalks == ASSUME Walk, FromSar PROVE Walk'
<1>1. TypeOK'
  <2>1. /\ in \in Inputs /\ Octet \in Nat /\ Octet > 1 /\ in.sm \in Seq(0..(Octet - 1))
        /\ {in.total, in.ref, in.seqnum} \subseteq 0..(Octet - 1) \cup {Absent}
    BY InputsAssumption DEF Walk, TypeOK
  <2>2. ValueOr(in.seqnum, 1) \in 0..(Octet - 1) /\ ValueOr(in.ref, 0) \in 0..(Octet - 1)
        /\ (in.total # Absent => in.total \in 0..(Octet - 1))
    BY <2>1 DEF ValueOr
  <2>3. CASE in.total = Absent BY <2>3 DEF Walk, FromSar, TypeOK
  <2>4. CASE in.total # Absent
    <3>1. info' = [total |-> in.total, part |-> ValueOr(in.seqnum, 1),
                   id |-> <<ValueOr(in.ref, 0)>>, text |-> in.sm]
      BY <2>4 DEF FromSar
    <3>2. /\ info'.total \in 0..(Octet - 1) /\ info'.part \in 0..(Octet - 1)
          /\ info'.id \in Seq(0..(Octet - 1)) /\ info'.text \in Seq(0..(Octet - 1))
      BY <2>1, <2>2, <2>4, <3>1
    <3> QED BY <3>2 DEF Walk, FromSar, TypeOK
  <2> QED BY <2>3, <2>4
<1>2. SegmentAsSent'
  <2>1. in \in Inputs /\ ~in.udhi /\ info = Whole BY DEF Walk, TypeOK, FromSar
  <2>2. in.sent = in.sm BY <2>1, InputsAssumption
  <2>3. info' = Expected BY <2>1, <2>2 DEF FromSar, Expected
  <2>4. Expected' = Expected BY DEF FromSar, Expected, Concatenations, First
  <2> QED BY <2>3, <2>4 DEF SegmentAsSent
<1> QED BY <1>1, <1>2 DEF Walk, FromSar

LEMMA FromHeaderWalks == ASSUME Walk, FromHeader PROVE Walk'
<1>1. CASE in.sm = <<>>
  <2>1. Concatenations = {} /\ in.sent = <<>>
    BY <1>1, InputsAssumption DEF Walk, TypeOK, Concatenations
  <2>2. SegmentAsSent'
    BY <1>1, <2>1 DEF Walk, FromHeader, SegmentAsSent, Expected, Whole, Concatenations
  <2> QED BY <1>1, <2>2 DEF Walk, FromHeader, TypeOK
<1>2. CASE in.sm # <<>>
  <2>1. in \in Inputs /\ in.udhi /\ info = Whole BY DEF Walk, TypeOK, FromHeader
  <2>2. AsBuilt(in) /\ Udhl(in.sm) = in.sm[1] + 1
        /\ SubSeq(in.sm, Udhl(in.sm) + 1, Len(in.sm)) = in.sent /\ in.sm \in Seq(0..(Octet - 1)) /\ Len(in.sm) \in Nat \ {0} /\ in.sm[1] \in Nat
    BY <1>2, <2>1, HeaderSize, TextBehind
  <2>3. info' = [Whole EXCEPT !.text = in.sent] /\ rp' = 2 /\ pc' = "loop" /\ in' = in
    BY <1>2, <2>1, <2>2 DEF FromHeader
  <2>4. At(1)' /\ Elements \in Nat
    BY <2>2, <2>3 DEF At, AsBuilt, Elements
  <2>5. in.sent \in Seq(0..(Octet - 1))
    <3>1. Udhl(in.sm) + 1 \in Nat \ {0} BY <2>2
    <3> QED BY <2>2, <3>1, RestOf
  <2>6. TypeOK'
    <3>1. Octet \in Nat /\ Octet > 1 BY InputsAssumption
    <3>2. info' = [total |-> 1, part |-> 1, id |-> <<>>, text |-> in.sent] BY <2>3 DEF Whole
    <3>3. rp' \in 1..(Len(in.sm) + 1) BY <2>2, <2>3
    <3>4. /\ info'.total \in 0..(Octet - 1) /\ info'.part \in 0..(Octet - 1)
          /\ info'.id \in Seq(0..(Octet - 1)) /\ info'.text \in Seq(0..(Octet - 1))
      BY <2>5, <3>1, <3>2
    <3> QED BY <2>1, <2>3, <3>3, <3>4 DEF TypeOK
  <2> QED BY <1>2, <2>1, <2>3, <2>4, <2>6 DEF Walk, SegmentAsSent, Elements
<1> QED BY <1>1, <1>2

\* A concatenation with content is the first of the header, and ends the loop.
LEMMA ConcatWalks ==
  ASSUME Walk, Concat(0, 3) \/ Concat(8, 4)
  PROVE  Walk'
<1>1. /\ in \in Inputs /\ in.udhi /\ in.sm # <<>> /\ info = [Whole EXCEPT !.text = in.sent]
      /\ rp <= Udhl(in.sm) /\ pc' = "done" /\ UNCHANGED <<in, rp>>
      /\ info.text \in Seq(0..(Octet - 1)) /\ rp \in 1..(Len(in.sm) + 1)
  BY DEF Walk, TypeOK, Concat
<1>2. PICK i \in 1..Elements : At(i)
  <2>1. \E i \in 1..(Elements + 1) : At(i) BY DEF Walk, Concat
  <2> QED BY <1>1, <2>1, InsideAt
<1> DEFINE e == in.elements[i]
<1>3. /\ Iei = e[1] /\ Iel = e[2] /\ e \in Seq(0..(Octet - 1)) /\ Len(e) = 2 + e[2]
      /\ rp \in Nat /\ rp >= 2 /\ rp + 1 + Iel <= Udhl(in.sm)
      /\ \A k \in 1..Len(e) : e[k] = in.sm[rp + k - 1]
  BY <1>1, <1>2, ElementAt DEF At
<1>4. First = e /\ i \in Concatenations
  <2>1. i \in Concatenations BY <1>1, <1>2, ConcatenationAt DEF At, Concat
  <2>2. \A j \in Concatenations : i <= j
    <3> SUFFICES ASSUME NEW j \in Concatenations, ~(i <= j) PROVE FALSE OBVIOUS
    <3>1. j \in 1..Elements /\ i \in Nat /\ Elements \in Nat BY <1>1, ConcatenationsAre, Octets
    <3>2. j \in 1..(i - 1) BY <3>1
    <3> QED BY <1>2, <3>2 DEF At
  <2>3. \A j \in Concatenations : (\A k \in Concatenations : j <= k) => j = i
    <3> TAKE j \in Concatenations
    <3> HAVE \A k \in Concatenations : j <= k
    <3>1. i <= j /\ j <= i BY <2>1, <2>2
    <3>2. i \in Nat /\ j \in Nat BY <1>1, ConcatenationsAre, <2>1
    <3> QED BY <3>1, <3>2
  <2>4. (CHOOSE j \in Concatenations : \A k \in Concatenations : j <= k) = i
    BY <2>1, <2>2, <2>3
  <2> QED BY <2>1, <2>4 DEF First
<1>5. PICK size \in {1, 2} : Iel = size + 2 /\ info' = Concatenated(size)
  BY DEF Concat
<1> HIDE DEF e
<1>6. /\ Len(e) = size + 4 /\ rp + 3 + size <= Len(in.sm)
      /\ e[size + 3] = in.sm[rp + 2 + size] /\ e[size + 4] = in.sm[rp + 3 + size]
  <2>1. Len(in.sm) \in Nat /\ Udhl(in.sm) <= Len(in.sm) /\ Udhl(in.sm) \in Nat BY <1>1, HeaderSize
  <2>2. Len(e) = size + 4 BY <1>3, <1>5
  <2>3. rp + 3 + size <= Udhl(in.sm) BY <1>3, <1>5, <2>1
  <2>4. size + 3 \in 1..Len(e) /\ size + 4 \in 1..Len(e) BY <2>2
  <2>5. rp + (size + 3) - 1 = rp + 2 + size /\ rp + (size + 4) - 1 = rp + 3 + size BY <1>3
  <2> QED BY <1>3, <2>1, <2>2, <2>3, <2>4, <2>5
<1>7. SubSeq(in.sm, rp + 2, rp + 1 + size) = SubSeq(e, 3, size + 2)
  <2>1. in.sm \in Seq(0..(Octet - 1)) BY <1>1, Octets
  <2>2. \A k \in 0..(size - 1) : in.sm[(rp + 2) + k] = e[3 + k]
    <3> TAKE k \in 0..(size - 1)
    <3>1. 3 + k \in 1..Len(e) /\ rp + (3 + k) - 1 = (rp + 2) + k BY <1>3, <1>6
    <3> QED BY <1>3, <3>1
  <2>3. (rp + 2) + size <= Len(in.sm) + 1 /\ 3 + size <= Len(e) + 1 BY <1>3, <1>6, <2>1
  <2>4. rp + 2 \in Nat \ {0} /\ (rp + 2) + size - 1 = rp + 1 + size /\ 3 + size - 1 = size + 2 BY <1>3
  <2> QED BY <1>3, <2>1, <2>2, <2>3, <2>4, SameParts
<1>8. info' = [id |-> SubSeq(e, 3, size + 2), total |-> e[size + 3], part |-> e[size + 4],
               text |-> in.sent]
  BY <1>1, <1>5, <1>6, <1>7 DEF Concatenated, Whole
<1>9. SegmentAsSent'
  <2>1. Len(e) - 2 = size + 2 /\ Len(e) - 1 = size + 3 BY <1>6
  <2>2. info' = Expected BY <1>1, <1>4, <1>6, <1>8, <2>1 DEF Expected
  <2>3. Expected' = Expected BY <1>1 DEF Expected, Concatenations, First
  <2> QED BY <2>2, <2>3 DEF SegmentAsSent
<1>10. TypeOK'
  <2> DEFINE S == 0..(Octet - 1)
  <2>1. \A k \in 1..(size + 4) : e[k] \in S
    <3> HIDE DEF S
    <3>1. e \in Seq(S) BY <1>3 DEF S
    <3> QED BY <1>6, <3>1
  <2>2. SubSeq(e, 3, size + 2) \in Seq(0..(Octet - 1))
    <3>1. \A k \in 3..(size + 2) : e[k] \in S BY <2>1
    <3> HIDE DEF S
    <3>2. SubSeq(e, 3, size + 2) \in Seq(S) BY <3>1, SubSeqProperties
    <3> QED BY <3>2 DEF S
  <2>3. in.sent \in Seq(0..(Octet - 1)) BY <1>1 DEF Whole
  <2>4. e[size + 3] \in S /\ e[size + 4] \in S BY <2>1
  <2> QED BY <1>1, <1>8, <2>2, <2>3, <2>4 DEF TypeOK
<1> QED BY <1>1, <1>9, <1>10 DEF Walk

\* Every other element is passed.
LEMMA PassWalks ==
  ASSUME Walk, Skip \/ Misread
  PROVE  Walk'
<1>1. /\ in \in Inputs /\ in.udhi /\ in.sm # <<>> /\ pc = "loop"
      /\ rp <= Udhl(in.sm) /\ UNCHANGED <<in, pc, info>>
  BY DEF Walk, TypeOK, Skip, Misread
<1>2. PICK i \in 1..Elements : At(i)
  <2>1. \E i \in 1..(Elements + 1) : At(i) BY <1>1 DEF Walk
  <2> QED BY <1>1, <2>1, InsideAt
<1>3. /\ rp \in Nat /\ rp + 1 + Iel <= Udhl(in.sm) /\ Iel \in Nat /\ in.at[i + 1] = rp + 2 + Iel
      /\ (Iei = 0 => Iel \in {0, 3}) /\ (Iei = 8 => Iel \in {0, 4})
  <2>1. rp = in.at[i] BY <1>2 DEF At
  <2> DEFINE e == in.elements[i]
  <2>2. /\ rp \in Nat /\ rp + 1 + Iel <= Udhl(in.sm) /\ in.at[i + 1] = rp + 2 + Iel
        /\ (Iei = 0 => Iel \in {0, 3}) /\ (Iei = 8 => Iel \in {0, 4})
        /\ Iel = e[2] /\ Len(e) >= 2 /\ Len(e) = 2 + e[2] /\ e \in Seq(0..(Octet - 1))
    BY <1>1, <2>1, ElementAt
  <2>3. e[2] \in 0..(Octet - 1) BY <2>2, TwoOctets
  <2>4. Octet \in Nat BY <1>1, Octets
  <2> QED BY <2>2, <2>3, <2>4
<1>4. rp' = rp + 2 + Iel /\ (Iei \in {0, 8} => Iel = 0)
  BY <1>3 DEF Skip, Misread
<1>5. i \notin Concatenations
  BY <1>1, <1>2, <1>3, <1>4, ConcatenationAt DEF At
<1>6. \E k \in 1..(Elements + 1) : At(k)'
  BY <1>1, <1>2, <1>3, <1>4, <1>5, NextElement
<1>7. rp' \in 1..(Len(in.sm) + 1)
  <2>1. Len(in.sm) \in Nat /\ Udhl(in.sm) <= Len(in.sm) /\ Udhl(in.sm) \in Nat BY <1>1, HeaderSize
  <2> QED BY <1>3, <1>4, <2>1
<1> QED BY <1>1, <1>6, <1>7 DEF Walk, TypeOK, SegmentAsSent, Elements

\* The header ended, without a concatenation.
LEMMA EndWalks ==
  ASSUME Walk, End
  PROVE  Walk'
<1>1. /\ in \in Inputs /\ in.udhi /\ in.sm # <<>> /\ info = [Whole EXCEPT !.text = in.sent]
      /\ rp > Udhl(in.sm) /\ pc' = "done" /\ UNCHANGED <<in, rp, info>>
  BY DEF Walk, TypeOK, End
<1>2. PICK i \in 1..(Elements + 1) : At(i)
  BY DEF Walk, End
<1>3. Elements \in Nat BY <1>1, Octets
<1>4. i = Elements + 1
  <2>1. CASE i \in 1..Elements
    <3>1. rp \in Nat /\ rp <= Udhl(in.sm) /\ Udhl(in.sm) \in Nat
      BY <1>1, <1>2, <2>1, ElementAt, HeaderSize DEF At
    <3> QED BY <1>1, <3>1
  <2> QED BY <1>3, <2>1
<1>5. Concatenations = {}
  <2>1. \A j \in 1..Elements : j \notin Concatenations BY <1>2, <1>3, <1>4 DEF At
  <2> QED BY <1>1, <2>1, ConcatenationsAre
<1>6. SegmentAsSent'
  BY <1>1, <1>5 DEF SegmentAsSent, Expected, Concatenations
<1> QED BY <1>1, <1>6 DEF Walk, TypeOK

LEMMA WalkStep == ASSUME Walk, [Next]_vars PROVE Walk'
<1>1. CASE UNCHANGED vars
  <2>1. Expected' = Expected BY <1>1 DEF vars, Expected, Concatenations, First
  <2>2. \A i : At(i)' <=> At(i) BY <1>1 DEF vars, At, Concatenations
  <2> QED BY <1>1, <2>1, <2>2 DEF vars, Walk, TypeOK, SegmentAsSent, Elements
<1>2. CASE Next
  BY <1>2, FromSarWalks, FromHeaderWalks, ConcatWalks, PassWalks, EndWalks DEF Next
<1> QED BY <1>1, <1>2
-----------------------------------------------------------------------------
(* What is proved *)

THEOREM WalkInvariance == Spec => []Walk
BY WalkInit, WalkStep, PTL DEF Spec

\* Type correctness: the members are octets and texts of octets, and the loop's
\* position is in short_message or right behind it, for any header a sender builds
\* (segmented_info.cpp:11-47).  Where the octets looked at lie is InHeader's.
THEOREM TypeCorrect == Spec => []TypeOK
<1>1. Walk => TypeOK BY DEF Walk
<1> QED BY <1>1, WalkInvariance, PTL

\* SegmentAsSent: the constructor finds the first concatenation element and the text,
\* in headers of any elements (segmented_info.cpp:11-47).
THEOREM SegmentIsFound == Spec => []SegmentAsSent
<1>1. Walk => SegmentAsSent BY DEF Walk
<1> QED BY <1>1, WalkInvariance, PTL

\* InHeader: the loop goes through a well-built header element by element and not past
\* its end, and every element it looks at lies inside with its length octet and its
\* content (segmented_info.cpp:18-41).
THEOREM StaysInHeader == Spec => []InHeader
<1>1. ASSUME Walk, pc = "loop"
      PROVE  /\ rp <= Udhl(in.sm) + 1
             /\ rp <= Udhl(in.sm) => rp + 1 <= Udhl(in.sm) /\ rp + 1 + Iel <= Udhl(in.sm)
  <2>1. in \in Inputs /\ in.udhi /\ in.sm # <<>> BY <1>1 DEF Walk, TypeOK
  <2>2. PICK i \in 1..(Elements + 1) : At(i) BY <1>1 DEF Walk
  <2>3. Elements \in Nat /\ Udhl(in.sm) \in Nat BY <2>1, Counts
  <2>4. CASE i \in 1..Elements
    <3>1. rp \in Nat /\ rp <= Udhl(in.sm) /\ rp + 1 + Iel <= Udhl(in.sm) /\ Iel = in.elements[i][2]
      BY <2>1, <2>2, <2>4, ElementAt DEF At
    <3>2. Iel \in Nat
      <4>1. in.elements[i] \in Seq(0..(Octet - 1)) /\ Len(in.elements[i]) >= 2
        BY <2>1, <2>2, <2>4, ElementAt DEF At
      <4>2. in.elements[i][2] \in 0..(Octet - 1) BY <4>1, TwoOctets
      <4>3. Octet \in Nat BY <2>1, Octets
      <4> QED BY <3>1, <4>2, <4>3
    <3> QED BY <2>3, <3>1, <3>2
  <2>5. CASE i = Elements + 1
    <3>1. rp = Udhl(in.sm) + 1 BY <2>1, <2>2, <2>5, BehindLast DEF At
    <3> QED BY <2>3, <3>1
  <2> QED BY <2>2, <2>3, <2>4, <2>5
<1>2. Walk => InHeader BY <1>1 DEF InHeader
<1> QED BY <1>2, WalkInvariance, PTL
===============================================================================
