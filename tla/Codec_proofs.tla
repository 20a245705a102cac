------------------------------ MODULE Codec_proofs ------------------------------
(***************************************************************************)
(* What Codec writes it reads again, for every layout, every legal value   *)
(* and every set of optional parameters; and what it reads is legal, and   *)
(* independent of what the object held.  Loops are reasoned about by       *)
(* induction over their turns: Upwards and Downwards.                      *)
(***************************************************************************)
EXTENDS Codec, SequenceTheorems, NaturalsInduction, WellFoundedInduction, TLAPS

\* A set of naturals has a least one.
LEMMA Least == ASSUME NEW T \in SUBSET Nat, T # {} PROVE \E x \in T : \A y \in T : x <= y
<1> DEFINE R == {ss \in Nat \X Nat : ss[1] < ss[2]}
<1>1. IsWellFoundedOn(R, Nat) BY NatLessThanWellFounded DEF OpToRel
<1>2. \A x, y \in Nat : y < x => <<y, x>> \in R OBVIOUS
<1> HIDE DEF R
<1>3. PICK x \in T : \A y \in T : ~ (<<y, x>> \in R) BY <1>1, WFMin
<1>4. \A y \in T : ~ (y < x) BY <1>2, <1>3
<1>5. x \in Nat /\ \A y \in T : y \in Nat OBVIOUS
<1> QED BY <1>4, <1>5

\* Induction up to n, over a set: what holds at 0 and is handed on holds to the end.
LEMMA Upwards ==
  ASSUME NEW n \in Nat, NEW T, 0 \in T, \A k \in 0..(n - 1) : k \in T => k + 1 \in T
  PROVE  \A k \in 0..n : k \in T
<1> DEFINE Wrong == {k \in 0..n : k \notin T}
<1>1. SUFFICES ASSUME Wrong # {} PROVE FALSE OBVIOUS
<1>2. Wrong \in SUBSET Nat OBVIOUS
<1>3. PICK k \in Wrong : \A j \in Wrong : k <= j BY <1>1, <1>2, Least
<1>4. k \in 0..n /\ k \notin T /\ k # 0 BY <1>3
<1>5. k - 1 \in 0..(n - 1) /\ ~(k <= k - 1) /\ (k - 1) + 1 = k BY <1>4
<1>6. k - 1 \in T BY <1>3, <1>5
<1> QED BY <1>4, <1>5, <1>6

\* ... and down from n.
LEMMA Downwards ==
  ASSUME NEW n \in Nat, NEW T, n \in T, \A k \in 0..(n - 1) : k + 1 \in T => k \in T
  PROVE  \A k \in 0..n : k \in T
<1> DEFINE U == {k \in 0..n : n - k \in T}
<1>1. 0 \in U OBVIOUS
<1>2. ASSUME NEW k \in 0..(n - 1), k \in U PROVE k + 1 \in U
  <2>1. n - (k + 1) \in 0..(n - 1) /\ (n - (k + 1)) + 1 = n - k /\ k + 1 \in 0..n OBVIOUS
  <2> QED BY <1>2, <2>1
<1> HIDE DEF U
<1>3. \A k \in 0..n : k \in U BY <1>1, <1>2, Upwards
<1>4. ASSUME NEW k \in 0..n PROVE k \in T
  <2>1. n - k \in 0..n /\ n - (n - k) = k OBVIOUS
  <2> QED BY <1>3, <2>1 DEF U
<1> QED BY <1>4
-----------------------------------------------------------------------------
(* The loops *)

\* Octets are naturals, with room for a NUL and an integer.
LEMMA OctetsAre ==
  MaxOctet \in Nat /\ Octets \subseteq Nat /\ 1..MaxOctet \subseteq Octets /\ {0, 1} \subseteq Octets
BY LayoutAssumption DEF Octets

\* The places of the parameters.
LEMMA LayoutLen ==
  /\ Len(Layout) \in Nat /\ DOMAIN Layout = 1..Len(Layout)
  /\ \A i \in 1..Len(Layout) : Layout[i] \in Types
BY LayoutAssumption, LenProperties, ElementOfSeq

\* Each loop is what its turns make of it: the recursive function exists, because the
\* turns up to each number do.
LEMMA MandatorySizeLoop ==
  ASSUME NEW mand
  PROVE  /\ MandatorySize(mand)[0] = 0
         /\ \A n \in 1..Len(Layout) :
              MandatorySize(mand)[n] = MandatorySize(mand)[n - 1] + ParamSize(Layout[n], mand[n])
<1> DEFINE Turn(f, n) == IF n = 0 THEN 0
                         ELSE f[n - 1] + ParamSize(Layout[n], mand[n])
           Loops == {k \in Nat : \E f : f = [n \in 0..k |-> Turn(f, n)]}
<1>1. 0 \in Loops
  <2> DEFINE f == [n \in 0..0 |-> 0]
  <2>1. f = [n \in 0..0 |-> Turn(f, n)] OBVIOUS
  <2> QED BY <2>1
<1>2. ASSUME NEW k \in Nat, k \in Loops PROVE k + 1 \in Loops
  <2>1. PICK f : f = [n \in 0..k |-> Turn(f, n)] BY <1>2
  <2> DEFINE g == [n \in 0..(k + 1) |-> IF n = k + 1 THEN Turn(f, n) ELSE f[n]]
  <2>2. ASSUME NEW n \in 0..(k + 1) PROVE g[n] = Turn(g, n)
    <3>1. n # 0 => g[n - 1] = f[n - 1] OBVIOUS
    <3>2. n # k + 1 => n \in 0..k /\ g[n] = f[n] OBVIOUS
    <3>3. n # k + 1 => f[n] = Turn(f, n) BY <2>1, <3>2
    <3> QED BY <3>1, <3>2, <3>3
  <2>3. g = [n \in 0..(k + 1) |-> Turn(g, n)] BY <2>2
  <2> HIDE DEF g, Turn
  <2> QED BY <2>3
<1>3. Len(Layout) \in Nat BY LayoutLen
<1>4. Len(Layout) \in Loops
  <2> HIDE DEF Loops
  <2>1. \A k \in 0..(Len(Layout) - 1) : k \in Loops => k + 1 \in Loops BY <1>2, <1>3
  <2>2. \A k \in 0..Len(Layout) : k \in Loops BY <1>1, <1>3, <2>1, Upwards
  <2> QED BY <1>3, <2>2
<1>5. MandatorySize(mand) = [n \in 0..Len(Layout) |-> Turn(MandatorySize(mand), n)]
  BY <1>4 DEF MandatorySize
<1>6. ASSUME NEW n \in 0..Len(Layout) PROVE MandatorySize(mand)[n] = Turn(MandatorySize(mand), n) BY <1>5
<1>7. 0 \in 0..Len(Layout) /\ \A n \in 1..Len(Layout) : n \in 0..Len(Layout) /\ n # 0 BY <1>3
<1> QED BY <1>6, <1>7

\* The octets of the mandatory parameters, turn by turn.
LEMMA MandatoryOctetsLoop ==
  ASSUME NEW mand
  PROVE  /\ MandatoryOctets(mand)[0] = <<>>
         /\ \A n \in 1..Len(Layout) :
              MandatoryOctets(mand)[n] = MandatoryOctets(mand)[n - 1] \o Write(Layout[n], mand[n])
<1> DEFINE Turn(f, n) == IF n = 0 THEN <<>>
                         ELSE f[n - 1] \o Write(Layout[n], mand[n])
           Loops == {k \in Nat : \E f : f = [n \in 0..k |-> Turn(f, n)]}
<1>1. 0 \in Loops
  <2> DEFINE f == [n \in 0..0 |-> <<>>]
  <2>1. f = [n \in 0..0 |-> Turn(f, n)] OBVIOUS
  <2> QED BY <2>1
<1>2. ASSUME NEW k \in Nat, k \in Loops PROVE k + 1 \in Loops
  <2>1. PICK f : f = [n \in 0..k |-> Turn(f, n)] BY <1>2
  <2> DEFINE g == [n \in 0..(k + 1) |-> IF n = k + 1 THEN Turn(f, n) ELSE f[n]]
  <2>2. ASSUME NEW n \in 0..(k + 1) PROVE g[n] = Turn(g, n)
    <3>1. n # 0 => g[n - 1] = f[n - 1] OBVIOUS
    <3>2. n # k + 1 => n \in 0..k /\ g[n] = f[n] OBVIOUS
    <3>3. n # k + 1 => f[n] = Turn(f, n) BY <2>1, <3>2
    <3> QED BY <3>1, <3>2, <3>3
  <2>3. g = [n \in 0..(k + 1) |-> Turn(g, n)] BY <2>2
  <2> HIDE DEF g, Turn
  <2> QED BY <2>3
<1>3. Len(Layout) \in Nat BY LayoutLen
<1>4. Len(Layout) \in Loops
  <2> HIDE DEF Loops
  <2>1. \A k \in 0..(Len(Layout) - 1) : k \in Loops => k + 1 \in Loops BY <1>2, <1>3
  <2>2. \A k \in 0..Len(Layout) : k \in Loops BY <1>1, <1>3, <2>1, Upwards
  <2> QED BY <1>3, <2>2
<1>5. MandatoryOctets(mand) = [n \in 0..Len(Layout) |-> Turn(MandatoryOctets(mand), n)]
  BY <1>4 DEF MandatoryOctets
<1>6. ASSUME NEW n \in 0..Len(Layout) PROVE MandatoryOctets(mand)[n] = Turn(MandatoryOctets(mand), n) BY <1>5
<1>7. 0 \in 0..Len(Layout) /\ \A n \in 1..Len(Layout) : n \in 0..Len(Layout) /\ n # 0 BY <1>3
<1> QED BY <1>6, <1>7

\* The size of the optional parameters, tag by tag.
LEMMA OptionalSizeLoop ==
  ASSUME NEW opts
  PROVE  /\ OptionalSize(opts)[0] = 0
         /\ \A n \in 1..(MaxOctet + 1) :
              OptionalSize(opts)[n] =
                IF n - 1 \notin DOMAIN opts THEN OptionalSize(opts)[n - 1]
                ELSE OptionalSize(opts)[n - 1] + TlvSize + ParamSize(TypeOfTag(n - 1), opts[n - 1])
<1> DEFINE Turn(f, n) == IF n = 0 THEN 0
                         ELSE IF n - 1 \notin DOMAIN opts THEN f[n - 1]
                              ELSE f[n - 1] + TlvSize + ParamSize(TypeOfTag(n - 1), opts[n - 1])
           Loops == {k \in Nat : \E f : f = [n \in 0..k |-> Turn(f, n)]}
<1>1. 0 \in Loops
  <2> DEFINE f == [n \in 0..0 |-> 0]
  <2>1. f = [n \in 0..0 |-> Turn(f, n)] OBVIOUS
  <2> QED BY <2>1
<1>2. ASSUME NEW k \in Nat, k \in Loops PROVE k + 1 \in Loops
  <2>1. PICK f : f = [n \in 0..k |-> Turn(f, n)] BY <1>2
  <2> DEFINE g == [n \in 0..(k + 1) |-> IF n = k + 1 THEN Turn(f, n) ELSE f[n]]
  <2>2. ASSUME NEW n \in 0..(k + 1) PROVE g[n] = Turn(g, n)
    <3>1. n # 0 => g[n - 1] = f[n - 1] OBVIOUS
    <3>2. n # k + 1 => n \in 0..k /\ g[n] = f[n] OBVIOUS
    <3>3. n # k + 1 => f[n] = Turn(f, n) BY <2>1, <3>2
    <3> QED BY <3>1, <3>2, <3>3
  <2>3. g = [n \in 0..(k + 1) |-> Turn(g, n)] BY <2>2
  <2> HIDE DEF g, Turn
  <2> QED BY <2>3
<1>3. (MaxOctet + 1) \in Nat BY LayoutAssumption
<1>4. (MaxOctet + 1) \in Loops
  <2> HIDE DEF Loops
  <2>1. \A k \in 0..((MaxOctet + 1) - 1) : k \in Loops => k + 1 \in Loops BY <1>2, <1>3
  <2>2. \A k \in 0..(MaxOctet + 1) : k \in Loops BY <1>1, <1>3, <2>1, Upwards
  <2> QED BY <1>3, <2>2
<1>5. OptionalSize(opts) = [n \in 0..(MaxOctet + 1) |-> Turn(OptionalSize(opts), n)]
  BY <1>4 DEF OptionalSize
<1>6. ASSUME NEW n \in 0..(MaxOctet + 1) PROVE OptionalSize(opts)[n] = Turn(OptionalSize(opts), n) BY <1>5
<1>7. 0 \in 0..(MaxOctet + 1) /\ \A n \in 1..(MaxOctet + 1) : n \in 0..(MaxOctet + 1) /\ n # 0 BY <1>3
<1> QED BY <1>6, <1>7

\* The octets of the optional parameters, tag by tag.
LEMMA OptionalOctetsLoop ==
  ASSUME NEW opts
  PROVE  /\ OptionalOctets(opts)[0] = <<>>
         /\ \A n \in 1..(MaxOctet + 1) :
              OptionalOctets(opts)[n] =
                IF n - 1 \notin DOMAIN opts THEN OptionalOctets(opts)[n - 1]
                ELSE OptionalOctets(opts)[n - 1] \o WriteTlv(n - 1, opts[n - 1])
<1> DEFINE Turn(f, n) == IF n = 0 THEN <<>>
                         ELSE IF n - 1 \notin DOMAIN opts THEN f[n - 1]
                              ELSE f[n - 1] \o WriteTlv(n - 1, opts[n - 1])
           Loops == {k \in Nat : \E f : f = [n \in 0..k |-> Turn(f, n)]}
<1>1. 0 \in Loops
  <2> DEFINE f == [n \in 0..0 |-> <<>>]
  <2>1. f = [n \in 0..0 |-> Turn(f, n)] OBVIOUS
  <2> QED BY <2>1
<1>2. ASSUME NEW k \in Nat, k \in Loops PROVE k + 1 \in Loops
  <2>1. PICK f : f = [n \in 0..k |-> Turn(f, n)] BY <1>2
  <2> DEFINE g == [n \in 0..(k + 1) |-> IF n = k + 1 THEN Turn(f, n) ELSE f[n]]
  <2>2. ASSUME NEW n \in 0..(k + 1) PROVE g[n] = Turn(g, n)
    <3>1. n # 0 => g[n - 1] = f[n - 1] OBVIOUS
    <3>2. n # k + 1 => n \in 0..k /\ g[n] = f[n] OBVIOUS
    <3>3. n # k + 1 => f[n] = Turn(f, n) BY <2>1, <3>2
    <3> QED BY <3>1, <3>2, <3>3
  <2>3. g = [n \in 0..(k + 1) |-> Turn(g, n)] BY <2>2
  <2> HIDE DEF g, Turn
  <2> QED BY <2>3
<1>3. (MaxOctet + 1) \in Nat BY LayoutAssumption
<1>4. (MaxOctet + 1) \in Loops
  <2> HIDE DEF Loops
  <2>1. \A k \in 0..((MaxOctet + 1) - 1) : k \in Loops => k + 1 \in Loops BY <1>2, <1>3
  <2>2. \A k \in 0..(MaxOctet + 1) : k \in Loops BY <1>1, <1>3, <2>1, Upwards
  <2> QED BY <1>3, <2>2
<1>5. OptionalOctets(opts) = [n \in 0..(MaxOctet + 1) |-> Turn(OptionalOctets(opts), n)]
  BY <1>4 DEF OptionalOctets
<1>6. ASSUME NEW n \in 0..(MaxOctet + 1) PROVE OptionalOctets(opts)[n] = Turn(OptionalOctets(opts), n) BY <1>5
<1>7. 0 \in 0..(MaxOctet + 1) /\ \A n \in 1..(MaxOctet + 1) : n \in 0..(MaxOctet + 1) /\ n # 0 BY <1>3
<1> QED BY <1>6, <1>7

\* The reading of the mandatory parameters, turn by turn.
LEMMA ReadingLoop ==
  ASSUME NEW held, NEW body
  PROVE  /\ Reading(held, body)[0] = [good |-> TRUE, pos |-> 1, mand |-> held]
         /\ \A n \in 1..Len(Layout) : Reading(held, body)[n] = ReadParam(Reading(held, body)[n - 1], n, body)
<1> DEFINE Turn(f, n) == IF n = 0 THEN [good |-> TRUE, pos |-> 1, mand |-> held]
                         ELSE ReadParam(f[n - 1], n, body)
           Loops == {k \in Nat : \E f : f = [n \in 0..k |-> Turn(f, n)]}
<1>1. 0 \in Loops
  <2> DEFINE f == [n \in 0..0 |-> [good |-> TRUE, pos |-> 1, mand |-> held]]
  <2>1. f = [n \in 0..0 |-> Turn(f, n)] OBVIOUS
  <2> QED BY <2>1
<1>2. ASSUME NEW k \in Nat, k \in Loops PROVE k + 1 \in Loops
  <2>1. PICK f : f = [n \in 0..k |-> Turn(f, n)] BY <1>2
  <2> DEFINE g == [n \in 0..(k + 1) |-> IF n = k + 1 THEN Turn(f, n) ELSE f[n]]
  <2>2. ASSUME NEW n \in 0..(k + 1) PROVE g[n] = Turn(g, n)
    <3>1. n # 0 => g[n - 1] = f[n - 1] OBVIOUS
    <3>2. n # k + 1 => n \in 0..k /\ g[n] = f[n] OBVIOUS
    <3>3. n # k + 1 => f[n] = Turn(f, n) BY <2>1, <3>2
    <3> QED BY <3>1, <3>2, <3>3
  <2>3. g = [n \in 0..(k + 1) |-> Turn(g, n)] BY <2>2
  <2> HIDE DEF g, Turn
  <2> QED BY <2>3
<1>3. Len(Layout) \in Nat BY LayoutLen
<1>4. Len(Layout) \in Loops
  <2> HIDE DEF Loops
  <2>1. \A k \in 0..(Len(Layout) - 1) : k \in Loops => k + 1 \in Loops BY <1>2, <1>3
  <2>2. \A k \in 0..Len(Layout) : k \in Loops BY <1>1, <1>3, <2>1, Upwards
  <2> QED BY <1>3, <2>2
<1>5. Reading(held, body) = [n \in 0..Len(Layout) |-> Turn(Reading(held, body), n)] BY <1>4 DEF Reading
<1>6. ASSUME NEW n \in 0..Len(Layout) PROVE Reading(held, body)[n] = Turn(Reading(held, body), n) BY <1>5
<1>7. 0 \in 0..Len(Layout) /\ \A n \in 1..Len(Layout) : n \in 0..Len(Layout) /\ n # 0 BY <1>3
<1> QED BY <1>6, <1>7

\* An optional parameter that can be read ends in the body, behind its header.
LEMMA FollowingIn ==
  ASSUME NEW body \in Seq(Nat), NEW pos \in 1..Len(body), ReadableTlv(body, pos)
  PROVE  /\ pos + 1 \in 1..Len(body) /\ body[pos] \in Nat /\ body[pos + 1] \in Nat
         /\ Following(body, pos) \in 1..(Len(body) + 1) /\ Following(body, pos) > pos + 1
<1>1. Len(body) \in Nat /\ \A k \in 1..Len(body) : body[k] \in Nat BY LenProperties, ElementOfSeq
<1>2. 2 <= Len(body) - pos + 1 /\ 2 + body[pos + 1] <= Len(body) - pos + 1
  BY DEF ReadableTlv, Left, TlvSize
<1>3. pos + 1 \in 1..Len(body) BY <1>1, <1>2
<1>4. body[pos + 1] \in Nat /\ body[pos] \in Nat BY <1>1, <1>3
<1>5. \A l, p, x \in Nat : 2 + x <= l - p + 1 => p + 2 + x <= l + 1 OBVIOUS
<1>6. Following(body, pos) = pos + 2 + body[pos + 1] BY DEF Following, TlvSize
<1>7. pos + 2 + body[pos + 1] <= Len(body) + 1 BY <1>1, <1>2, <1>4, <1>5
<1>8. \A p, x \in Nat : p + 2 + x \in Nat /\ p + 2 + x > p + 1 /\ p + 2 + x >= 1 OBVIOUS
<1> QED BY <1>1, <1>3, <1>4, <1>6, <1>7, <1>8

\* The loop over the optional parameters: from each position on, because from all those
\* behind it; the octets before a position do not matter.
LEMMA ReadOptionalLoop ==
  ASSUME NEW body \in Seq(Nat), NEW pos \in 1..(Len(body) + 1)
  PROVE  ReadOptional(body)[pos] =
           IF pos > Len(body) THEN [good |-> TRUE, opts |-> <<>>]
           ELSE IF ~ReadableTlv(body, pos) THEN [good |-> FALSE, opts |-> <<>>]
           ELSE [good |-> ReadOptional(body)[Following(body, pos)].good,
                 opts |-> Over(ReadOptional(body)[Following(body, pos)].opts,
                               [tag \in {body[pos]} |-> TlvValue(body, pos)])]
<1> DEFINE N == Len(body)
           Turn(f, p) == IF p > N THEN [good |-> TRUE, opts |-> <<>>]
                         ELSE IF ~ReadableTlv(body, p) THEN [good |-> FALSE, opts |-> <<>>]
                         ELSE [good |-> f[Following(body, p)].good,
                               opts |-> Over(f[Following(body, p)].opts,
                                             [tag \in {body[p]} |-> TlvValue(body, p)])]
           Loops == {k \in 1..(N + 1) : \E f : f = [p \in k..(N + 1) |-> Turn(f, p)]}
<1>1. N \in Nat BY LenProperties
<1>2. N + 1 \in Loops
  <2> DEFINE f == [p \in (N + 1)..(N + 1) |-> [good |-> TRUE, opts |-> <<>>]]
  <2>1. f = [p \in (N + 1)..(N + 1) |-> Turn(f, p)] BY <1>1
  <2>2. N + 1 \in 1..(N + 1) BY <1>1
  <2> HIDE DEF f, Turn
  <2> QED BY <2>1, <2>2
<1>3. ASSUME NEW k \in 1..N, k + 1 \in Loops PROVE k \in Loops
  <2>1. PICK f : f = [p \in (k + 1)..(N + 1) |-> Turn(f, p)] BY <1>3
  <2> DEFINE g == [p \in k..(N + 1) |-> IF p = k THEN Turn(f, p) ELSE f[p]]
  <2>2. ASSUME NEW p \in k..(N + 1) PROVE g[p] = Turn(g, p)
    <3>1. p <= N /\ ReadableTlv(body, p) => Following(body, p) \in (k + 1)..(N + 1)
      BY <1>1, FollowingIn
    <3>2. p <= N /\ ReadableTlv(body, p) => g[Following(body, p)] = f[Following(body, p)]
      BY <1>1, <3>1
    <3>3. Turn(f, p) = Turn(g, p)
      <4> HIDE DEF g
      <4>1. p \in Nat /\ (p > N \/ p <= N) BY <1>1
      <4> QED BY <3>2, <4>1
    <3>4. p # k => p \in (k + 1)..(N + 1) BY <1>1
    <3>5. p # k => f[p] = Turn(f, p) BY <2>1, <3>4
    <3> QED BY <3>3, <3>5
  <2>3. g = [p \in k..(N + 1) |-> Turn(g, p)] BY <2>2
  <2>4. k \in 1..(N + 1) BY <1>1
  <2> HIDE DEF g, Turn
  <2> QED BY <2>3, <2>4
<1>4. 1 \in Loops
  <2> DEFINE T == {k \in 0..N : k + 1 \in Loops}
  <2>1. N \in T
    <3> HIDE DEF Loops
    <3> QED BY <1>1, <1>2
  <2>2. ASSUME NEW k \in 0..(N - 1), k + 1 \in T PROVE k \in T
    <3>1. k + 1 \in 1..N /\ k \in 0..N BY <1>1
    <3>2. (k + 1) + 1 \in Loops BY <2>2
    <3> HIDE DEF Loops
    <3>3. k + 1 \in Loops BY <1>3, <3>1, <3>2
    <3> QED BY <3>1, <3>3
  <2> HIDE DEF T
  <2>3. \A k \in 0..N : k \in T BY <1>1, <2>1, <2>2, Downwards
  <2>4. 0 \in T /\ 0 + 1 = 1 BY <1>1, <2>3
  <2> QED BY <2>4 DEF T
<1>5. ReadOptional(body) = [p \in 1..(N + 1) |-> Turn(ReadOptional(body), p)]
  BY <1>4 DEF ReadOptional
<1> QED BY <1>5

\* Where the first NUL is, if there is one.
LEMMA FirstNul ==
  ASSUME NEW body \in Seq(Nat), NEW pos \in Nat \ {0}
  PROVE  \/ StringSize(body, pos) = 0
         \/ \E e \in pos..Len(body) :
              /\ StringSize(body, pos) = e - pos + 1 /\ body[e] = 0
              /\ \A i \in pos..(e - 1) : body[i] # 0
<1> DEFINE ends == {i \in pos..Len(body) : body[i] = 0}
<1>1. CASE ends = {} BY <1>1 DEF StringSize
<1>2. CASE ends # {}
  <2>1. ends \in SUBSET Nat /\ Len(body) \in Nat BY LenProperties
  <2>2. \E i \in ends : \A j \in ends : i <= j BY <1>2, <2>1, Least
  <2> DEFINE e == CHOOSE i \in ends : \A j \in ends : i <= j
  <2>3. e \in ends /\ \A j \in ends : e <= j BY <2>2
  <2>4. StringSize(body, pos) = e - pos + 1 BY <1>2 DEF StringSize
  <2> HIDE DEF e
  <2>5. \A i \in pos..(e - 1) : body[i] # 0 BY <2>1, <2>3
  <2> QED BY <2>3, <2>4, <2>5
<1> QED BY <1>1, <1>2

\* A string reaches to the first NUL.
LEMMA SizeToNul ==
  ASSUME NEW body \in Seq(Nat), NEW pos \in Nat \ {0}, NEW e \in pos..Len(body),
         body[e] = 0, \A i \in pos..(e - 1) : body[i] # 0
  PROVE  StringSize(body, pos) = e - pos + 1
<1> DEFINE ends == {i \in pos..Len(body) : body[i] = 0}
<1>1. Len(body) \in Nat BY LenProperties
<1>2. e \in ends /\ \A j \in ends : e <= j BY <1>1
<1>3. \A i \in ends : (\A j \in ends : i <= j) => i = e BY <1>1, <1>2
<1>4. (CHOOSE i \in ends : \A j \in ends : i <= j) = e BY <1>2, <1>3
<1> QED BY <1>2, <1>4 DEF StringSize
-----------------------------------------------------------------------------
(* One parameter *)

\* A type is of an integer, of a string or of octets.
LEMMA TypeCases ==
  ASSUME NEW type \in Types
  PROVE  /\ type.kind \in Kinds /\ type.max \in Nat
         /\ Integer(type) \/ type.kind \in {"cstring", "fixed"} \/ type.kind = "octets"
         /\ Integer(type) => type.kind \notin {"cstring", "fixed", "octets"}
         /\ type.kind \in {"cstring", "fixed"} => type.max > 0
BY DEF Types, Kinds, Integer

\* What is legal, by the kinds of types.
LEMMA LegalInteger ==
  ASSUME NEW type \in Types, Integer(type), NEW v
  PROVE  Legal(type, v) <=> v \in Octets
BY TypeCases DEF Legal

\* Strings and messages have a length that fits.
LEMMA LegalString ==
  ASSUME NEW type \in Types, NEW v
  PROVE  /\ type.kind = "cstring" => (Legal(type, v) <=> v \in Seq(1..MaxOctet) /\ Len(v) < type.max)
         /\ type.kind = "fixed" =>
              (Legal(type, v) <=> v \in Seq(1..MaxOctet) /\ Len(v) \in {0, type.max - 1})
         /\ type.kind = "octets" =>
              (Legal(type, v) <=> v \in Seq(Octets) /\ Len(v) <= type.max)
BY TypeCases DEF Legal, Integer

\* A legal value is written whole.
LEMMA Written ==
  ASSUME NEW type \in Types, NEW v, Legal(type, v)
  PROVE  Write(type, v) = IF Integer(type) THEN <<v>>
                          ELSE IF type.kind = "octets" THEN v ELSE v \o <<0>>
<1>1. CASE Integer(type) BY <1>1, TypeCases DEF Write
<1>2. CASE type.kind = "cstring"
  <2>1. v \in Seq(1..MaxOctet) /\ Len(v) < type.max /\ Len(v) \in Nat /\ type.max \in Nat
    BY <1>2, LegalString, LenProperties, TypeCases
  <2>2. Smaller(type.max, Len(v) + 1) - 1 = Len(v) BY <2>1 DEF Smaller
  <2>3. SubSeq(v, 1, Len(v)) = v BY <2>1, SubSeqFull
  <2> QED BY <1>2, <2>2, <2>3 DEF Write, Integer
<1>3. CASE type.kind = "fixed"
  <2>1. v \in Seq(1..MaxOctet) /\ Len(v) \in {0, type.max - 1} BY <1>3, LegalString
  <2>2. Len(v) = type.max - 1 \/ v = <<>> BY <2>1, EmptySeq
  <2>3. (IF Len(v) = type.max - 1 THEN v ELSE <<>>) = v BY <2>2
  <2> QED BY <1>3, <2>3 DEF Write, Integer
<1>4. CASE type.kind = "octets"
  <2>1. v \in Seq(Octets) /\ Len(v) <= type.max /\ Len(v) \in Nat /\ type.max \in Nat
    BY <1>4, LegalString, LenProperties, TypeCases
  <2>2. Smaller(type.max, Len(v)) = Len(v) BY <2>1 DEF Smaller
  <2>3. SubSeq(v, 1, Len(v)) = v BY <2>1, SubSeqFull
  <2> QED BY <1>4, <2>2, <2>3 DEF Write, Integer
<1> QED BY <1>1, <1>2, <1>3, <1>4, TypeCases

\* What is written are octets, as many as are counted.
LEMMA WrittenSize ==
  ASSUME NEW type \in Types, NEW v, Legal(type, v)
  PROVE  /\ Write(type, v) \in Seq(Octets)
         /\ ParamSize(type, v) \in Nat /\ Len(Write(type, v)) = ParamSize(type, v)
<1>1. CASE Integer(type)
  <2>1. Write(type, v) = <<v>> /\ v \in Octets BY <1>1, Written, LegalInteger
  <2>2. ParamSize(type, v) = 1 BY <1>1, TypeCases DEF ParamSize
  <2> QED BY <2>1, <2>2
<1>2. CASE type.kind \in {"cstring", "fixed"}
  <2>1. ~Integer(type) /\ type.kind # "octets" BY <1>2 DEF Integer
  <2>2. v \in Seq(1..MaxOctet) BY <1>2, LegalString
  <2>3. v \in Seq(Octets) /\ Len(v) \in Nat
    <3>1. 1..MaxOctet \subseteq Octets BY OctetsAre
    <3> QED BY <2>2, <3>1, SeqMonotonic, LenProperties
  <2>4. <<0>> \in Seq(Octets) /\ Len(<<0>>) = 1 BY OctetsAre
  <2>5. Write(type, v) = v \o <<0>> BY <2>1, Written
  <2>6. v \o <<0>> \in Seq(Octets) /\ Len(v \o <<0>>) = Len(v) + Len(<<0>>) BY <2>3, <2>4, ConcatProperties
  <2>7. ParamSize(type, v) = Len(v) + 1 BY <1>2, <2>1 DEF ParamSize
  <2> QED BY <2>3, <2>4, <2>5, <2>6, <2>7
<1>3. CASE type.kind = "octets"
  <2>1. ~Integer(type) BY <1>3 DEF Integer
  <2>2. Write(type, v) = v /\ v \in Seq(Octets) BY <1>3, <2>1, Written, LegalString
  <2>3. ParamSize(type, v) = Len(v) BY <1>3, <2>1 DEF ParamSize
  <2> QED BY <2>2, <2>3, LenProperties
<1> QED BY <1>1, <1>2, <1>3, TypeCases

\* The octets w stand in body from position pos on.
At(body, pos, w) ==
  pos + Len(w) <= Len(body) + 1 /\ \A k \in 1..Len(w) : body[pos + k - 1] = w[k]

\* From where a legal value was written it is read again.
LEMMA ReadsBack ==
  ASSUME NEW type \in Types, NEW v, Legal(type, v), NEW body \in Seq(Nat), NEW pos \in Nat \ {0},
         At(body, pos, Write(type, v)),
         NEW size, type.kind = "octets" => Smaller(size, type.max) = Len(v)
  PROVE  /\ Span(type, body, pos, size) = Len(Write(type, v))
         /\ Readable(type, body, pos, size)
         /\ Value(type, body, pos, size) = v
<1> DEFINE w == Write(type, v)
           n == Span(type, body, pos, size)
<1>0. Len(body) \in Nat /\ Len(w) \in Nat /\ MaxOctet \in Nat
  BY WrittenSize, LenProperties, LayoutAssumption
<1>a. pos + Len(w) <= Len(body) + 1 BY DEF At
<1>b. \A k \in 1..Len(w) : body[pos + k - 1] = w[k] BY DEF At
<1>1. CASE Integer(type)
  <2>1. w = <<v>> /\ Len(w) = 1 /\ w[1] = v BY <1>1, Written
  <2>2. n = 1 /\ Value(type, body, pos, size) = body[pos] BY <1>1, TypeCases DEF Span, Value
  <2>3. 1 \in 1..Len(w) /\ pos + 1 - 1 = pos BY <2>1
  <2>4. body[pos] = v BY <1>b, <2>1, <2>3
  <2>5. 1 <= Left(body, pos) BY <1>0, <1>a, <2>1 DEF Left
  <2>6. Readable(type, body, pos, size) BY <1>1, <2>2, <2>5, TypeCases DEF Readable
  <2> QED BY <2>1, <2>2, <2>4, <2>6
<1>2. CASE type.kind \in {"cstring", "fixed"}
  <2>1. ~Integer(type) /\ type.kind # "octets" BY <1>2 DEF Integer
  <2>2. v \in Seq(1..MaxOctet) BY <1>2, LegalString
  <2>3. v \in Seq(Nat) /\ Len(v) \in Nat /\ \A k \in 1..Len(v) : v[k] \in Nat /\ v[k] # 0
    <3>1. 1..MaxOctet \subseteq Nat OBVIOUS
    <3>2. \A k \in 1..Len(v) : v[k] \in 1..MaxOctet BY <2>2, ElementOfSeq
    <3>3. v \in Seq(Nat) BY <2>2, <3>1, SeqMonotonic
    <3>4. Len(v) \in Nat BY <3>3, LenProperties
    <3>5. \A m \in 1..MaxOctet : m \in Nat /\ m # 0 OBVIOUS
    <3> QED BY <3>2, <3>3, <3>4, <3>5
  <2>4. <<0>> \in Seq(Nat) /\ Len(<<0>>) = 1 /\ <<0>>[1] = 0 OBVIOUS
  <2>5. w = v \o <<0>> BY <2>1, Written
  <2>6. /\ Len(w) = Len(v) + 1
        /\ \A k \in 1..(Len(v) + 1) : w[k] = IF k <= Len(v) THEN v[k] ELSE <<0>>[k - Len(v)]
    BY <2>3, <2>4, <2>5, ConcatProperties
  <2> HIDE DEF w, n
  <2> DEFINE e == pos + Len(v)
  <2>7. e \in pos..Len(body) BY <1>0, <1>a, <2>3, <2>6
  <2>8. body[e] = 0
    <3>1. Len(v) + 1 \in 1..Len(w) /\ pos + (Len(v) + 1) - 1 = e /\ (Len(v) + 1) - Len(v) = 1 BY <2>3, <2>6
    <3>2. w[Len(v) + 1] = 0 BY <2>3, <2>4, <2>6, <3>1
    <3> QED BY <1>b, <3>1, <3>2
  <2>9. ASSUME NEW k \in 1..Len(v) PROVE body[pos + k - 1] = v[k]
    <3>1. k \in 1..Len(w) /\ k \in 1..(Len(v) + 1) /\ k <= Len(v) BY <2>3, <2>6
    <3> QED BY <1>b, <2>6, <3>1
  <2>10. ASSUME NEW i \in pos..(e - 1) PROVE body[i] # 0
    <3>1. i - pos + 1 \in 1..Len(v) /\ pos + (i - pos + 1) - 1 = i BY <2>3
    <3> QED BY <2>3, <2>9, <3>1
  <2>11. StringSize(body, pos) = e - pos + 1 BY <2>7, <2>8, <2>10, SizeToNul
  <2>12. n = Len(w) /\ n = Len(v) + 1
    <3>1. n = StringSize(body, pos) BY <1>2, <2>1 DEF n, Span
    <3> QED BY <2>3, <2>6, <2>11, <3>1
  <2>13. Readable(type, body, pos, size)
    <3>1. Len(w) <= Left(body, pos) BY <1>0, <1>a DEF Left
    <3>2. type.kind = "cstring" => Len(v) < type.max BY LegalString
    <3>3. type.kind = "fixed" => Len(v) + 1 \in {1, type.max}
      <4>1. SUFFICES ASSUME type.kind = "fixed" PROVE Len(v) + 1 \in {1, type.max} OBVIOUS
      <4>2. Len(v) \in {0, type.max - 1} BY <4>1, LegalString
      <4>3. type.max \in Nat BY TypeCases
      <4> QED BY <4>2, <4>3
    <3> QED BY <2>3, <2>12, <3>1, <3>2, <3>3, TypeCases DEF Readable, n
  <2>14. Value(type, body, pos, size) = v
    <3> DEFINE u == SubSeq(body, pos, pos + n - 2)
    <3>1. Value(type, body, pos, size) = u BY <1>2, <2>1 DEF Value, n
    <3>2. pos + n - 2 = pos + Len(v) - 1 BY <2>3, <2>12
    <3>3. ASSUME NEW i \in pos..(pos + n - 2) PROVE body[i] \in Nat
      <4>1. i \in 1..Len(body) BY <1>0, <2>3, <2>7, <3>2
      <4> QED BY <4>1, ElementOfSeq
    <3>4. /\ u \in Seq(Nat) /\ Len(u) = IF pos <= pos + n - 2 THEN (pos + n - 2) - pos + 1 ELSE 0
          /\ \A k \in 1..((pos + n - 2) - pos + 1) : u[k] = body[pos + k - 1]
      <4>1. pos \in Int /\ pos + n - 2 \in Int BY <2>3, <2>12
      <4> QED BY <3>3, <4>1, SubSeqProperties
    <3> HIDE DEF u
    <3>5. Len(u) = Len(v) /\ \A k \in 1..Len(v) : u[k] = body[pos + k - 1] BY <2>3, <2>12, <3>4
    <3>6. u = v BY <2>3, <2>9, <3>4, <3>5, SeqEqual
    <3> QED BY <3>1, <3>6
  <2> QED BY <2>12, <2>13, <2>14 DEF n, w
<1>3. CASE type.kind = "octets"
  <2>1. ~Integer(type) BY <1>3 DEF Integer
  <2>2. w = v /\ v \in Seq(Octets) /\ Smaller(size, type.max) = Len(v)
    BY <1>3, <2>1, Written, LegalString
  <2>3. v \in Seq(Nat) /\ Len(v) \in Nat
    <3>1. Octets \subseteq Nat BY OctetsAre
    <3> QED BY <2>2, <3>1, SeqMonotonic, LenProperties
  <2> HIDE DEF w, n
  <2>4. n = Len(v) BY <1>3, <2>1, <2>2 DEF n, Span
  <2>5. Readable(type, body, pos, size)
    <3>1. Len(w) <= Left(body, pos) BY <1>0, <1>a DEF Left
    <3> QED BY <1>3, <2>2, <2>4, <3>1 DEF Readable, n
  <2>6. Value(type, body, pos, size) = v
    <3> DEFINE u == SubSeq(body, pos, pos + n - 1)
    <3>1. Value(type, body, pos, size) = u BY <1>3, <2>1 DEF Value, n
    <3>2. pos + Len(v) <= Len(body) + 1 /\ \A k \in 1..Len(v) : body[pos + k - 1] = v[k] BY <1>a, <1>b, <2>2
    <3>3. ASSUME NEW i \in pos..(pos + n - 1) PROVE body[i] \in Nat
      <4>1. i \in 1..Len(body) BY <1>0, <2>3, <2>4, <3>2
      <4> QED BY <4>1, ElementOfSeq
    <3>4. /\ u \in Seq(Nat) /\ Len(u) = IF pos <= pos + n - 1 THEN (pos + n - 1) - pos + 1 ELSE 0
          /\ \A k \in 1..((pos + n - 1) - pos + 1) : u[k] = body[pos + k - 1]
      <4>1. pos \in Int /\ pos + n - 1 \in Int BY <2>3, <2>4
      <4> QED BY <3>3, <4>1, SubSeqProperties
    <3> HIDE DEF u
    <3>5. Len(u) = Len(v) /\ \A k \in 1..Len(v) : u[k] = body[pos + k - 1] BY <2>3, <2>4, <3>4
    <3>6. u = v BY <2>3, <3>2, <3>4, <3>5, SeqEqual
    <3> QED BY <3>1, <3>6
  <2> QED BY <2>2, <2>4, <2>5, <2>6 DEF n, w
<1> QED BY <1>1, <1>2, <1>3, TypeCases

\* A part of the octets.
LEMMA Part ==
  ASSUME NEW S, NEW body \in Seq(S), NEW a \in Nat \ {0}, NEW n \in Nat, a + n <= Len(body) + 1
  PROVE  /\ SubSeq(body, a, a + n - 1) \in Seq(S) /\ Len(SubSeq(body, a, a + n - 1)) = n
         /\ \A k \in 1..n : SubSeq(body, a, a + n - 1)[k] = body[a + k - 1]
<1>1. Len(body) \in Nat BY LenProperties
<1>2. ASSUME NEW i \in a..(a + n - 1) PROVE body[i] \in S
  <2>1. i \in 1..Len(body) BY <1>1
  <2> QED BY <2>1, ElementOfSeq
<1>3. a \in Int /\ a + n - 1 \in Int OBVIOUS
<1> DEFINE u == SubSeq(body, a, a + n - 1)
<1>4. /\ u \in Seq(S) /\ Len(u) = IF a <= a + n - 1 THEN (a + n - 1) - a + 1 ELSE 0
      /\ \A k \in 1..((a + n - 1) - a + 1) : u[k] = body[a + k - 1]
  BY <1>2, <1>3, SubSeqProperties
<1> HIDE DEF u
<1>5. Len(u) = n /\ (a + n - 1) - a + 1 = n BY <1>4
<1>6. u \in Seq(S) /\ Len(u) = n /\ \A k \in 1..n : u[k] = body[a + k - 1] BY <1>4, <1>5
<1> QED BY <1>6 DEF u

\* A sequence is one of those of its elements.
LEMMA SeqOf ==
  ASSUME NEW S, NEW T, NEW s \in Seq(S), \A k \in 1..Len(s) : s[k] \in T
  PROVE  s \in Seq(T)
<1>1. Len(s) \in Nat /\ s \in [1..Len(s) -> S] BY LenProperties
<1>2. s \in [1..Len(s) -> T] BY <1>1
<1> QED BY <1>1, <1>2, SeqDef

\* What can be read of octets is legal.
LEMMA ReadLegal ==
  ASSUME NEW type \in Types, NEW body \in Seq(Octets), NEW pos \in Nat \ {0},
         pos <= Len(body) + 1, NEW size \in Nat, Readable(type, body, pos, size)
  PROVE  /\ Span(type, body, pos, size) \in Nat
         /\ pos + Span(type, body, pos, size) <= Len(body) + 1
         /\ Legal(type, Value(type, body, pos, size))
         /\ type.kind = "octets" => Len(Value(type, body, pos, size)) = Smaller(size, type.max)
<1> DEFINE n == Span(type, body, pos, size)
<1>0. Len(body) \in Nat /\ MaxOctet \in Nat /\ body \in Seq(Nat)
  <2>1. Octets \subseteq Nat BY OctetsAre
  <2> QED BY <2>1, LenProperties, LayoutAssumption, SeqMonotonic
<1>1. n <= Len(body) - pos + 1 BY DEF Readable, Left
<1>2. CASE Integer(type)
  <2>1. n = 1 /\ Value(type, body, pos, size) = body[pos] BY <1>2, TypeCases DEF Span, Value
  <2> HIDE DEF n
  <2>2. pos \in 1..Len(body) BY <1>0, <1>1, <2>1
  <2>3. body[pos] \in Octets BY <2>2, ElementOfSeq
  <2>4. type.kind # "octets" BY <1>2, TypeCases
  <2> QED BY <1>0, <1>1, <1>2, <2>1, <2>3, <2>4, LegalInteger DEF n
<1>3. CASE type.kind \in {"cstring", "fixed"}
  <2>1. ~Integer(type) /\ type.kind # "octets" BY <1>3 DEF Integer
  <2>2. n = StringSize(body, pos) BY <1>3, <2>1 DEF Span
  <2>3. type.kind = "cstring" => 0 < n /\ n <= type.max BY DEF Readable
  <2>4. type.kind = "fixed" => n \in {1, type.max} BY DEF Readable
  <2>5. Value(type, body, pos, size) = SubSeq(body, pos, pos + n - 2) BY <1>3, <2>1 DEF Value
  <2> HIDE DEF n
  <2>6. n # 0 BY <1>3, <2>3, <2>4, TypeCases
  <2>7. PICK e \in pos..Len(body) : n = e - pos + 1 /\ \A i \in pos..(e - 1) : body[i] # 0
    BY <1>0, <2>2, <2>6, FirstNul
  <2>8. n \in Nat \ {0} /\ n - 1 \in Nat /\ pos + (n - 1) - 1 = pos + n - 2 /\ pos + (n - 1) <= Len(body) + 1
    BY <1>0, <2>7
  <2> DEFINE u == SubSeq(body, pos, pos + (n - 1) - 1)
  <2>9. u \in Seq(Octets) /\ Len(u) = n - 1 /\ \A k \in 1..(n - 1) : u[k] = body[pos + k - 1]
    <3>1. PICK m \in Nat : m = n - 1 BY <2>8
    <3>2. pos + m <= Len(body) + 1 BY <2>8, <3>1
    <3>3. /\ SubSeq(body, pos, pos + m - 1) \in Seq(Octets)
          /\ Len(SubSeq(body, pos, pos + m - 1)) = m
          /\ \A k \in 1..m : SubSeq(body, pos, pos + m - 1)[k] = body[pos + k - 1]
      BY <3>2, Part
    <3> QED BY <3>1, <3>3
  <2>10. u = Value(type, body, pos, size) BY <2>5, <2>8
  <2> HIDE DEF u
  <2>11. u \in Seq(1..MaxOctet)
    <3>1. ASSUME NEW k \in 1..Len(u) PROVE u[k] \in 1..MaxOctet
      <4>1. k \in 1..(n - 1) /\ pos + k - 1 \in pos..(e - 1) BY <2>7, <2>8, <2>9
      <4>2. u[k] # 0 BY <2>7, <2>9, <4>1
      <4>3. u[k] \in Octets BY <2>9, ElementOfSeq
      <4> QED BY <1>0, <4>2, <4>3 DEF Octets
    <3> QED BY <2>9, <3>1, SeqOf
  <2>12. type.max \in Nat BY TypeCases
  <2>13. Legal(type, u)
    <3>1. CASE type.kind = "cstring" BY <2>3, <2>8, <2>9, <2>11, <2>12, <3>1, LegalString
    <3>2. CASE type.kind = "fixed"
      <4>1. n - 1 \in {0, type.max - 1} BY <2>4, <3>2
      <4> QED BY <2>9, <2>11, <3>2, <4>1, LegalString
    <3> QED BY <1>3, <3>1, <3>2
  <2>14. n \in Nat /\ pos + n <= Len(body) + 1 BY <1>0, <1>1, <2>8
  <2> QED BY <2>1, <2>10, <2>13, <2>14 DEF n
<1>4. CASE type.kind = "octets"
  <2>1. ~Integer(type) BY <1>4 DEF Integer
  <2>2. n = Smaller(size, type.max) /\ Value(type, body, pos, size) = SubSeq(body, pos, pos + n - 1)
    BY <1>4, <2>1 DEF Span, Value
  <2> HIDE DEF n
  <2>3. n \in Nat /\ n <= type.max BY <2>2, TypeCases DEF Smaller
  <2>4. pos + n <= Len(body) + 1 BY <1>0, <1>1, <2>3
  <2> DEFINE u == SubSeq(body, pos, pos + n - 1)
  <2>5. u \in Seq(Octets) /\ Len(u) = n
    <3>1. PICK m \in Nat : m = n BY <2>3
    <3>2. pos + m <= Len(body) + 1 BY <2>4, <3>1
    <3>3. SubSeq(body, pos, pos + m - 1) \in Seq(Octets) /\ Len(SubSeq(body, pos, pos + m - 1)) = m
      BY <3>2, Part
    <3> QED BY <3>1, <3>3
  <2>6. Legal(type, u) BY <1>4, <2>3, <2>5, LegalString
  <2> QED BY <2>2, <2>3, <2>4, <2>5, <2>6 DEF n
<1> QED BY <1>2, <1>3, <1>4, TypeCases

\* Every tag has a type, whose values an octet can count.
LEMMA TagTypes == ASSUME NEW tag PROVE TypeOfTag(tag) \in Types /\ TypeOfTag(tag).max <= MaxOctet
<1>1. Unknown \in Types /\ Unknown.max = MaxOctet BY OctetsAre DEF Unknown, Types, Kinds
<1>2. CASE tag \in Registered BY <1>2, TagAssumption DEF TypeOfTag, Registered
<1>3. CASE tag \notin Registered BY <1>1, <1>3, OctetsAre DEF TypeOfTag
<1> QED BY <1>2, <1>3

\* The size of a legal value, and with it what an optional parameter announces,
\* is an octet.
LEMMA TlvWritten ==
  ASSUME NEW tag \in Octets, NEW v, Legal(TypeOfTag(tag), v)
  PROVE  LET size == ParamSize(TypeOfTag(tag), v)
             w == Write(TypeOfTag(tag), v)
         IN /\ size \in Octets /\ size \in Nat /\ w \in Seq(Octets) /\ Len(w) = size
            /\ WriteTlv(tag, v) \in Seq(Octets) /\ Len(WriteTlv(tag, v)) = TlvSize + size
            /\ WriteTlv(tag, v)[1] = tag /\ WriteTlv(tag, v)[2] = size
            /\ \A k \in 1..size : WriteTlv(tag, v)[k + TlvSize] = w[k]
<1> DEFINE type == TypeOfTag(tag)
           size == ParamSize(type, v)
           w == Write(type, v)
<1>1. type \in Types /\ type.max <= MaxOctet /\ type.max \in Nat BY TagTypes, TypeCases
<1>2. size \in Nat /\ w \in Seq(Octets) /\ Len(w) = size BY <1>1, WrittenSize
<1>3. size \in Octets
  <2>1. CASE Integer(type) BY <1>1, <2>1, TypeCases, OctetsAre DEF ParamSize
  <2>2. CASE type.kind \in {"cstring", "fixed"}
    <3>1. ~Integer(type) /\ type.max > 0 BY <1>1, <2>2, TypeCases
    <3>2. size = Len(v) + 1 BY <2>2, <3>1 DEF ParamSize
    <3>3. v \in Seq(1..MaxOctet) /\ (Len(v) < type.max \/ Len(v) \in {0, type.max - 1})
      BY <1>1, <2>2, LegalString
    <3>4. Len(v) \in Nat BY <3>3, LenProperties
    <3>5. Len(v) + 1 <= type.max BY <1>1, <3>1, <3>3, <3>4
    <3> QED BY <1>1, <3>2, <3>4, <3>5, OctetsAre DEF Octets
  <2>3. CASE type.kind = "octets"
    <3>1. size = Len(v) BY <1>1, <2>3, TypeCases DEF ParamSize
    <3>2. v \in Seq(Octets) /\ Len(v) <= type.max BY <1>1, <2>3, LegalString
    <3>3. Len(v) \in Nat BY <3>2, LenProperties
    <3> QED BY <1>1, <3>1, <3>2, <3>3, OctetsAre DEF Octets
  <2> QED BY <1>1, <2>1, <2>2, <2>3, TypeCases
<1> HIDE DEF size, w, type
<1> DEFINE h == <<tag, size>>
<1>4. h \in Seq(Octets) /\ Len(h) = 2 /\ h[1] = tag /\ h[2] = size BY <1>3
<1>5. WriteTlv(tag, v) = h \o w BY DEF WriteTlv, size, w, type
<1> HIDE DEF h
<1>6. /\ h \o w \in Seq(Octets) /\ Len(h \o w) = 2 + size
      /\ \A i \in 1..(2 + size) : (h \o w)[i] = IF i <= 2 THEN h[i] ELSE w[i - 2]
  <2>1. /\ h \o w \in Seq(Octets) /\ Len(h \o w) = Len(h) + Len(w)
        /\ \A i \in 1..(Len(h) + Len(w)) : (h \o w)[i] = IF i <= Len(h) THEN h[i] ELSE w[i - Len(h)]
    BY <1>2, <1>4, ConcatProperties
  <2> QED BY <1>2, <1>4, <2>1
<1>7. (h \o w)[1] = tag /\ (h \o w)[2] = size BY <1>2, <1>4, <1>6
<1>8. ASSUME NEW k \in 1..size PROVE (h \o w)[k + TlvSize] = w[k]
  <2>1. k + 2 \in 1..(2 + size) /\ ~(k + 2 <= 2) /\ (k + 2) - 2 = k BY <1>2
  <2> QED BY <1>6, <2>1 DEF TlvSize
<1> QED BY <1>2, <1>3, <1>5, <1>6, <1>7, <1>8 DEF TlvSize, size, w, type
-----------------------------------------------------------------------------
(* The mandatory parameters *)

\* Each mandatory parameter is legal.
LEMMA MandLegal ==
  ASSUME NEW mand, LegalMand(mand), NEW i \in 1..Len(Layout)
  PROVE  Layout[i] \in Types /\ Legal(Layout[i], mand[i])
BY LayoutLen DEF LegalMand

\* The mandatory parameters are written to octets, as many as are counted.
LEMMA MandatoryWritten ==
  ASSUME NEW mand, LegalMand(mand)
  PROVE  \A n \in 0..Len(Layout) :
           /\ MandatorySize(mand)[n] \in Nat
           /\ MandatoryOctets(mand)[n] \in Seq(Octets)
           /\ Len(MandatoryOctets(mand)[n]) = MandatorySize(mand)[n]
<1> DEFINE Done == {n \in 0..Len(Layout) :
                      /\ MandatorySize(mand)[n] \in Nat
                      /\ MandatoryOctets(mand)[n] \in Seq(Octets)
                      /\ Len(MandatoryOctets(mand)[n]) = MandatorySize(mand)[n]}
<1>1. Len(Layout) \in Nat BY LayoutLen
<1>2. 0 \in Done
  <2>1. MandatorySize(mand)[0] = 0 /\ MandatoryOctets(mand)[0] = <<>>
    BY MandatorySizeLoop, MandatoryOctetsLoop
  <2>2. <<>> \in Seq(Octets) /\ Len(<<>>) = 0 BY EmptySeq
  <2>3. 0 \in 0..Len(Layout) /\ 0 \in Nat BY <1>1
  <2>4. Len(MandatoryOctets(mand)[0]) = MandatorySize(mand)[0] BY <2>1, <2>2
  <2>5. MandatoryOctets(mand)[0] \in Seq(Octets) BY <2>1, <2>2
  <2> QED BY <2>1, <2>3, <2>4, <2>5
<1>3. ASSUME NEW k \in 0..(Len(Layout) - 1), k \in Done PROVE k + 1 \in Done
  <2>1. k + 1 \in 1..Len(Layout) /\ k + 1 \in 0..Len(Layout) /\ (k + 1) - 1 = k BY <1>1
  <2> DEFINE type == Layout[k + 1]
             v == mand[k + 1]
             w == Write(type, v)
  <2>2. type \in Types /\ Legal(type, v) BY <2>1, MandLegal
  <2>3. w \in Seq(Octets) /\ ParamSize(type, v) \in Nat /\ Len(w) = ParamSize(type, v) BY <2>2, WrittenSize
  <2>4. MandatorySize(mand)[k + 1] = MandatorySize(mand)[k] + ParamSize(type, v) BY <2>1, MandatorySizeLoop
  <2>5. MandatoryOctets(mand)[k + 1] = MandatoryOctets(mand)[k] \o w BY <2>1, MandatoryOctetsLoop
  <2> HIDE DEF w
  <2>6. /\ MandatoryOctets(mand)[k] \o w \in Seq(Octets)
        /\ Len(MandatoryOctets(mand)[k] \o w) = Len(MandatoryOctets(mand)[k]) + Len(w)
    BY <1>3, <2>3, ConcatProperties
  <2>7. /\ MandatorySize(mand)[k] \in Nat
        /\ Len(MandatoryOctets(mand)[k]) = MandatorySize(mand)[k]
    BY <1>3
  <2>8. MandatorySize(mand)[k + 1] \in Nat BY <2>3, <2>4, <2>7
  <2>9. Len(MandatoryOctets(mand)[k + 1]) = MandatorySize(mand)[k + 1] BY <2>3, <2>4, <2>5, <2>6, <2>7
  <2> QED BY <2>1, <2>5, <2>6, <2>8, <2>9
<1> HIDE DEF Done
<1>4. \A n \in 0..Len(Layout) : n \in Done BY <1>1, <1>2, <1>3, Upwards
<1> QED BY <1>4 DEF Done

\* What was written stays at the front of what is written in the end.
LEMMA MandatoryPrefix ==
  ASSUME NEW mand, LegalMand(mand), NEW n \in 0..Len(Layout)
  PROVE  At(MandatoryOctets(mand)[Len(Layout)], 1, MandatoryOctets(mand)[n])
<1> DEFINE w(i) == MandatoryOctets(mand)[i]
           L == Len(Layout)
           Done == {i \in 0..L : Len(w(i)) <= Len(w(L)) /\ \A k \in 1..Len(w(i)) : w(L)[k] = w(i)[k]}
<1>1. L \in Nat BY LayoutLen
<1>2. \A i \in 0..L : w(i) \in Seq(Octets) /\ Len(w(i)) \in Nat BY MandatoryWritten
<1>3. L \in Done BY <1>1, <1>2
<1>4. ASSUME NEW i \in 0..(L - 1), i + 1 \in Done PROVE i \in Done
  <2>1. i + 1 \in 1..L /\ i + 1 \in 0..L /\ i \in 0..L /\ (i + 1) - 1 = i BY <1>1
  <2> DEFINE x == Write(Layout[i + 1], mand[i + 1])
  <2>2. x \in Seq(Octets) /\ Len(x) \in Nat BY <2>1, MandLegal, WrittenSize, LenProperties
  <2>3. w(i + 1) = w(i) \o x BY <2>1, MandatoryOctetsLoop
  <2> HIDE DEF x
  <2>4. /\ Len(w(i) \o x) = Len(w(i)) + Len(x)
        /\ \A k \in 1..(Len(w(i)) + Len(x)) :
             (w(i) \o x)[k] = IF k <= Len(w(i)) THEN w(i)[k] ELSE x[k - Len(w(i))]
    BY <1>2, <2>1, <2>2, ConcatProperties
  <2> HIDE DEF w, L
  <2>5. ASSUME NEW k \in 1..Len(w(i)) PROVE w(L)[k] = w(i)[k]
    <3>1. k \in 1..Len(w(i + 1)) /\ k <= Len(w(i)) /\ k \in 1..(Len(w(i)) + Len(x))
      BY <1>2, <2>1, <2>2, <2>3, <2>4
    <3>2. w(L)[k] = w(i + 1)[k] BY <1>4, <3>1
    <3> QED BY <2>3, <2>4, <3>1, <3>2
  <2>6. Len(w(i)) <= Len(w(L))
    <3>1. L \in 0..L BY <1>1
    <3> QED BY <1>2, <1>4, <2>1, <2>2, <2>3, <2>4, <3>1
  <2> QED BY <2>1, <2>5, <2>6
<1> HIDE DEF Done
<1>5. \A i \in 0..L : i \in Done BY <1>1, <1>3, <1>4, Downwards
<1>6. Len(w(n)) <= Len(w(L)) /\ \A k \in 1..Len(w(n)) : w(L)[k] = w(n)[k] BY <1>5 DEF Done
<1>7. \A k \in 1..Len(w(n)) : 1 + k - 1 = k OBVIOUS
<1>8. Len(w(n)) \in Nat /\ Len(w(L)) \in Nat BY <1>1, <1>2
<1> QED BY <1>6, <1>7, <1>8 DEF At

\* What stands in octets that stand somewhere.
LEMMA AtPart ==
  ASSUME NEW body, NEW pos \in Nat \ {0}, NEW w \in Seq(Octets), At(body, pos, w),
         NEW i \in Nat \ {0}, NEW x \in Seq(Octets), At(w, i, x), Len(body) \in Nat
  PROVE  At(body, pos + i - 1, x)
<1>1. Len(w) \in Nat /\ Len(x) \in Nat BY LenProperties
<1>2. pos + Len(w) <= Len(body) + 1 /\ \A k \in 1..Len(w) : body[pos + k - 1] = w[k] BY DEF At
<1>3. i + Len(x) <= Len(w) + 1 /\ \A k \in 1..Len(x) : w[i + k - 1] = x[k] BY DEF At
<1>4. ASSUME NEW k \in 1..Len(x) PROVE body[(pos + i - 1) + k - 1] = x[k]
  <2>1. i + k - 1 \in 1..Len(w) /\ pos + (i + k - 1) - 1 = (pos + i - 1) + k - 1 BY <1>1, <1>3
  <2> QED BY <1>2, <1>3, <2>1
<1>5. (pos + i - 1) + Len(x) <= Len(body) + 1 BY <1>1, <1>2, <1>3
<1> QED BY <1>4, <1>5 DEF At

\* Of two sequences joined, each stands in its place.
LEMMA AtEnd ==
  ASSUME NEW w \in Seq(Octets), NEW x \in Seq(Octets)
  PROVE  At(w \o x, 1, w) /\ At(w \o x, Len(w) + 1, x)
<1>1. Len(w) \in Nat /\ Len(x) \in Nat BY LenProperties
<1>2. /\ Len(w \o x) = Len(w) + Len(x)
      /\ \A k \in 1..(Len(w) + Len(x)) : (w \o x)[k] = IF k <= Len(w) THEN w[k] ELSE x[k - Len(w)]
  BY ConcatProperties
<1>3. ASSUME NEW k \in 1..Len(w) PROVE (w \o x)[1 + k - 1] = w[k]
  <2>1. k \in 1..(Len(w) + Len(x)) /\ k <= Len(w) /\ 1 + k - 1 = k BY <1>1
  <2> QED BY <1>2, <2>1
<1>4. ASSUME NEW k \in 1..Len(x) PROVE (w \o x)[(Len(w) + 1) + k - 1] = x[k]
  <2>1. /\ Len(w) + k \in 1..(Len(w) + Len(x)) /\ ~(Len(w) + k <= Len(w))
        /\ (Len(w) + 1) + k - 1 = Len(w) + k /\ (Len(w) + k) - Len(w) = k
    BY <1>1
  <2> QED BY <1>2, <2>1
<1>5. 1 + Len(w) <= Len(w \o x) + 1 /\ (Len(w) + 1) + Len(x) <= Len(w \o x) + 1 BY <1>1, <1>2
<1> QED BY <1>3, <1>4, <1>5 DEF At

\* vector::resize gives the size it is asked for, ...
LEMMA ResizeLen == ASSUME NEW v, NEW n \in Nat PROVE Len(Resize(v, n)) = n
<1> DEFINE e == Resize(v, n)
           S == {e[k] : k \in 1..n}
<1>1. DOMAIN e = 1..n /\ e = [k \in 1..n |-> e[k]] BY DEF Resize
<1> HIDE DEF e
<1>2. e \in [1..n -> S] BY <1>1
<1> HIDE DEF S
<1>3. e \in Seq(S) BY <1>2, SeqDef
<1>4. Len(e) \in Nat /\ 1..Len(e) = 1..n BY <1>1, <1>3, LenProperties
<1>5. n <= Len(e) /\ Len(e) <= n
  <2>1. n # 0 => n \in 1..Len(e) BY <1>4
  <2>2. Len(e) # 0 => Len(e) \in 1..n BY <1>4
  <2> QED BY <1>4, <2>1, <2>2
<1> QED BY <1>4, <1>5 DEF e

\* ... and octets of octets.
LEMMA ResizeLegal ==
  ASSUME NEW v \in Seq(Octets), NEW n \in Nat
  PROVE  Resize(v, n) \in Seq(Octets)
<1>1. Len(v) \in Nat /\ \A k \in 1..Len(v) : v[k] \in Octets BY LenProperties, ElementOfSeq
<1>2. \A k \in 1..n : (IF k <= Len(v) THEN v[k] ELSE 0) \in Octets BY <1>1, OctetsAre
<1>3. Resize(v, n) \in [1..n -> Octets] BY <1>2 DEF Resize
<1> QED BY <1>3, SeqDef

\* A function of the parameters' places.
OnLayout(f) == f = [j \in DOMAIN Layout |-> f[j]]

\* The parameters before a turn, its own and those behind it: the text of ReadParam
\* by cases.
LEMMA ReadParamIs ==
  ASSUME NEW r, NEW i \in 1..Len(Layout), NEW body
  PROVE  LET type == Layout[i]
             size == IF type.kind = "octets" THEN Len(r.mand[i]) ELSE 0
             s == ReadParam(r, i, body)
         IN /\ OnLayout(s.mand)
            /\ s.good <=> r.good /\ Readable(type, body, r.pos, size)
            /\ s.good \in BOOLEAN
            /\ s.good => /\ s.pos = r.pos + Span(type, body, r.pos, size)
                         /\ s.mand[i] = Value(type, body, r.pos, size)
            /\ ~s.good => /\ s.pos = r.pos
                          /\ s.mand[i] = IF type.kind = "octets"
                                         THEN Resize(r.mand[i], Smaller(size, type.max))
                                         ELSE r.mand[i]
            /\ \A j \in 1..(i - 1) : s.mand[j] = r.mand[j]
            /\ \A j \in (i + 1)..Len(Layout) :
                 s.mand[j] = IF type.kind = "length" /\ Layout[j].kind = "octets"
                             THEN Resize(r.mand[j], s.mand[i])
                             ELSE r.mand[j]
<1> DEFINE type == Layout[i]
           size == IF type.kind = "octets" THEN Len(r.mand[i]) ELSE 0
           good == r.good /\ Readable(type, body, r.pos, size)
           v == IF good THEN Value(type, body, r.pos, size)
                ELSE IF type.kind = "octets" THEN Resize(r.mand[i], Smaller(size, type.max))
                ELSE r.mand[i]
           pos == IF good THEN r.pos + Span(type, body, r.pos, size) ELSE r.pos
           mand == [j \in DOMAIN Layout |->
                      IF j = i THEN v
                      ELSE IF type.kind = "length" /\ Layout[j].kind = "octets"
                        THEN Resize(r.mand[j], v)
                      ELSE r.mand[j]]
           s == ReadParam(r, i, body)
<1>1. s = [good |-> good, pos |-> pos, mand |-> mand] BY DEF ReadParam
<1>2. Len(Layout) \in Nat /\ DOMAIN Layout = 1..Len(Layout) BY LayoutLen
<1>3. ASSUME NEW j \in 1..(i - 1) PROVE mand[j] = r.mand[j]
  <2>1. j \in 1..Len(Layout) /\ j # i /\ i \in j..Len(Layout) BY <1>2
  <2>2. Layout[j].kind = "octets" => Layout[i].kind # "length" BY <1>2, <2>1, LayoutAssumption
  <2> HIDE DEF v
  <2> QED BY <1>2, <2>1, <2>2
<1> HIDE DEF v, good, pos, size, s
<1>4. mand[i] = v BY <1>2
<1>5. ASSUME NEW j \in (i + 1)..Len(Layout)
      PROVE  mand[j] = IF type.kind = "length" /\ Layout[j].kind = "octets"
                       THEN Resize(r.mand[j], v) ELSE r.mand[j]
  BY <1>2
<1>6. OnLayout(mand) BY DEF OnLayout
<1> HIDE DEF mand, type
<1>7. s.good = good /\ s.pos = pos /\ s.mand = mand BY <1>1
<1>8. good \in BOOLEAN BY DEF good
<1> QED BY <1>1, <1>3, <1>4, <1>5, <1>6, <1>7, <1>8 DEF v, good, pos, size, s, type

\* The octets of parameter i stand behind those of the parameters before it.
LEMMA ParamAt ==
  ASSUME NEW mand, LegalMand(mand), NEW body \in Seq(Nat),
         At(body, 1, MandatoryOctets(mand)[Len(Layout)]), NEW i \in 1..Len(Layout)
  PROVE  /\ MandatorySize(mand)[i - 1] \in Nat
         /\ MandatorySize(mand)[i] = MandatorySize(mand)[i - 1] + Len(Write(Layout[i], mand[i]))
         /\ At(body, MandatorySize(mand)[i - 1] + 1, Write(Layout[i], mand[i]))
<1> DEFINE w == Write(Layout[i], mand[i])
           o(n) == MandatoryOctets(mand)[n]
           z(n) == MandatorySize(mand)[n]
<1>1. /\ Len(Layout) \in Nat /\ i - 1 \in 0..Len(Layout) /\ i \in 0..Len(Layout)
      /\ Len(Layout) \in 0..Len(Layout)
  BY LayoutLen
<1>2. \A n \in 0..Len(Layout) : z(n) \in Nat /\ o(n) \in Seq(Octets) /\ Len(o(n)) = z(n)
  BY MandatoryWritten
<1>3. w \in Seq(Octets) /\ Len(w) \in Nat /\ ParamSize(Layout[i], mand[i]) = Len(w)
  BY MandLegal, WrittenSize
<1>4. z(i) = z(i - 1) + Len(w) BY <1>3, MandatorySizeLoop
<1>5. o(i) = o(i - 1) \o w BY MandatoryOctetsLoop
<1>6. At(o(Len(Layout)), 1, o(i)) BY <1>1, MandatoryPrefix
<1>7. At(body, 1, o(Len(Layout))) OBVIOUS
<1> HIDE DEF w, o, z
<1>8. Len(body) \in Nat BY LenProperties
<1>9. At(body, 1, o(i))
  <2>1. o(Len(Layout)) \in Seq(Octets) /\ o(i) \in Seq(Octets) /\ 1 \in Nat \ {0} BY <1>1, <1>2
  <2>2. At(body, 1 + 1 - 1, o(i)) BY <1>6, <1>7, <1>8, <2>1, AtPart
  <2>3. 1 + 1 - 1 = 1 OBVIOUS
  <2> QED BY <2>2, <2>3
<1>10. At(o(i), z(i - 1) + 1, w)
  <2> DEFINE a == o(i - 1)
  <2>1. a \in Seq(Octets) /\ Len(a) = z(i - 1) BY <1>1, <1>2
  <2> HIDE DEF a
  <2>2. At(a \o w, Len(a) + 1, w) BY <1>3, <2>1, AtEnd
  <2> QED BY <1>5, <2>1, <2>2 DEF a
<1>11. At(body, 1 + (z(i - 1) + 1) - 1, w)
  <2> DEFINE k == z(i - 1) + 1
  <2>a. z(i - 1) \in Nat BY <1>1, <1>2
  <2>b. k \in Nat \ {0} /\ 1 \in Nat \ {0} BY <2>a
  <2>c. o(i) \in Seq(Octets) BY <1>1, <1>2
  <2>1. k \in Nat \ {0} /\ o(i) \in Seq(Octets) /\ 1 \in Nat \ {0} BY <2>b, <2>c
  <2>2. At(o(i), k, w) BY <1>10
  <2> HIDE DEF k
  <2>3. At(body, 1 + k - 1, w) BY <1>3, <1>8, <1>9, <2>1, <2>2, AtPart
  <2> QED BY <2>3 DEF k
<1>12. z(i - 1) \in Nat BY <1>1, <1>2
<1>13. 1 + (z(i - 1) + 1) - 1 = z(i - 1) + 1 BY <1>12
<1> QED BY <1>4, <1>11, <1>12, <1>13 DEF w, z

\* The reader stands behind the first n parameters and has read what they were, and
\* short_message has been given its size.
ReadSoFar(mand, r, n) ==
  /\ r.good = TRUE /\ r.pos = MandatorySize(mand)[n] + 1
  /\ OnLayout(r.mand)
  /\ \A j \in 1..n : r.mand[j] = mand[j]
  /\ \A j \in (n + 1)..Len(Layout) :
       Layout[j].kind = "octets" /\ (\E l \in 1..n : Layout[l].kind = "length") =>
         Smaller(Len(r.mand[j]), Layout[j].max) = Len(mand[j])

\* A turn of reading goes on with what was written.
LEMMA ParamReadBack ==
  ASSUME NEW mand, LegalMand(mand), Consistent(mand), NEW body \in Seq(Nat),
         At(body, 1, MandatoryOctets(mand)[Len(Layout)]),
         NEW i \in 1..Len(Layout), NEW r, ReadSoFar(mand, r, i - 1)
  PROVE  ReadSoFar(mand, ReadParam(r, i, body), i)
<1> DEFINE type == Layout[i]
           v == mand[i]
           w == Write(type, v)
           size == IF type.kind = "octets" THEN Len(r.mand[i]) ELSE 0
           p == MandatorySize(mand)[i - 1] + 1
           s == ReadParam(r, i, body)
<1>1. Len(Layout) \in Nat /\ DOMAIN Layout = 1..Len(Layout) BY LayoutLen
<1>2. type \in Types /\ Legal(type, v) BY MandLegal
<1>3. p \in Nat \ {0} /\ MandatorySize(mand)[i] + 1 = p + Len(w) /\ At(body, p, w)
  <2>1. /\ MandatorySize(mand)[i - 1] \in Nat
        /\ MandatorySize(mand)[i] = MandatorySize(mand)[i - 1] + Len(w)
        /\ At(body, p, w)
    BY ParamAt
  <2>2. Len(w) \in Nat BY <1>2, WrittenSize, LenProperties
  <2> QED BY <2>1, <2>2
<1>4. r.good = TRUE /\ r.pos = p /\ OnLayout(r.mand) BY DEF ReadSoFar
<1>5. type.kind = "octets" => Smaller(size, type.max) = Len(v)
  <2>1. SUFFICES ASSUME type.kind = "octets" PROVE Smaller(Len(r.mand[i]), type.max) = Len(v) OBVIOUS
  <2>2. i \in ((i - 1) + 1)..Len(Layout) BY <1>1
  <2>3. \E l \in 1..(i - 1) : Layout[l].kind = "length" BY <1>1, <2>1, LayoutAssumption
  <2> QED BY <2>1, <2>2, <2>3 DEF ReadSoFar
<1>6. /\ OnLayout(s.mand) /\ s.good \in BOOLEAN
      /\ s.good <=> r.good /\ Readable(type, body, r.pos, size)
  BY ReadParamIs
<1>7. s.good => s.pos = r.pos + Span(type, body, r.pos, size) /\ s.mand[i] = Value(type, body, r.pos, size)
  BY ReadParamIs
<1>8. \A j \in 1..(i - 1) : s.mand[j] = r.mand[j] BY ReadParamIs
<1>9. \A j \in (i + 1)..Len(Layout) :
        s.mand[j] = IF type.kind = "length" /\ Layout[j].kind = "octets"
                    THEN Resize(r.mand[j], s.mand[i]) ELSE r.mand[j]
  BY ReadParamIs
<1>10. /\ Span(type, body, p, size) = Len(w) /\ Readable(type, body, p, size)
       /\ Value(type, body, p, size) = v
  <2> HIDE DEF type, v, p, size, s
  <2> QED BY <1>2, <1>3, <1>5, ReadsBack DEF w
<1> HIDE DEF type, v, w, p, size, s
<1>11. s.good = TRUE /\ s.pos = MandatorySize(mand)[i] + 1 /\ s.mand[i] = v
  BY <1>3, <1>4, <1>6, <1>7, <1>10
<1>12. ASSUME NEW j \in 1..i PROVE s.mand[j] = mand[j]
  <2>1. CASE j = i BY <1>11, <2>1 DEF v
  <2>2. CASE j # i
    <3>1. j \in 1..(i - 1) BY <2>2
    <3>2. r.mand[j] = mand[j] BY <3>1 DEF ReadSoFar
    <3> QED BY <1>8, <3>1, <3>2
  <2> QED BY <2>1, <2>2
<1>13. ASSUME NEW j \in (i + 1)..Len(Layout), Layout[j].kind = "octets",
              NEW l \in 1..i, Layout[l].kind = "length"
       PROVE  Smaller(Len(s.mand[j]), Layout[j].max) = Len(mand[j])
  <2>1. CASE type.kind = "length"
    <3>1. s.mand[j] = Resize(r.mand[j], v) BY <1>9, <1>11, <1>13, <2>1
    <3>2. v \in Nat
      <4>1. Integer(type) BY <2>1 DEF Integer
      <4> QED BY <1>2, <4>1, LegalInteger, OctetsAre
    <3>3. Len(s.mand[j]) = v BY <3>1, <3>2, ResizeLen
    <3>4. j \in DOMAIN Layout /\ i \in DOMAIN Layout BY <1>1
    <3>5. Len(mand[j]) = Smaller(v, Layout[j].max) BY <1>13, <2>1, <3>4 DEF Consistent, v, type
    <3> QED BY <3>3, <3>5
  <2>2. CASE type.kind # "length"
    <3>1. s.mand[j] = r.mand[j] BY <1>9, <2>2
    <3>2. l # i BY <1>13, <2>2 DEF type
    <3>3. l \in 1..(i - 1) /\ j \in ((i - 1) + 1)..Len(Layout) BY <1>1, <3>2
    <3> QED BY <1>13, <3>1, <3>3 DEF ReadSoFar
  <2> QED BY <2>1, <2>2
<1>14. ASSUME NEW j \in (i + 1)..Len(Layout)
       PROVE  Layout[j].kind = "octets" /\ (\E l \in 1..i : Layout[l].kind = "length") =>
                Smaller(Len(s.mand[j]), Layout[j].max) = Len(mand[j])
  BY <1>13
<1>15. ReadSoFar(mand, s, i) BY <1>6, <1>11, <1>12, <1>14 DEF ReadSoFar
<1> QED BY <1>15 DEF s

\* The mandatory parameters that were written are read again, and the reader stands behind
\* them.
LEMMA MandatoryReadBack ==
  ASSUME NEW mand, LegalMand(mand), Consistent(mand), NEW body \in Seq(Nat),
         At(body, 1, MandatoryOctets(mand)[Len(Layout)])
  PROVE  /\ ReadMandatory(body).good = TRUE /\ ReadMandatory(body).mand = mand
         /\ ReadMandatory(body).pos = MandatorySize(mand)[Len(Layout)] + 1
<1> DEFINE r(n) == Reading(Blank, body)[n]
           Done == {n \in 0..Len(Layout) : ReadSoFar(mand, r(n), n)}
<1>1. Len(Layout) \in Nat BY LayoutLen
<1>2. 0 \in Done
  <2>1. r(0) = [good |-> TRUE, pos |-> 1, mand |-> Blank] BY ReadingLoop
  <2>2. MandatorySize(mand)[0] = 0 BY MandatorySizeLoop
  <2>3. OnLayout(Blank) BY DEF Blank, OnLayout
  <2> HIDE DEF r
  <2>4. r(0).mand = Blank /\ r(0).good = TRUE /\ r(0).pos = 1 BY <2>1
  <2>5. ReadSoFar(mand, r(0), 0) BY <1>1, <2>2, <2>3, <2>4 DEF ReadSoFar
  <2> QED BY <1>1, <2>5
<1>3. ASSUME NEW k \in 0..(Len(Layout) - 1), k \in Done PROVE k + 1 \in Done
  <2>1. k + 1 \in 1..Len(Layout) /\ k + 1 \in 0..Len(Layout) /\ (k + 1) - 1 = k BY <1>1
  <2>2. r(k + 1) = ReadParam(r(k), k + 1, body)
    <3>1. \A n \in 1..Len(Layout) : Reading(Blank, body)[n] = ReadParam(Reading(Blank, body)[n - 1], n, body)
      BY ReadingLoop, Zenon
    <3> QED BY <2>1, <3>1
  <2>3. ReadSoFar(mand, r(k), (k + 1) - 1) BY <1>3, <2>1
  <2> HIDE DEF r
  <2>4. ReadSoFar(mand, ReadParam(r(k), k + 1, body), k + 1) BY <2>1, <2>3, ParamReadBack
  <2> QED BY <2>1, <2>2, <2>4
<1> HIDE DEF Done
<1>4. \A n \in 0..Len(Layout) : n \in Done BY <1>1, <1>2, <1>3, Upwards
<1>5. ReadSoFar(mand, r(Len(Layout)), Len(Layout)) BY <1>1, <1>4 DEF Done
<1> HIDE DEF r
<1> DEFINE e == r(Len(Layout))
<1>6. e = ReadMandatory(body) BY DEF r, ReadMandatory, ReadInto
<1>7. ReadSoFar(mand, e, Len(Layout)) BY <1>5
<1> HIDE DEF e
<1>8. e.mand = mand
  <2>1. DOMAIN Layout = 1..Len(Layout) BY LayoutLen
  <2>2. \A j \in DOMAIN Layout : e.mand[j] = mand[j] BY <1>7, <2>1 DEF ReadSoFar
  <2>3. OnLayout(e.mand) /\ OnLayout(mand) BY <1>7 DEF ReadSoFar, LegalMand, OnLayout
  <2> QED BY <2>2, <2>3 DEF OnLayout
<1> QED BY <1>6, <1>7, <1>8 DEF ReadSoFar

\* An optional parameter that was written is read again, whatever follows it.
LEMMA TlvReadBack ==
  ASSUME NEW tag \in Octets, NEW v, Legal(TypeOfTag(tag), v), NEW body \in Seq(Nat),
         NEW pos \in Nat \ {0}, At(body, pos, WriteTlv(tag, v))
  PROVE  /\ pos \in 1..Len(body) /\ body[pos] = tag
         /\ ReadableTlv(body, pos) /\ TlvValue(body, pos) = v
         /\ Following(body, pos) = pos + Len(WriteTlv(tag, v))
<1> DEFINE type == TypeOfTag(tag)
           n == ParamSize(type, v)
           w == Write(type, v)
           t == WriteTlv(tag, v)
           u == SubSeq(body, pos + 2, (pos + 2) + n - 1)
<1>1. /\ n \in Nat /\ w \in Seq(Octets) /\ Len(w) = n
      /\ t \in Seq(Octets) /\ Len(t) = 2 + n /\ t[1] = tag /\ t[2] = n
      /\ \A k \in 1..n : t[k + 2] = w[k]
  BY TlvWritten DEF TlvSize
<1>2. type \in Types BY TagTypes
<1>3. Len(body) \in Nat BY LenProperties
<1>4. pos + Len(t) <= Len(body) + 1 /\ \A k \in 1..Len(t) : body[pos + k - 1] = t[k] BY DEF At
<1> HIDE DEF w, n, t, type
<1>5. body[pos] = tag /\ body[pos + 1] = n
  <2>1. 1 \in 1..Len(t) /\ 2 \in 1..Len(t) /\ pos + 1 - 1 = pos /\ pos + 2 - 1 = pos + 1 BY <1>1
  <2> QED BY <1>1, <1>4, <2>1
<1>6. u \in Seq(Nat) /\ Len(u) = n /\ \A k \in 1..n : u[k] = body[(pos + 2) + k - 1]
  <2>1. PICK a \in Nat \ {0} : a = pos + 2 OBVIOUS
  <2>2. a + n <= Len(body) + 1 BY <1>1, <1>3, <1>4, <2>1
  <2>3. /\ SubSeq(body, a, a + n - 1) \in Seq(Nat) /\ Len(SubSeq(body, a, a + n - 1)) = n
        /\ \A k \in 1..n : SubSeq(body, a, a + n - 1)[k] = body[a + k - 1]
    BY <1>1, <2>2, Part
  <2> QED BY <2>1, <2>3
<1>7. TlvOctets(body, pos) = u /\ Following(body, pos) = pos + 2 + n
  <2>1. Following(body, pos) = pos + 2 + n BY <1>5 DEF Following, TlvSize
  <2>2. TlvOctets(body, pos) = SubSeq(body, pos + 2, Following(body, pos) - 1) BY DEF TlvOctets, TlvSize
  <2>3. (pos + 2 + n) - 1 = pos + 2 + n - 1 BY <1>1
  <2>4. TlvOctets(body, pos) = SubSeq(body, pos + 2, (pos + 2 + n) - 1) BY <2>1, <2>2
  <2>5. TlvOctets(body, pos) = u BY <2>3, <2>4
  <2> QED BY <2>1, <2>5
<1> HIDE DEF u
<1>8. At(u, 1, w)
  <2>1. ASSUME NEW k \in 1..n PROVE u[k] = w[k]
    <3>1. k + 2 \in 1..Len(t) /\ pos + (k + 2) - 1 = (pos + 2) + k - 1 BY <1>1
    <3> QED BY <1>1, <1>4, <1>6, <3>1
  <2>2. \A k \in 1..n : 1 + k - 1 = k OBVIOUS
  <2>3. 1 + Len(w) <= Len(u) + 1 BY <1>1, <1>6
  <2> QED BY <1>1, <2>1, <2>2, <2>3 DEF At
<1>9. type.kind = "octets" => Smaller(Len(u), type.max) = Len(v)
  <2>1. SUFFICES ASSUME type.kind = "octets" PROVE Smaller(Len(u), type.max) = Len(v) OBVIOUS
  <2>2. v \in Seq(Octets) /\ Len(v) <= type.max BY <1>2, <2>1, LegalString DEF type
  <2>3. n = Len(v) BY <2>1 DEF n, ParamSize, Integer
  <2>4. type.max \in Nat BY <1>2, TypeCases
  <2> QED BY <1>1, <1>6, <2>2, <2>3, <2>4 DEF Smaller
<1>10. /\ Span(type, u, 1, Len(u)) = Len(w) /\ Readable(type, u, 1, Len(u))
       /\ Value(type, u, 1, Len(u)) = v
  <2>1. Legal(type, v) /\ At(u, 1, Write(type, v)) /\ 1 \in Nat \ {0} BY <1>8 DEF type, w
  <2> QED BY <1>2, <1>6, <1>9, <2>1, ReadsBack DEF w
<1>11. TlvSize <= Left(body, pos) /\ TlvSize + body[pos + 1] <= Left(body, pos)
  BY <1>1, <1>3, <1>4, <1>5 DEF TlvSize, Left
<1>12. ReadableTlv(body, pos) /\ TlvValue(body, pos) = v
  <2>1. TypeOfTag(body[pos]) = type BY <1>5 DEF type
  <2> QED BY <1>1, <1>6, <1>7, <1>10, <1>11, <2>1 DEF ReadableTlv, TlvValue
<1>13. pos \in 1..Len(body) BY <1>1, <1>3, <1>4
<1>14. Following(body, pos) = pos + Len(t) BY <1>1, <1>7
<1> QED BY <1>5, <1>12, <1>13, <1>14 DEF t
-----------------------------------------------------------------------------
(* The optional parameters *)

\* Each optional parameter has an octet for its tag and is legal.
LEMMA OptLegal ==
  ASSUME NEW opts, LegalOpts(opts), NEW tag \in DOMAIN opts
  PROVE  tag \in Octets /\ Legal(TypeOfTag(tag), opts[tag])
BY DEF LegalOpts

\* The optional parameters are written to octets, as many as are counted.
LEMMA OptionalWritten ==
  ASSUME NEW opts, LegalOpts(opts)
  PROVE  \A n \in 0..(MaxOctet + 1) :
           /\ OptionalSize(opts)[n] \in Nat
           /\ OptionalOctets(opts)[n] \in Seq(Octets)
           /\ Len(OptionalOctets(opts)[n]) = OptionalSize(opts)[n]
<1> DEFINE N == MaxOctet + 1
           z(n) == OptionalSize(opts)[n]
           o(n) == OptionalOctets(opts)[n]
           Done == {n \in 0..N : z(n) \in Nat /\ o(n) \in Seq(Octets) /\ Len(o(n)) = z(n)}
<1>1. N \in Nat BY OctetsAre
<1>2. 0 \in Done
  <2>1. z(0) = 0 /\ o(0) = <<>> BY OptionalSizeLoop, OptionalOctetsLoop
  <2>2. <<>> \in Seq(Octets) /\ Len(<<>>) = 0 BY EmptySeq
  <2>3. 0 \in 0..N /\ 0 \in Nat BY <1>1
  <2> HIDE DEF z, o, N
  <2>4. Len(o(0)) = z(0) /\ o(0) \in Seq(Octets) BY <2>1, <2>2
  <2> QED BY <2>1, <2>3, <2>4
<1>3. ASSUME NEW k \in 0..(N - 1), k \in Done PROVE k + 1 \in Done
  <2>1. k + 1 \in 1..N /\ k + 1 \in 0..N /\ (k + 1) - 1 = k BY <1>1
  <2> DEFINE v == opts[k]
             w == WriteTlv(k, v)
             n == ParamSize(TypeOfTag(k), v)
  <2>2. CASE k \notin DOMAIN opts
    <3>1. z(k + 1) = z(k) BY <2>1, <2>2, OptionalSizeLoop
    <3>2. o(k + 1) = o(k) BY <2>1, <2>2, OptionalOctetsLoop
    <3> HIDE DEF z, o, N
    <3> QED BY <1>3, <2>1, <3>1, <3>2
  <2>3. CASE k \in DOMAIN opts
    <3>1. k \in Octets /\ Legal(TypeOfTag(k), v) BY <2>3, OptLegal
    <3>2. w \in Seq(Octets) /\ n \in Nat /\ Len(w) = TlvSize + n BY <3>1, TlvWritten
    <3>3. z(k + 1) = z(k) + TlvSize + n BY <2>1, <2>3, OptionalSizeLoop
    <3>4. o(k + 1) = o(k) \o w BY <2>1, <2>3, OptionalOctetsLoop
    <3> HIDE DEF w, n, o, z, N
    <3>5. o(k) \o w \in Seq(Octets) /\ Len(o(k) \o w) = Len(o(k)) + Len(w)
      BY <1>3, <3>2, ConcatProperties
    <3>6. z(k + 1) \in Nat /\ Len(o(k + 1)) = z(k + 1) BY <1>3, <3>2, <3>3, <3>4, <3>5 DEF TlvSize
    <3> QED BY <2>1, <3>4, <3>5, <3>6
  <2> QED BY <2>2, <2>3
<1> HIDE DEF Done
<1>4. \A n \in 0..N : n \in Done BY <1>1, <1>2, <1>3, Upwards
<1> QED BY <1>4 DEF Done

\* What was written stays at the front of what is written in the end.
LEMMA OptionalPrefix ==
  ASSUME NEW opts, LegalOpts(opts), NEW n \in 0..(MaxOctet + 1)
  PROVE  At(OptionalOctets(opts)[MaxOctet + 1], 1, OptionalOctets(opts)[n])
<1> DEFINE w(i) == OptionalOctets(opts)[i]
           L == MaxOctet + 1
           Done == {i \in 0..L : Len(w(i)) <= Len(w(L)) /\ \A k \in 1..Len(w(i)) : w(L)[k] = w(i)[k]}
<1>1. L \in Nat BY OctetsAre
<1>2. \A i \in 0..L : w(i) \in Seq(Octets) /\ Len(w(i)) \in Nat BY OptionalWritten
<1>3. L \in Done BY <1>1, <1>2
<1>4. ASSUME NEW i \in 0..(L - 1), i + 1 \in Done PROVE i \in Done
  <2>1. i + 1 \in 1..L /\ i + 1 \in 0..L /\ i \in 0..L /\ (i + 1) - 1 = i BY <1>1
  <2> DEFINE x == IF i \in DOMAIN opts THEN WriteTlv(i, opts[i]) ELSE <<>>
  <2>2. x \in Seq(Octets) /\ Len(x) \in Nat
    <3>1. <<>> \in Seq(Octets) BY EmptySeq
    <3>2. i \in DOMAIN opts => WriteTlv(i, opts[i]) \in Seq(Octets) BY OptLegal, TlvWritten
    <3>3. x \in Seq(Octets) BY <3>1, <3>2
    <3> QED BY <3>3, LenProperties
  <2>3. w(i + 1) = w(i) \o x
    <3>1. i \in DOMAIN opts => w(i + 1) = w(i) \o WriteTlv(i, opts[i]) BY <2>1, OptionalOctetsLoop
    <3>2. i \notin DOMAIN opts => w(i + 1) = w(i) BY <2>1, OptionalOctetsLoop
    <3>3. w(i) \o <<>> = w(i) BY <1>2, <2>1, ConcatEmptySeq
    <3> QED BY <3>1, <3>2, <3>3
  <2> HIDE DEF x
  <2>4. /\ Len(w(i) \o x) = Len(w(i)) + Len(x)
        /\ \A k \in 1..(Len(w(i)) + Len(x)) :
             (w(i) \o x)[k] = IF k <= Len(w(i)) THEN w(i)[k] ELSE x[k - Len(w(i))]
    BY <1>2, <2>1, <2>2, ConcatProperties
  <2> HIDE DEF w, L
  <2>5. ASSUME NEW k \in 1..Len(w(i)) PROVE w(L)[k] = w(i)[k]
    <3>1. k \in 1..Len(w(i + 1)) /\ k <= Len(w(i)) /\ k \in 1..(Len(w(i)) + Len(x))
      BY <1>2, <2>1, <2>2, <2>3, <2>4
    <3>2. w(L)[k] = w(i + 1)[k] BY <1>4, <3>1
    <3> QED BY <2>3, <2>4, <3>1, <3>2
  <2>6. Len(w(i)) <= Len(w(L))
    <3>1. L \in 0..L BY <1>1
    <3> QED BY <1>2, <1>4, <2>1, <2>2, <2>3, <2>4, <3>1
  <2> QED BY <2>1, <2>5, <2>6
<1> HIDE DEF Done
<1>5. \A i \in 0..L : i \in Done BY <1>1, <1>3, <1>4, Downwards
<1>6. Len(w(n)) <= Len(w(L)) /\ \A k \in 1..Len(w(n)) : w(L)[k] = w(n)[k] BY <1>5 DEF Done
<1>7. \A k \in 1..Len(w(n)) : 1 + k - 1 = k OBVIOUS
<1>8. Len(w(n)) \in Nat /\ Len(w(L)) \in Nat BY <1>1, <1>2
<1> QED BY <1>6, <1>7, <1>8 DEF At

\* The octets of an optional parameter stand behind those of the lower tags.
LEMMA TlvAt ==
  ASSUME NEW opts, LegalOpts(opts), NEW body \in Seq(Nat), NEW start \in Nat \ {0},
         At(body, start, OptionalOctets(opts)[MaxOctet + 1]), NEW tag \in DOMAIN opts
  PROVE  /\ tag \in 0..MaxOctet /\ OptionalSize(opts)[tag] \in Nat
         /\ OptionalSize(opts)[tag + 1] = OptionalSize(opts)[tag] + Len(WriteTlv(tag, opts[tag]))
         /\ At(body, start + OptionalSize(opts)[tag], WriteTlv(tag, opts[tag]))
<1> DEFINE w == WriteTlv(tag, opts[tag])
           N == MaxOctet + 1
           o(n) == OptionalOctets(opts)[n]
           z(n) == OptionalSize(opts)[n]
<1>1. N \in Nat /\ N \in 0..N /\ tag \in 0..N /\ tag + 1 \in 1..N /\ tag + 1 \in 0..N /\ (tag + 1) - 1 = tag
      /\ tag \in 0..MaxOctet
  BY OctetsAre, OptLegal DEF Octets
<1>2. \A n \in 0..N : z(n) \in Nat /\ o(n) \in Seq(Octets) /\ Len(o(n)) = z(n)
  BY OptionalWritten
<1>3. w \in Seq(Octets) /\ Len(w) \in Nat /\ Len(w) = TlvSize + ParamSize(TypeOfTag(tag), opts[tag])
      /\ ParamSize(TypeOfTag(tag), opts[tag]) \in Nat
  <2>1. tag \in Octets /\ Legal(TypeOfTag(tag), opts[tag]) BY OptLegal
  <2>2. w \in Seq(Octets) /\ Len(w) = TlvSize + ParamSize(TypeOfTag(tag), opts[tag])
        /\ ParamSize(TypeOfTag(tag), opts[tag]) \in Nat
    BY <2>1, TlvWritten
  <2> QED BY <2>2, LenProperties
<1>4. z(tag + 1) = z(tag) + Len(w)
  <2>1. z(tag + 1) = z(tag) + TlvSize + ParamSize(TypeOfTag(tag), opts[tag]) BY <1>1, OptionalSizeLoop
  <2>2. z(tag) \in Nat BY <1>1, <1>2
  <2> HIDE DEF w, z
  <2> QED BY <1>3, <2>1, <2>2 DEF TlvSize
<1>5. o(tag + 1) = o(tag) \o w BY <1>1, OptionalOctetsLoop
<1>6. At(o(N), 1, o(tag + 1)) BY <1>1, OptionalPrefix
<1>7. At(body, start, o(N)) OBVIOUS
<1> HIDE DEF w, o, z, N
<1>8. Len(body) \in Nat BY LenProperties
<1>9. At(body, start, o(tag + 1))
  <2>1. o(N) \in Seq(Octets) /\ o(tag + 1) \in Seq(Octets) /\ 1 \in Nat \ {0} BY <1>1, <1>2
  <2>2. At(body, start + 1 - 1, o(tag + 1)) BY <1>6, <1>7, <1>8, <2>1, AtPart
  <2>3. start + 1 - 1 = start OBVIOUS
  <2> QED BY <2>2, <2>3
<1>10. At(o(tag + 1), z(tag) + 1, w)
  <2> DEFINE a == o(tag)
  <2>1. a \in Seq(Octets) /\ Len(a) = z(tag) BY <1>1, <1>2
  <2> HIDE DEF a
  <2>2. At(a \o w, Len(a) + 1, w) BY <1>3, <2>1, AtEnd
  <2> QED BY <1>5, <2>1, <2>2 DEF a
<1>11. At(body, start + (z(tag) + 1) - 1, w)
  <2> DEFINE k == z(tag) + 1
  <2>1. k \in Nat \ {0} /\ o(tag + 1) \in Seq(Octets) BY <1>1, <1>2
  <2>2. At(o(tag + 1), k, w) BY <1>10
  <2> HIDE DEF k
  <2>3. At(body, start + k - 1, w) BY <1>3, <1>8, <1>9, <2>1, <2>2, AtPart
  <2> QED BY <2>3 DEF k
<1>12. z(tag) \in Nat BY <1>1, <1>2
<1>13. start + (z(tag) + 1) - 1 = start + z(tag) BY <1>12
<1>14. At(body, start + z(tag), w) BY <1>11, <1>13
<1> QED BY <1>1, <1>4, <1>12, <1>14 DEF w, z

\* The entries with keys from n on.
From(opts, n) == [tag \in {t \in DOMAIN opts : t >= n} |-> opts[tag]]

\* From the least tag on these are all the optional parameters, ...
LEMMA FromAll == ASSUME NEW opts, LegalOpts(opts) PROVE From(opts, 0) = opts
<1>1. DOMAIN opts \subseteq Nat BY OptLegal, OctetsAre
<1>2. {t \in DOMAIN opts : t >= 0} = DOMAIN opts BY <1>1
<1>3. From(opts, 0) = [tag \in DOMAIN opts |-> opts[tag]] BY <1>2 DEF From
<1>4. opts = [tag \in DOMAIN opts |-> opts[tag]] BY DEF LegalOpts
<1> QED BY <1>3, <1>4

\* ... from behind the greatest none, ...
LEMMA FromNone == ASSUME NEW opts, LegalOpts(opts) PROVE From(opts, MaxOctet + 1) = <<>>
<1>1. \A t \in DOMAIN opts : t \in 0..MaxOctet BY OptLegal, OctetsAre DEF Octets
<1>2. {t \in DOMAIN opts : t >= MaxOctet + 1} = {} BY <1>1, OctetsAre
<1>3. From(opts, MaxOctet + 1) = [tag \in {} |-> opts[tag]] BY <1>2 DEF From
<1>4. [tag \in {} |-> opts[tag]] = <<>> OBVIOUS
<1> QED BY <1>3, <1>4

\* ... a tag without a parameter adds nothing, ...
LEMMA FromSkip ==
  ASSUME NEW opts, LegalOpts(opts), NEW n \in Nat, n \notin DOMAIN opts
  PROVE  From(opts, n + 1) = From(opts, n)
<1>1. \A t \in DOMAIN opts : t \in Nat BY OptLegal, OctetsAre
<1>2. {t \in DOMAIN opts : t >= n + 1} = {t \in DOMAIN opts : t >= n}
  <2>1. \A t \in DOMAIN opts : t # n /\ t \in Nat BY <1>1
  <2>2. \A t \in Nat : t # n => (t >= n + 1 <=> t >= n) OBVIOUS
  <2> QED BY <2>1, <2>2
<1> QED BY <1>2 DEF From

\* ... and one with a parameter adds it.
LEMMA FromNext ==
  ASSUME NEW opts, LegalOpts(opts), NEW n \in Nat, n \in DOMAIN opts
  PROVE  From(opts, n) = Over(From(opts, n + 1), [tag \in {n} |-> opts[n]])
<1> DEFINE A == {t \in DOMAIN opts : t >= n + 1}
           B == {t \in DOMAIN opts : t >= n}
           new == From(opts, n + 1)
           old == [tag \in {n} |-> opts[n]]
<1>1. \A t \in DOMAIN opts : t \in Nat BY OptLegal, OctetsAre
<1>2. A \cup {n} = B
  <2>1. \A t \in Nat : t >= n <=> t >= n + 1 \/ t = n OBVIOUS
  <2> QED BY <1>1, <2>1
<1> HIDE DEF A, B
<1>3. DOMAIN new = A /\ \A t \in A : new[t] = opts[t] BY DEF From, A
<1>4. DOMAIN old = {n} /\ old[n] = opts[n] OBVIOUS
<1> HIDE DEF new, old
<1>5. Over(new, old) = [t \in A \cup {n} |-> IF t \in A THEN new[t] ELSE old[t]] BY <1>3, <1>4 DEF Over
<1>6. \A t \in A \cup {n} : (IF t \in A THEN new[t] ELSE old[t]) = opts[t] BY <1>3, <1>4
<1>7. Over(new, old) = [t \in B |-> opts[t]] BY <1>2, <1>5, <1>6
<1>8. From(opts, n) = [t \in B |-> opts[t]] BY DEF From, B
<1> QED BY <1>7, <1>8 DEF new, old

\* The optional parameters that were written are read again.
LEMMA OptionalReadBack ==
  ASSUME NEW opts, LegalOpts(opts), NEW body \in Seq(Nat), NEW start \in Nat \ {0},
         At(body, start, OptionalOctets(opts)[MaxOctet + 1]),
         start + OptionalSize(opts)[MaxOctet + 1] = Len(body) + 1
  PROVE  ReadOptional(body)[start] = [good |-> TRUE, opts |-> opts]
<1> DEFINE N == MaxOctet + 1
           z(n) == OptionalSize(opts)[n]
           Done == {n \in 0..N : start + z(n) \in 1..(Len(body) + 1) /\
                      ReadOptional(body)[start + z(n)] = [good |-> TRUE, opts |-> From(opts, n)]}
<1>1. N \in Nat /\ Len(body) \in Nat BY OctetsAre, LenProperties
<1>2. \A n \in 0..N : z(n) \in Nat BY OptionalWritten
<1>3. N \in Done
  <2> DEFINE p == start + z(N)
  <2>1. p = Len(body) + 1 OBVIOUS
  <2> HIDE DEF p, z
  <2>2. p \in 1..(Len(body) + 1) /\ p > Len(body) BY <1>1, <2>1
  <2>3. ReadOptional(body)[p] = [good |-> TRUE, opts |-> <<>>] BY <2>2, ReadOptionalLoop
  <2>4. <<>> = From(opts, N) BY FromNone
  <2> HIDE DEF N
  <2> QED BY <1>1, <2>2, <2>3, <2>4 DEF p
<1>4. ASSUME NEW k \in 0..(N - 1), k + 1 \in Done PROVE k \in Done
  <2>1. k \in 0..N /\ k + 1 \in 1..N /\ (k + 1) - 1 = k /\ k \in Nat BY <1>1
  <2>2. CASE k \notin DOMAIN opts
    <3>1. z(k + 1) = z(k) BY <2>1, <2>2, OptionalSizeLoop
    <3>2. From(opts, k + 1) = From(opts, k) BY <2>1, <2>2, FromSkip
    <3> HIDE DEF z, N
    <3> QED BY <1>4, <2>1, <3>1, <3>2
  <2>3. CASE k \in DOMAIN opts
    <3> DEFINE p == start + z(k)
               w == WriteTlv(k, opts[k])
    <3>1. /\ z(k) \in Nat /\ z(k + 1) = z(k) + Len(w) /\ At(body, p, w)
      BY <2>3, TlvAt
    <3>2. k \in Octets /\ Legal(TypeOfTag(k), opts[k]) BY <2>3, OptLegal
    <3>3. Len(w) \in Nat
      <4>1. w \in Seq(Octets) BY <3>2, TlvWritten
      <4> QED BY <4>1, LenProperties
    <3>4. p \in Nat \ {0} BY <3>1
    <3>a. At(body, p, w) BY <3>1
    <3> HIDE DEF p, z, N
    <3>5. /\ p \in 1..Len(body) /\ body[p] = k
          /\ ReadableTlv(body, p) /\ TlvValue(body, p) = opts[k]
          /\ Following(body, p) = p + Len(w)
      BY <3>2, <3>4, <3>a, TlvReadBack
    <3>6. p + Len(w) = start + z(k + 1) BY <3>1, <3>3 DEF p
    <3>7. ReadOptional(body)[Following(body, p)] = [good |-> TRUE, opts |-> From(opts, k + 1)]
      BY <1>4, <3>5, <3>6
    <3>8. p \in 1..(Len(body) + 1) /\ ~(p > Len(body)) BY <1>1, <3>5
    <3>9. ReadOptional(body)[p] =
            [good |-> ReadOptional(body)[Following(body, p)].good,
             opts |-> Over(ReadOptional(body)[Following(body, p)].opts,
                           [tag \in {body[p]} |-> TlvValue(body, p)])]
      BY <3>5, <3>8, ReadOptionalLoop
    <3>10. ReadOptional(body)[p] =
             [good |-> TRUE, opts |-> Over(From(opts, k + 1), [tag \in {k} |-> opts[k]])]
      BY <3>5, <3>7, <3>9
    <3>11. From(opts, k) = Over(From(opts, k + 1), [tag \in {k} |-> opts[k]])
      BY <2>1, <2>3, FromNext
    <3>12. ReadOptional(body)[p] = [good |-> TRUE, opts |-> From(opts, k)] BY <3>10, <3>11
    <3> QED BY <2>1, <3>8, <3>12 DEF p
  <2> QED BY <2>2, <2>3
<1> HIDE DEF Done
<1>5. \A n \in 0..N : n \in Done BY <1>1, <1>3, <1>4, Downwards
<1>6. 0 \in Done BY <1>1, <1>5
<1>7. z(0) = 0 /\ start + 0 = start BY OptionalSizeLoop
<1> HIDE DEF z
<1>8. ReadOptional(body)[start] = [good |-> TRUE, opts |-> From(opts, 0)] BY <1>6, <1>7 DEF Done
<1> QED BY <1>8, FromAll

\* A header and a body, joined: its fields, its body and its length.
LEMMA Framed ==
  ASSUME NEW h \in Seq(Nat), Len(h) = HeaderSize, NEW body \in Seq(Octets)
  PROVE  /\ h \o body \in Seq(Nat) /\ Len(h \o body) = HeaderSize + Len(body)
         /\ \A k \in 1..HeaderSize : (h \o body)[k] = h[k]
         /\ \A k \in (HeaderSize + 1)..Len(h \o body) : (h \o body)[k] \in Octets
         /\ Body(h \o body) = body
<1>1. body \in Seq(Nat) /\ Len(body) \in Nat
  <2>1. Octets \subseteq Nat BY OctetsAre
  <2> QED BY <2>1, SeqMonotonic, LenProperties
<1> DEFINE d == h \o body
<1>2. /\ d \in Seq(Nat) /\ Len(d) = Len(h) + Len(body)
      /\ \A k \in 1..(Len(h) + Len(body)) : d[k] = IF k <= Len(h) THEN h[k] ELSE body[k - Len(h)]
  BY <1>1, ConcatProperties
<1> HIDE DEF d
<1>3. /\ Len(d) = 4 + Len(body)
      /\ \A k \in 1..(4 + Len(body)) : d[k] = IF k <= 4 THEN h[k] ELSE body[k - 4]
  BY <1>2 DEF HeaderSize
<1>4. \A k \in 1..4 : d[k] = h[k] BY <1>1, <1>3
<1>5. ASSUME NEW k \in 5..Len(d) PROVE d[k] \in Octets
  <2>1. k \in 1..(4 + Len(body)) /\ ~(k <= 4) /\ k - 4 \in 1..Len(body) BY <1>1, <1>3
  <2>2. body[k - 4] \in Octets BY <2>1, ElementOfSeq
  <2> QED BY <1>3, <2>1, <2>2
<1>6. Body(d) = body
  <2> DEFINE n == Len(body)
             u == SubSeq(d, 5, 5 + n - 1)
  <2>1. n \in Nat /\ 5 \in Nat \ {0} /\ 5 + n <= Len(d) + 1 /\ Len(d) = 5 + n - 1 /\ 4 + 1 = 5 BY <1>1, <1>3
  <2>2. Body(d) = u BY <2>1 DEF Body, HeaderSize
  <2> HIDE DEF n
  <2>a. n \in Nat /\ 5 \in Nat \ {0} /\ 5 + n <= Len(d) + 1 BY <2>1
  <2>b. d \in Seq(Nat) BY <1>2
  <2>3. u \in Seq(Nat) /\ Len(u) = n /\ \A k \in 1..n : u[k] = d[5 + k - 1] BY <2>a, <2>b, Part
  <2> HIDE DEF u
  <2>4. ASSUME NEW k \in 1..n PROVE u[k] = body[k]
    <3>1. 5 + k - 1 \in 1..(4 + Len(body)) /\ ~(5 + k - 1 <= 4) /\ (5 + k - 1) - 4 = k BY <1>1 DEF n
    <3> QED BY <1>3, <2>3, <3>1
  <2>5. Len(u) = Len(body) /\ \A k \in 1..Len(u) : u[k] = body[k] BY <2>3, <2>4 DEF n
  <2>6. u = body BY <1>1, <2>3, <2>5, SeqEqual
  <2> QED BY <2>2, <2>6
<1> QED BY <1>2, <1>4, <1>5, <1>6 DEF HeaderSize, d

\* The mandatory and the optional octets of an object.
BodyOf(p) == MandatoryOctets(p.mand)[Len(Layout)] \o OptionalOctets(p.opts)[MaxOctet + 1]

\* The two parts of the body stand one behind the other.
LEMMA BodyWritten ==
  ASSUME NEW p, LegalMand(p.mand), LegalOpts(p.opts)
  PROVE  /\ MandatorySize(p.mand)[Len(Layout)] \in Nat /\ OptionalSize(p.opts)[MaxOctet + 1] \in Nat
         /\ BodyOf(p) \in Seq(Octets)
         /\ Len(BodyOf(p)) = MandatorySize(p.mand)[Len(Layout)] + OptionalSize(p.opts)[MaxOctet + 1]
         /\ At(BodyOf(p), 1, MandatoryOctets(p.mand)[Len(Layout)])
         /\ At(BodyOf(p), MandatorySize(p.mand)[Len(Layout)] + 1, OptionalOctets(p.opts)[MaxOctet + 1])
<1> DEFINE m == MandatoryOctets(p.mand)[Len(Layout)]
           o == OptionalOctets(p.opts)[MaxOctet + 1]
           a == MandatorySize(p.mand)[Len(Layout)]
           b == OptionalSize(p.opts)[MaxOctet + 1]
<1>1. Len(Layout) \in 0..Len(Layout) /\ MaxOctet + 1 \in 0..(MaxOctet + 1) BY LayoutLen, OctetsAre
<1>2. a \in Nat /\ m \in Seq(Octets) /\ Len(m) = a BY <1>1, MandatoryWritten
<1>3. b \in Nat /\ o \in Seq(Octets) /\ Len(o) = b BY <1>1, OptionalWritten
<1>4. BodyOf(p) = m \o o BY DEF BodyOf
<1> HIDE DEF m, o, a, b
<1>5. m \o o \in Seq(Octets) /\ Len(m \o o) = Len(m) + Len(o) BY <1>2, <1>3, ConcatProperties
<1>6. At(m \o o, 1, m) /\ At(m \o o, Len(m) + 1, o) BY <1>2, <1>3, AtEnd
<1> QED BY <1>2, <1>3, <1>4, <1>5, <1>6 DEF m, o, a, b

\* What serialize() writes: the fields of the header, command_length that counts it all,
\* and the body.
LEMMA Encoded ==
  ASSUME NEW id \in Octets, NEW p, LegalPdu(p, id)
  PROVE  /\ Encode(p) \in Seq(Nat) /\ Len(Encode(p)) >= HeaderSize
         /\ Encode(p)[1] = Len(Encode(p)) /\ Encode(p)[2] = id
         /\ Encode(p)[3] = p.status /\ Encode(p)[4] = p.seq
         /\ \A k \in 2..Len(Encode(p)) : Encode(p)[k] \in Octets
         /\ Body(Encode(p)) = BodyOf(p)
<1> DEFINE h == <<CmdLen(p), p.id, p.status, p.seq>>
           body == BodyOf(p)
<1>1. p.id = id /\ p.status \in Octets /\ p.seq \in Octets /\ LegalMand(p.mand) /\ LegalOpts(p.opts)
  BY DEF LegalPdu
<1>2. body \in Seq(Octets) /\ Len(body) \in Nat BY <1>1, BodyWritten, LenProperties
<1>3. CmdLen(p) = HeaderSize + Len(body)
  <2>1. /\ MandatorySize(p.mand)[Len(Layout)] \in Nat /\ OptionalSize(p.opts)[MaxOctet + 1] \in Nat
        /\ Len(body) = MandatorySize(p.mand)[Len(Layout)] + OptionalSize(p.opts)[MaxOctet + 1]
    BY <1>1, BodyWritten
  <2> QED BY <2>1 DEF CmdLen, HeaderSize
<1>4. h \in Seq(Nat) /\ Len(h) = HeaderSize
  <2>1. CmdLen(p) \in Nat
    <3> HIDE DEF body
    <3> QED BY <1>2, <1>3 DEF HeaderSize
  <2>2. Octets \subseteq Nat BY OctetsAre
  <2>3. p.id \in Nat /\ p.status \in Nat /\ p.seq \in Nat BY <1>1, <2>2
  <2> QED BY <2>1, <2>3 DEF HeaderSize
<1>5. h[1] = CmdLen(p) /\ h[2] = p.id /\ h[3] = p.status /\ h[4] = p.seq OBVIOUS
<1>6. Encode(p) = h \o body BY DEF Encode, BodyOf
<1> HIDE DEF h, body
<1>7. /\ h \o body \in Seq(Nat) /\ Len(h \o body) = HeaderSize + Len(body)
      /\ \A k \in 1..HeaderSize : (h \o body)[k] = h[k]
      /\ \A k \in (HeaderSize + 1)..Len(h \o body) : (h \o body)[k] \in Octets
      /\ Body(h \o body) = body
  BY <1>2, <1>4, Framed
<1> DEFINE d == Encode(p)
<1>8. /\ d \in Seq(Nat) /\ Len(d) = 4 + Len(body) /\ Body(d) = body
      /\ \A k \in 1..4 : d[k] = h[k]
      /\ \A k \in 5..Len(d) : d[k] \in Octets
  BY <1>6, <1>7 DEF HeaderSize
<1> HIDE DEF d
<1>9. d[1] = 4 + Len(body) /\ d[2] = id /\ d[3] = p.status /\ d[4] = p.seq
  BY <1>1, <1>3, <1>5, <1>8 DEF HeaderSize
<1>10. ASSUME NEW k \in 2..Len(d) PROVE d[k] \in Octets
  <2>1. k = 2 \/ k = 3 \/ k = 4 \/ k \in 5..Len(d) BY <1>2, <1>8
  <2> QED BY <1>1, <1>8, <1>9, <2>1
<1>11. Len(d) >= 4 BY <1>2, <1>8
<1> QED BY <1>8, <1>9, <1>10, <1>11 DEF d, body, HeaderSize

\* What serialize() writes of an object, a fresh object of the class deserializes, and
\* gets the same fields.
THEOREM RoundTrip ==
  ASSUME NEW id \in Octets, NEW p, LegalPdu(p, id), Consistent(p.mand)
  PROVE  Accepts(Encode(p)) /\ Decode(Encode(p)) = p
<1> DEFINE d == Encode(p)
           body == BodyOf(p)
           m == ReadMandatory(body)
           start == MandatorySize(p.mand)[Len(Layout)] + 1
<1>1. LegalMand(p.mand) /\ LegalOpts(p.opts) BY DEF LegalPdu
<1>2. /\ MandatorySize(p.mand)[Len(Layout)] \in Nat /\ OptionalSize(p.opts)[MaxOctet + 1] \in Nat
      /\ body \in Seq(Octets)
      /\ Len(body) = MandatorySize(p.mand)[Len(Layout)] + OptionalSize(p.opts)[MaxOctet + 1]
      /\ At(body, 1, MandatoryOctets(p.mand)[Len(Layout)])
      /\ At(body, start, OptionalOctets(p.opts)[MaxOctet + 1])
  BY <1>1, BodyWritten
<1>3. body \in Seq(Nat)
  <2>1. Octets \subseteq Nat BY OctetsAre
  <2> QED BY <1>2, <2>1, SeqMonotonic
<1>4. /\ Len(d) >= HeaderSize /\ d[2] = id /\ d[3] = p.status /\ d[4] = p.seq /\ Body(d) = body
  BY Encoded
<1> HIDE DEF body
<1>5. m.good = TRUE /\ m.mand = p.mand /\ m.pos = start BY <1>1, <1>2, <1>3, MandatoryReadBack
<1>6. start \in Nat \ {0} /\ start + OptionalSize(p.opts)[MaxOctet + 1] = Len(body) + 1 BY <1>2
<1>a. At(body, start, OptionalOctets(p.opts)[MaxOctet + 1]) BY <1>2
<1> HIDE DEF start, m, d
<1>7. ReadOptional(body)[start] = [good |-> TRUE, opts |-> p.opts]
  BY <1>1, <1>3, <1>6, <1>a, OptionalReadBack
<1>8. Accepts(d) BY <1>4, <1>5, <1>7 DEF Accepts, m
<1>9. Decode(d) = [id |-> id, status |-> p.status, seq |-> p.seq, mand |-> p.mand, opts |-> p.opts]
  BY <1>4, <1>5, <1>7 DEF Decode, m
<1>10. p = [id |-> id, status |-> p.status, seq |-> p.seq, mand |-> p.mand, opts |-> p.opts]
  BY DEF LegalPdu
<1> QED BY <1>8, <1>9, <1>10 DEF d

\* The parameters that have been read hold legal values, whether they could be read or
\* not; a message that is still to be read may be too long.
LegalSoFar(r, body, n) ==
  /\ r.good \in BOOLEAN /\ r.pos \in Nat \ {0} /\ r.pos <= Len(body) + 1
  /\ OnLayout(r.mand)
  /\ \A j \in 1..n : Legal(Layout[j], r.mand[j])
  /\ \A j \in (n + 1)..Len(Layout) :
       IF Layout[j].kind = "octets" THEN r.mand[j] \in Seq(Octets) ELSE Legal(Layout[j], r.mand[j])

\* A turn of reading leaves legal values, also when nothing can be read.
LEMMA ParamLegal ==
  ASSUME NEW body \in Seq(Octets), NEW i \in 1..Len(Layout), NEW r, LegalSoFar(r, body, i - 1)
  PROVE  LegalSoFar(ReadParam(r, i, body), body, i)
<1> DEFINE type == Layout[i]
           held == r.mand[i]
           size == IF type.kind = "octets" THEN Len(held) ELSE 0
           n == Span(type, body, r.pos, size)
           v == Value(type, body, r.pos, size)
           s == ReadParam(r, i, body)
<1>1. Len(Layout) \in Nat /\ \A j \in 1..Len(Layout) : Layout[j] \in Types BY LayoutLen
<1>2. type \in Types /\ type.max \in Nat BY <1>1, TypeCases
<1>3. r.good \in BOOLEAN /\ r.pos \in Nat \ {0} /\ r.pos <= Len(body) + 1 BY DEF LegalSoFar
<1>4. IF type.kind = "octets" THEN held \in Seq(Octets) ELSE Legal(type, held)
  <2>1. i \in ((i - 1) + 1)..Len(Layout) BY <1>1
  <2> QED BY <2>1 DEF LegalSoFar
<1>5. size \in Nat BY <1>4, LenProperties
<1>6. /\ OnLayout(s.mand) /\ s.good \in BOOLEAN
      /\ s.good <=> r.good /\ Readable(type, body, r.pos, size)
  BY ReadParamIs
<1>7. s.good => s.pos = r.pos + n /\ s.mand[i] = v BY ReadParamIs
<1>8. ~s.good => s.pos = r.pos /\ s.mand[i] = IF type.kind = "octets"
                                              THEN Resize(held, Smaller(size, type.max)) ELSE held
  BY ReadParamIs
<1>9. \A j \in 1..(i - 1) : s.mand[j] = r.mand[j] BY ReadParamIs
<1>10. \A j \in (i + 1)..Len(Layout) :
         s.mand[j] = IF type.kind = "length" /\ Layout[j].kind = "octets"
                     THEN Resize(r.mand[j], s.mand[i]) ELSE r.mand[j]
  BY ReadParamIs
<1> HIDE DEF n, v, s, size, held, type
<1>11. Readable(type, body, r.pos, size) =>
         n \in Nat /\ r.pos + n <= Len(body) + 1 /\ Legal(type, v)
  BY <1>2, <1>3, <1>5, ReadLegal DEF n, v
<1>12. s.pos \in Nat \ {0} /\ s.pos <= Len(body) + 1 BY <1>3, <1>6, <1>7, <1>8, <1>11
<1>13. Legal(type, s.mand[i])
  <2>1. CASE s.good BY <1>6, <1>7, <1>11, <2>1
  <2>2. CASE ~s.good /\ type.kind # "octets" BY <1>4, <1>8, <2>2
  <2>3. CASE ~s.good /\ type.kind = "octets"
    <3>1. Smaller(size, type.max) \in Nat /\ Smaller(size, type.max) <= type.max
      BY <1>2, <1>5 DEF Smaller
    <3>2. PICK m \in Nat : m = Smaller(size, type.max) BY <3>1
    <3>3. held \in Seq(Octets) BY <1>4, <2>3
    <3>4. Resize(held, m) \in Seq(Octets) /\ Len(Resize(held, m)) = m
      BY <3>3, ResizeLegal, ResizeLen
    <3>5. s.mand[i] = Resize(held, m) BY <1>8, <2>3, <3>2
    <3> QED BY <1>2, <2>3, <3>1, <3>2, <3>4, <3>5, LegalString
  <2> QED BY <2>1, <2>2, <2>3
<1>14. ASSUME NEW j \in 1..i PROVE Legal(Layout[j], s.mand[j])
  <2>1. CASE j = i BY <1>13, <2>1 DEF type
  <2>2. CASE j # i
    <3>1. j \in 1..(i - 1) BY <2>2
    <3>2. Legal(Layout[j], r.mand[j]) BY <3>1 DEF LegalSoFar
    <3> QED BY <1>9, <3>1, <3>2
  <2> QED BY <2>1, <2>2
<1>15. ASSUME NEW j \in (i + 1)..Len(Layout)
       PROVE  IF Layout[j].kind = "octets" THEN s.mand[j] \in Seq(Octets) ELSE Legal(Layout[j], s.mand[j])
  <2>1. j \in ((i - 1) + 1)..Len(Layout) BY <1>1
  <2>2. IF Layout[j].kind = "octets" THEN r.mand[j] \in Seq(Octets) ELSE Legal(Layout[j], r.mand[j])
    BY <2>1 DEF LegalSoFar
  <2>3. CASE type.kind = "length" /\ Layout[j].kind = "octets"
    <3>1. s.mand[j] = Resize(r.mand[j], s.mand[i]) BY <1>10, <2>3
    <3>2. s.mand[i] \in Nat
      <4>1. Integer(type) BY <2>3 DEF Integer
      <4> QED BY <1>2, <1>13, <4>1, LegalInteger, OctetsAre
    <3>3. PICK m \in Nat : m = s.mand[i] BY <3>2
    <3>4. r.mand[j] \in Seq(Octets) BY <2>2, <2>3
    <3>5. Resize(r.mand[j], m) \in Seq(Octets) BY <3>4, ResizeLegal
    <3> QED BY <2>3, <3>1, <3>3, <3>5
  <2>4. CASE ~(type.kind = "length" /\ Layout[j].kind = "octets")
    <3>1. s.mand[j] = r.mand[j] BY <1>10, <2>4
    <3> QED BY <2>2, <3>1
  <2> QED BY <2>3, <2>4
<1>16. LegalSoFar(s, body, i) BY <1>6, <1>12, <1>14, <1>15 DEF LegalSoFar
<1> QED BY <1>16 DEF s

\* So do all of the turns.
LEMMA ReadingLegal ==
  ASSUME NEW held, LegalMand(held), NEW body \in Seq(Octets)
  PROVE  \A n \in 0..Len(Layout) : LegalSoFar(Reading(held, body)[n], body, n)
<1> DEFINE r(n) == Reading(held, body)[n]
           Done == {n \in 0..Len(Layout) : LegalSoFar(r(n), body, n)}
<1>1. Len(Layout) \in Nat /\ Len(body) \in Nat BY LayoutLen, LenProperties
<1>2. 0 \in Done
  <2>1. r(0) = [good |-> TRUE, pos |-> 1, mand |-> held] BY ReadingLoop
  <2> DEFINE e == r(0)
  <2>2. e.good = TRUE /\ e.pos = 1 /\ e.mand = held BY <2>1
  <2>3. OnLayout(held) BY DEF LegalMand, OnLayout
  <2>4. ASSUME NEW j \in 1..Len(Layout)
        PROVE  IF Layout[j].kind = "octets" THEN held[j] \in Seq(Octets) ELSE Legal(Layout[j], held[j])
    BY MandLegal, LegalString
  <2>5. 0 + 1 = 1 /\ 1 <= Len(body) + 1 BY <1>1
  <2> HIDE DEF r, e
  <2>6. \A j \in 1..0 : Legal(Layout[j], e.mand[j]) OBVIOUS
  <2>7. \A j \in (0 + 1)..Len(Layout) :
          IF Layout[j].kind = "octets" THEN e.mand[j] \in Seq(Octets) ELSE Legal(Layout[j], e.mand[j])
    BY <2>2, <2>4
  <2>8. OnLayout(e.mand) BY <2>2, <2>3
  <2>a. e.good = TRUE /\ e.pos = 1 BY <2>2
  <2>b. e.pos \in Nat \ {0} BY <2>a
  <2>c. e.pos <= Len(body) + 1 BY <2>5, <2>a
  <2>9. e.good \in BOOLEAN /\ e.pos \in Nat \ {0} /\ e.pos <= Len(body) + 1 BY <2>a, <2>b, <2>c
  <2>10. LegalSoFar(e, body, 0) BY <2>6, <2>7, <2>8, <2>9 DEF LegalSoFar
  <2> QED BY <1>1, <2>10 DEF e
<1>3. ASSUME NEW k \in 0..(Len(Layout) - 1), k \in Done PROVE k + 1 \in Done
  <2>1. k + 1 \in 1..Len(Layout) /\ k + 1 \in 0..Len(Layout) /\ (k + 1) - 1 = k BY <1>1
  <2>2. r(k + 1) = ReadParam(r(k), k + 1, body)
    <3>1. \A n \in 1..Len(Layout) : Reading(held, body)[n] = ReadParam(Reading(held, body)[n - 1], n, body)
      BY ReadingLoop, Zenon
    <3> QED BY <2>1, <3>1
  <2>3. LegalSoFar(r(k), body, (k + 1) - 1) BY <1>3, <2>1
  <2> HIDE DEF r
  <2>4. LegalSoFar(ReadParam(r(k), k + 1, body), body, k + 1) BY <2>1, <2>3, ParamLegal
  <2> QED BY <2>1, <2>2, <2>4
<1> HIDE DEF Done
<1>4. \A n \in 0..Len(Layout) : n \in Done BY <1>1, <1>2, <1>3, Upwards
<1> QED BY <1>4 DEF Done

\* What deserialize leaves in the mandatory parameters is legal.
LEMMA ReadIntoLegal ==
  ASSUME NEW held, LegalMand(held), NEW body \in Seq(Octets)
  PROVE  /\ ReadInto(held, body).good \in BOOLEAN
         /\ ReadInto(held, body).pos \in 1..(Len(body) + 1)
         /\ LegalMand(ReadInto(held, body).mand)
<1> DEFINE r == ReadInto(held, body)
<1>1. LegalSoFar(r, body, Len(Layout))
  <2>1. Len(Layout) \in 0..Len(Layout) BY LayoutLen
  <2> QED BY <2>1, ReadingLegal DEF ReadInto
<1> HIDE DEF r
<1>2. r.good \in BOOLEAN /\ r.pos \in Nat \ {0} /\ r.pos <= Len(body) + 1 BY <1>1 DEF LegalSoFar
<1>3. Len(body) \in Nat BY LenProperties
<1>4. \A j \in DOMAIN Layout : Legal(Layout[j], r.mand[j])
  <2>1. DOMAIN Layout = 1..Len(Layout) BY LayoutLen
  <2> QED BY <1>1, <2>1 DEF LegalSoFar
<1>5. OnLayout(r.mand) BY <1>1 DEF LegalSoFar
<1>6. LegalMand(r.mand) BY <1>4, <1>5 DEF LegalMand, OnLayout
<1>7. r.pos \in 1..(Len(body) + 1) BY <1>2, <1>3
<1> QED BY <1>2, <1>6, <1>7 DEF r

\* A fresh object has legal parameters.
LEMMA BlankLegal == LegalMand(Blank)
<1>1. Blank = [i \in DOMAIN Layout |-> Blank[i]] BY DEF Blank
<1>2. ASSUME NEW i \in DOMAIN Layout PROVE Legal(Layout[i], Blank[i])
  <2>1. Layout[i] \in Types BY <1>2, LayoutLen
  <2>2. Blank[i] = IF Integer(Layout[i]) THEN 0 ELSE <<>> BY DEF Blank
  <2>3. <<>> \in Seq(1..MaxOctet) /\ <<>> \in Seq(Octets) /\ Len(<<>>) = 0 BY EmptySeq
  <2>4. CASE Integer(Layout[i]) BY <2>1, <2>2, <2>4, LegalInteger, OctetsAre
  <2>5. CASE ~Integer(Layout[i])
    <3>1. Blank[i] = <<>> BY <2>2, <2>5
    <3>2. /\ Layout[i].max \in Nat /\ 0 <= Layout[i].max
          /\ (Layout[i].kind \in {"cstring", "fixed"} => 0 < Layout[i].max)
      BY <2>1, TypeCases
    <3>3. CASE Layout[i].kind = "cstring" BY <2>1, <2>3, <3>1, <3>2, <3>3, LegalString
    <3>4. CASE Layout[i].kind = "fixed" BY <2>1, <2>3, <3>1, <3>4, LegalString
    <3>5. CASE Layout[i].kind = "octets" BY <2>1, <2>3, <3>1, <3>2, <3>5, LegalString
    <3> QED BY <2>1, <2>5, <3>3, <3>4, <3>5, TypeCases
  <2> QED BY <2>4, <2>5
<1> QED BY <1>1, <1>2 DEF LegalMand

\* Two objects that read the same octets: they are good together, and while they are,
\* they stand at the same octet, hold the same in what they have read, and short_message
\* has the same size in both once sm_length has been read.
SameSoFar(r, q, n) ==
  /\ r.good <=> q.good
  /\ r.good =>
       /\ r.pos = q.pos /\ \A j \in 1..n : r.mand[j] = q.mand[j]
       /\ \A j \in (n + 1)..Len(Layout) :
            Layout[j].kind = "octets" /\ (\E l \in 1..n : Layout[l].kind = "length") =>
              Len(r.mand[j]) = Len(q.mand[j])

\* A turn of reading does not tell the two objects apart.
LEMMA ParamSame ==
  ASSUME NEW body \in Seq(Octets), NEW i \in 1..Len(Layout), NEW r, NEW q,
         LegalSoFar(r, body, i - 1), SameSoFar(r, q, i - 1)
  PROVE  SameSoFar(ReadParam(r, i, body), ReadParam(q, i, body), i)
<1> DEFINE type == Layout[i]
           size == IF type.kind = "octets" THEN Len(r.mand[i]) ELSE 0
           sizeq == IF type.kind = "octets" THEN Len(q.mand[i]) ELSE 0
           s == ReadParam(r, i, body)
           t == ReadParam(q, i, body)
<1>1. Len(Layout) \in Nat BY LayoutLen
<1>2. r.good <=> q.good BY DEF SameSoFar
<1>3. r.good => r.pos = q.pos /\ size = sizeq
  <2>1. SUFFICES ASSUME r.good PROVE r.pos = q.pos /\ size = sizeq OBVIOUS
  <2>2. r.pos = q.pos BY <2>1 DEF SameSoFar
  <2>3. CASE type.kind = "octets"
    <3>1. i \in ((i - 1) + 1)..Len(Layout) BY <1>1
    <3>2. \E l \in 1..(i - 1) : Layout[l].kind = "length" BY <2>3, LayoutAssumption, LayoutLen
    <3>3. Len(r.mand[i]) = Len(q.mand[i]) BY <2>1, <2>3, <3>1, <3>2 DEF SameSoFar
    <3> QED BY <2>2, <3>3
  <2>4. CASE type.kind # "octets" BY <2>2, <2>4
  <2> QED BY <2>3, <2>4
<1>4. LegalSoFar(s, body, i) BY ParamLegal
<1>5. /\ s.good \in BOOLEAN
      /\ s.good <=> r.good /\ Readable(type, body, r.pos, size)
  BY ReadParamIs
<1>6. /\ t.good \in BOOLEAN
      /\ t.good <=> q.good /\ Readable(type, body, q.pos, sizeq)
  BY ReadParamIs
<1>7. s.good => s.pos = r.pos + Span(type, body, r.pos, size) /\ s.mand[i] = Value(type, body, r.pos, size)
  BY ReadParamIs
<1>8. t.good => t.pos = q.pos + Span(type, body, q.pos, sizeq) /\ t.mand[i] = Value(type, body, q.pos, sizeq)
  BY ReadParamIs
<1>9. \A j \in 1..(i - 1) : s.mand[j] = r.mand[j] BY ReadParamIs
<1>10. \A j \in 1..(i - 1) : t.mand[j] = q.mand[j] BY ReadParamIs
<1>11. \A j \in (i + 1)..Len(Layout) :
         s.mand[j] = IF type.kind = "length" /\ Layout[j].kind = "octets"
                     THEN Resize(r.mand[j], s.mand[i]) ELSE r.mand[j]
  BY ReadParamIs
<1>12. \A j \in (i + 1)..Len(Layout) :
         t.mand[j] = IF type.kind = "length" /\ Layout[j].kind = "octets"
                     THEN Resize(q.mand[j], t.mand[i]) ELSE q.mand[j]
  BY ReadParamIs
<1> HIDE DEF s, t, size, sizeq, type
<1>13. s.good <=> t.good BY <1>2, <1>3, <1>5, <1>6
<1>14. ASSUME s.good
       PROVE  /\ s.pos = t.pos /\ \A j \in 1..i : s.mand[j] = t.mand[j]
              /\ \A j \in (i + 1)..Len(Layout) :
                   Layout[j].kind = "octets" /\ (\E l \in 1..i : Layout[l].kind = "length") =>
                     Len(s.mand[j]) = Len(t.mand[j])
  <2>1. r.good /\ q.good /\ t.good BY <1>2, <1>5, <1>13, <1>14
  <2>2. s.pos = t.pos /\ s.mand[i] = t.mand[i] BY <1>3, <1>7, <1>8, <1>14, <2>1
  <2>3. ASSUME NEW j \in 1..i PROVE s.mand[j] = t.mand[j]
    <3>1. CASE j = i BY <2>2, <3>1
    <3>2. CASE j # i
      <4>1. j \in 1..(i - 1) BY <3>2
      <4>2. r.mand[j] = q.mand[j] BY <2>1, <4>1 DEF SameSoFar
      <4> QED BY <1>9, <1>10, <4>1, <4>2
    <3> QED BY <3>1, <3>2
  <2>4. ASSUME NEW j \in (i + 1)..Len(Layout), Layout[j].kind = "octets",
               NEW l \in 1..i, Layout[l].kind = "length"
        PROVE  Len(s.mand[j]) = Len(t.mand[j])
    <3>1. CASE type.kind = "length"
      <4>1. s.mand[i] \in Nat
        <5>1. Legal(type, s.mand[i])
          <6>1. i \in 1..i BY <1>1
          <6> QED BY <1>4, <6>1 DEF LegalSoFar, type
        <5>2. type \in Types /\ Integer(type) BY <3>1, LayoutLen DEF Integer, type
        <5> QED BY <5>1, <5>2, LegalInteger, OctetsAre
      <4>2. PICK m \in Nat : m = s.mand[i] BY <4>1
      <4>3. s.mand[j] = Resize(r.mand[j], m) /\ t.mand[j] = Resize(q.mand[j], m)
        BY <1>11, <1>12, <2>2, <2>4, <3>1, <4>2
      <4> QED BY <4>3, ResizeLen
    <3>2. CASE type.kind # "length"
      <4>1. s.mand[j] = r.mand[j] /\ t.mand[j] = q.mand[j] BY <1>11, <1>12, <3>2
      <4>2. l # i BY <2>4, <3>2 DEF type
      <4>3. l \in 1..(i - 1) /\ j \in ((i - 1) + 1)..Len(Layout) BY <1>1, <4>2
      <4>4. Len(r.mand[j]) = Len(q.mand[j]) BY <2>1, <2>4, <4>3 DEF SameSoFar
      <4> QED BY <4>1, <4>4
    <3> QED BY <3>1, <3>2
  <2>5. \A j \in (i + 1)..Len(Layout) :
          Layout[j].kind = "octets" /\ (\E l \in 1..i : Layout[l].kind = "length") =>
            Len(s.mand[j]) = Len(t.mand[j])
    BY <2>4
  <2> QED BY <2>2, <2>3, <2>5
<1>15. SameSoFar(s, t, i) BY <1>13, <1>14 DEF SameSoFar
<1> QED BY <1>15 DEF s, t

\* What an object held before does not matter to whether the mandatory parameters can be
\* read, nor, when they can, to what they are.
LEMMA ReadSame ==
  ASSUME NEW held, LegalMand(held), NEW body \in Seq(Octets)
  PROVE  /\ ReadInto(held, body).good <=> ReadMandatory(body).good
         /\ ReadInto(held, body).good =>
              /\ ReadInto(held, body).pos = ReadMandatory(body).pos
              /\ ReadInto(held, body).mand = ReadMandatory(body).mand
<1> DEFINE r(n) == Reading(held, body)[n]
           q(n) == Reading(Blank, body)[n]
           Done == {n \in 0..Len(Layout) : SameSoFar(r(n), q(n), n)}
<1>1. Len(Layout) \in Nat BY LayoutLen
<1>2. 0 \in Done
  <2>1. r(0) = [good |-> TRUE, pos |-> 1, mand |-> held] BY ReadingLoop
  <2>2. q(0) = [good |-> TRUE, pos |-> 1, mand |-> Blank] BY ReadingLoop
  <2>3. r(0).good /\ q(0).good /\ r(0).pos = q(0).pos BY <2>1, <2>2
  <2> HIDE DEF r, q
  <2>4. SameSoFar(r(0), q(0), 0) BY <2>3 DEF SameSoFar
  <2> QED BY <1>1, <2>4
<1>3. ASSUME NEW k \in 0..(Len(Layout) - 1), k \in Done PROVE k + 1 \in Done
  <2>1. /\ k + 1 \in 1..Len(Layout) /\ k + 1 \in 0..Len(Layout) /\ k \in 0..Len(Layout)
        /\ (k + 1) - 1 = k
    BY <1>1
  <2>2. \A n \in 1..Len(Layout) : Reading(held, body)[n] = ReadParam(Reading(held, body)[n - 1], n, body)
    BY ReadingLoop, Zenon
  <2>3. \A n \in 1..Len(Layout) : Reading(Blank, body)[n] = ReadParam(Reading(Blank, body)[n - 1], n, body)
    BY ReadingLoop, Zenon
  <2>4. r(k + 1) = ReadParam(r(k), k + 1, body) /\ q(k + 1) = ReadParam(q(k), k + 1, body)
    BY <2>1, <2>2, <2>3
  <2>5. LegalSoFar(r(k), body, (k + 1) - 1) BY <2>1, ReadingLegal
  <2>6. SameSoFar(r(k), q(k), (k + 1) - 1) BY <1>3, <2>1
  <2> HIDE DEF r, q
  <2>7. SameSoFar(ReadParam(r(k), k + 1, body), ReadParam(q(k), k + 1, body), k + 1)
    BY <2>1, <2>5, <2>6, ParamSame
  <2> QED BY <2>1, <2>4, <2>7
<1> HIDE DEF Done
<1>4. \A n \in 0..Len(Layout) : n \in Done BY <1>1, <1>2, <1>3, Upwards
<1> DEFINE e == ReadInto(held, body)
           f == ReadMandatory(body)
<1>5. SameSoFar(e, f, Len(Layout))
  <2>1. SameSoFar(r(Len(Layout)), q(Len(Layout)), Len(Layout)) BY <1>1, <1>4 DEF Done
  <2> QED BY <2>1 DEF ReadMandatory, ReadInto
<1>6. LegalMand(e.mand) BY ReadIntoLegal
<1>7. LegalMand(f.mand) BY BlankLegal, ReadIntoLegal DEF ReadMandatory
<1> HIDE DEF e, f
<1>8. ASSUME e.good PROVE e.pos = f.pos /\ e.mand = f.mand
  <2>1. DOMAIN Layout = 1..Len(Layout) BY LayoutLen
  <2>2. e.pos = f.pos /\ \A j \in DOMAIN Layout : e.mand[j] = f.mand[j] BY <1>5, <1>8, <2>1 DEF SameSoFar
  <2>3. /\ e.mand = [j \in DOMAIN Layout |-> e.mand[j]]
        /\ f.mand = [j \in DOMAIN Layout |-> f.mand[j]]
    BY <1>6, <1>7 DEF LegalMand
  <2>4. e.mand = f.mand BY <2>2, <2>3
  <2> QED BY <2>2, <2>4
<1>9. e.good <=> f.good BY <1>5 DEF SameSoFar
<1> QED BY <1>8, <1>9 DEF e, f
-----------------------------------------------------------------------------
(* What is read is legal, whatever the octets *)

\* An optional parameter that can be read is legal.
LEMMA TlvLegal ==
  ASSUME NEW body \in Seq(Octets), NEW pos \in 1..Len(body), ReadableTlv(body, pos)
  PROVE  body[pos] \in Octets /\ Legal(TypeOfTag(body[pos]), TlvValue(body, pos))
<1>1. body \in Seq(Nat) /\ Len(body) \in Nat
  <2>1. Octets \subseteq Nat BY OctetsAre
  <2> QED BY <2>1, SeqMonotonic, LenProperties
<1>2. body[pos] \in Octets BY ElementOfSeq
<1> DEFINE u == TlvOctets(body, pos)
           type == TypeOfTag(body[pos])
<1>3. Readable(type, u, 1, Len(u)) /\ TlvValue(body, pos) = Value(type, u, 1, Len(u))
  BY DEF ReadableTlv, TlvValue
<1>4. u \in Seq(Octets)
  <2>1. body[pos + 1] \in Nat BY <1>1, FollowingIn
  <2>2. pos + 2 + body[pos + 1] <= Len(body) + 1
    <3>1. TlvSize + body[pos + 1] <= Left(body, pos) BY DEF ReadableTlv
    <3> QED BY <1>1, <2>1, <3>1 DEF TlvSize, Left
  <2>3. PICK a \in Nat \ {0}, n \in Nat : a = pos + 2 /\ n = body[pos + 1]
    <3>1. pos + 2 \in Nat \ {0} BY <1>1
    <3> QED BY <2>1, <3>1
  <2>4. a + n <= Len(body) + 1 BY <2>2, <2>3
  <2>5. SubSeq(body, a, a + n - 1) \in Seq(Octets) BY <2>4, Part
  <2>6. (pos + 2 + n) - 1 = a + n - 1 BY <2>3
  <2>7. u = SubSeq(body, pos + 2, (pos + 2 + n) - 1) BY <2>3 DEF TlvOctets, Following, TlvSize
  <2> QED BY <2>3, <2>5, <2>6, <2>7
<1>5. type \in Types BY TagTypes
<1> HIDE DEF u, type
<1>6. Len(u) \in Nat /\ 1 \in Nat \ {0} /\ 1 <= Len(u) + 1 BY <1>4, LenProperties
<1>7. Legal(type, Value(type, u, 1, Len(u))) BY <1>3, <1>4, <1>5, <1>6, ReadLegal
<1> QED BY <1>2, <1>3, <1>7 DEF type

\* Legal optional parameters: none, ...
LEMMA NoneLegal == LegalOpts(<<>>)
<1>1. DOMAIN <<>> = {} OBVIOUS
<1>2. <<>> = [tag \in DOMAIN <<>> |-> <<>>[tag]] OBVIOUS
<1> QED BY <1>1, <1>2 DEF LegalOpts

\* ... one, ...
LEMMA OneLegal ==
  ASSUME NEW tag \in Octets, NEW v, Legal(TypeOfTag(tag), v)
  PROVE  LegalOpts([t \in {tag} |-> v])
BY DEF LegalOpts

\* ... and some put over others.
LEMMA OverLegal ==
  ASSUME NEW new, NEW old, LegalOpts(new), LegalOpts(old)
  PROVE  LegalOpts(Over(new, old))
<1> DEFINE e == Over(new, old)
<1>1. /\ DOMAIN e = DOMAIN new \cup DOMAIN old
      /\ e = [tag \in DOMAIN e |-> e[tag]]
      /\ \A tag \in DOMAIN e : e[tag] = IF tag \in DOMAIN new THEN new[tag] ELSE old[tag]
  BY DEF Over
<1> HIDE DEF e
<1>2. \A tag \in DOMAIN e : tag \in Octets /\ Legal(TypeOfTag(tag), e[tag]) BY <1>1, OptLegal
<1>3. LegalOpts(e) BY <1>1, <1>2 DEF LegalOpts
<1> QED BY <1>3 DEF e

\* The optional parameters that are read are legal.
LEMMA ReadOptionalLegal ==
  ASSUME NEW body \in Seq(Octets), NEW pos \in 1..(Len(body) + 1)
  PROVE  ReadOptional(body)[pos].good \in BOOLEAN /\ LegalOpts(ReadOptional(body)[pos].opts)
<1> DEFINE N == Len(body)
           e(p) == ReadOptional(body)[p]
           Right(p) == e(p).good \in BOOLEAN /\ LegalOpts(e(p).opts)
           Done == {n \in 0..N : \A p \in (n + 1)..(N + 1) : Right(p)}
<1>1. N \in Nat /\ body \in Seq(Nat)
  <2>1. Octets \subseteq Nat BY OctetsAre
  <2> QED BY <2>1, SeqMonotonic, LenProperties
<1>2. ASSUME NEW p \in 1..(N + 1), p <= N /\ ReadableTlv(body, p) => Right(Following(body, p))
      PROVE  Right(p)
  <2>1. CASE p > N
    <3>1. e(p) = [good |-> TRUE, opts |-> <<>>] BY <1>1, <2>1, ReadOptionalLoop
    <3>2. e(p).good = TRUE /\ e(p).opts = <<>> BY <3>1
    <3> HIDE DEF e
    <3> QED BY <3>2, NoneLegal
  <2>2. CASE p <= N /\ ~ReadableTlv(body, p)
    <3>1. ~(p > N) BY <1>1, <2>2
    <3>2. e(p) = [good |-> FALSE, opts |-> <<>>] BY <1>1, <2>2, <3>1, ReadOptionalLoop
    <3>3. e(p).good = FALSE /\ e(p).opts = <<>> BY <3>2
    <3> HIDE DEF e
    <3> QED BY <3>3, NoneLegal
  <2>3. CASE p <= N /\ ReadableTlv(body, p)
    <3> DEFINE one == [tag \in {body[p]} |-> TlvValue(body, p)]
               f == Following(body, p)
    <3>1. ~(p > N) /\ p \in 1..N BY <1>1, <2>3
    <3>2. e(p) = [good |-> e(f).good, opts |-> Over(e(f).opts, one)] BY <1>1, <2>3, <3>1, ReadOptionalLoop
    <3>3. LegalOpts(one) BY <2>3, <3>1, TlvLegal, OneLegal
    <3>4. Right(f) BY <1>2, <2>3
    <3> HIDE DEF e, one, f
    <3>5. e(p).good = e(f).good /\ e(p).opts = Over(e(f).opts, one) BY <3>2
    <3>6. LegalOpts(e(p).opts) BY <3>3, <3>4, <3>5, OverLegal
    <3> QED BY <3>4, <3>5, <3>6
  <2> QED BY <1>1, <2>1, <2>2, <2>3
<1> HIDE DEF Right
<1>3. N \in Done
  <2>1. Right(N + 1)
    <3>1. N + 1 \in 1..(N + 1) /\ ~(N + 1 <= N) BY <1>1
    <3> HIDE DEF N
    <3> QED BY <1>2, <3>1
  <2> QED BY <1>1, <2>1
<1>4. ASSUME NEW k \in 0..(N - 1), k + 1 \in Done PROVE k \in Done
  <2>1. \A p \in ((k + 1) + 1)..(N + 1) : Right(p) BY <1>4
  <2>2. k + 1 \in 1..(N + 1) /\ k + 1 \in 1..N /\ k \in 0..N BY <1>1
  <2>3. k + 1 <= N /\ ReadableTlv(body, k + 1) => Right(Following(body, k + 1))
    <3>1. SUFFICES ASSUME ReadableTlv(body, k + 1) PROVE Right(Following(body, k + 1)) OBVIOUS
    <3>2. Following(body, k + 1) \in 1..(N + 1) /\ Following(body, k + 1) > (k + 1) + 1
      BY <1>1, <2>2, <3>1, FollowingIn
    <3>3. Following(body, k + 1) \in ((k + 1) + 1)..(N + 1) BY <1>1, <3>2
    <3> QED BY <2>1, <3>3
  <2>4. Right(k + 1) BY <1>2, <2>2, <2>3
  <2>5. \A p \in (k + 1)..(N + 1) : p = k + 1 \/ p \in ((k + 1) + 1)..(N + 1) BY <1>1
  <2> QED BY <2>1, <2>2, <2>4, <2>5
<1> HIDE DEF Done
<1>5. \A k \in 0..N : k \in Done BY <1>1, <1>3, <1>4, Downwards
<1>6. 0 \in Done /\ 0 + 1 = 1 BY <1>1, <1>5
<1>7. Right(pos) BY <1>6 DEF Done
<1> QED BY <1>7 DEF Right

\* What follows the command_length of a PDU are octets.
Framing(data) == data \in Seq(Nat) /\ \A k \in 2..Len(data) : data[k] \in Octets

\* The body of a PDU and its octets.
LEMMA BodyIs ==
  ASSUME NEW data, Framing(data), Len(data) >= HeaderSize
  PROVE  /\ Body(data) \in Seq(Octets) /\ Len(Body(data)) = Len(data) - HeaderSize
         /\ \A k \in 1..(Len(data) - HeaderSize) : Body(data)[k] = data[HeaderSize + k]
         /\ data[2] \in Octets /\ data[3] \in Octets /\ data[4] \in Octets
<1>1. data \in Seq(Nat) /\ \A k \in 2..Len(data) : data[k] \in Octets BY DEF Framing
<1>2. Len(data) \in Nat /\ Len(data) >= 4 BY <1>1, LenProperties DEF HeaderSize
<1>3. PICK n \in Nat : n = Len(data) - 4
  <2>1. Len(data) - 4 \in Nat BY <1>2
  <2> QED BY <2>1
<1> DEFINE u == SubSeq(data, 5, 5 + n - 1)
<1>4. 5 \in Nat \ {0} /\ 5 + n <= Len(data) + 1 /\ 5 + n - 1 = Len(data) /\ 4 + 1 = 5 BY <1>2, <1>3
<1>5. Body(data) = u BY <1>4 DEF Body, HeaderSize
<1>6. u \in Seq(Nat) /\ Len(u) = n /\ \A k \in 1..n : u[k] = data[5 + k - 1] BY <1>1, <1>4, Part
<1> HIDE DEF u
<1>7. ASSUME NEW k \in 1..n PROVE u[k] = data[4 + k] /\ u[k] \in Octets
  <2>1. 5 + k - 1 = 4 + k /\ 4 + k \in 2..Len(data) BY <1>2, <1>3
  <2> QED BY <1>1, <1>6, <2>1
<1>8. u \in Seq(Octets) BY <1>6, <1>7, SeqOf
<1>9. 2 \in 2..Len(data) /\ 3 \in 2..Len(data) /\ 4 \in 2..Len(data) BY <1>2
<1> QED BY <1>1, <1>3, <1>5, <1>6, <1>7, <1>8, <1>9 DEF HeaderSize

\* What deserialize leaves in an object of the class is one.
LEMMA FillLegal ==
  ASSUME NEW id \in Octets, NEW p, LegalPdu(p, id), NEW data, Framing(data), NEW any \in Octets
  PROVE  LegalPdu(Fill(p, data, any), id)
<1> DEFINE r == ReadInto(p.mand, Body(data))
           o == ReadOptional(Body(data))[r.pos].opts
           whole == Len(data) >= HeaderSize
           status == IF Len(data) < 3 THEN any ELSE data[3]
           seq == IF whole THEN data[4] ELSE p.seq
           mand == IF whole THEN r.mand ELSE p.mand
           opts == IF whole /\ r.good THEN Over(o, p.opts) ELSE p.opts
           q == Fill(p, data, any)
<1>1. /\ p.id = id /\ p.status \in Octets /\ p.seq \in Octets
      /\ LegalMand(p.mand) /\ LegalOpts(p.opts)
  BY DEF LegalPdu
<1>2. q = [id |-> p.id, status |-> status, seq |-> seq, mand |-> mand, opts |-> opts] BY DEF Fill
<1>3. status \in Octets
  <2>1. Len(data) \in Nat BY LenProperties DEF Framing
  <2>2. ~(Len(data) < 3) => 3 \in 2..Len(data) BY <2>1
  <2> QED BY <2>2 DEF Framing
<1>4. seq \in Octets BY <1>1, BodyIs
<1>5. LegalMand(mand) /\ LegalOpts(opts)
  <2>1. CASE whole
    <3>1. Body(data) \in Seq(Octets) BY <2>1, BodyIs
    <3>2. r.pos \in 1..(Len(Body(data)) + 1) /\ LegalMand(r.mand) BY <1>1, <3>1, ReadIntoLegal
    <3>3. LegalOpts(o) BY <3>1, <3>2, ReadOptionalLegal
    <3> HIDE DEF r, o
    <3>4. LegalOpts(Over(o, p.opts)) BY <1>1, <3>3, OverLegal
    <3> QED BY <1>1, <2>1, <3>2, <3>4
  <2>2. CASE ~whole
    <3> HIDE DEF r, o
    <3> QED BY <1>1, <2>2
  <2> QED BY <2>1, <2>2
<1> HIDE DEF status, seq, mand, opts, q
<1>6. q.id = p.id /\ q.status = status /\ q.seq = seq /\ q.mand = mand /\ q.opts = opts BY <1>2
<1>7. q = [id |-> id, status |-> q.status, seq |-> q.seq, mand |-> q.mand, opts |-> q.opts]
  BY <1>1, <1>2, <1>6
<1>8. LegalPdu(q, id) BY <1>3, <1>4, <1>5, <1>6, <1>7 DEF LegalPdu
<1> QED BY <1>8 DEF q

\* Of octets that are accepted, an object that has no optional parameter which they lack
\* makes what a fresh one makes.
LEMMA FillIs ==
  ASSUME NEW id \in Octets, NEW p, LegalPdu(p, id), NEW data, Framing(data), NEW any,
         Accepts(data), data[2] = id, DOMAIN p.opts \subseteq DOMAIN Decode(data).opts
  PROVE  Fill(p, data, any) = Decode(data)
<1> DEFINE body == Body(data)
           r == ReadInto(p.mand, body)
           f == ReadMandatory(body)
           o == ReadOptional(body)[f.pos].opts
<1>1. p.id = id /\ LegalMand(p.mand) /\ LegalOpts(p.opts) BY DEF LegalPdu
<1>2. Len(data) >= HeaderSize /\ f.good BY DEF Accepts
<1>3. body \in Seq(Octets) BY <1>2, BodyIs
<1>4. r.good /\ r.pos = f.pos /\ r.mand = f.mand BY <1>1, <1>2, <1>3, ReadSame
<1>5. LegalOpts(o)
  <2>1. f.pos \in 1..(Len(body) + 1) BY <1>3, BlankLegal, ReadIntoLegal DEF ReadMandatory
  <2> QED BY <1>3, <2>1, ReadOptionalLegal
<1>6. Decode(data) = [id |-> data[2], status |-> data[3], seq |-> data[4], mand |-> f.mand, opts |-> o]
  BY DEF Decode
<1>7. ~(Len(data) < 3)
  <2>1. Len(data) \in Nat BY LenProperties DEF Framing
  <2> QED BY <1>2, <2>1 DEF HeaderSize
<1>8. Fill(p, data, any) = [id |-> p.id, status |-> data[3], seq |-> data[4], mand |-> r.mand,
                            opts |-> Over(ReadOptional(body)[r.pos].opts, p.opts)]
  BY <1>2, <1>4, <1>7 DEF Fill
<1>9. DOMAIN p.opts \subseteq DOMAIN o BY <1>6
<1> HIDE DEF o, f, r, body
<1>10. Over(o, p.opts) = o
  <2>1. o = [tag \in DOMAIN o |-> o[tag]] BY <1>5 DEF LegalOpts
  <2>2. DOMAIN o \cup DOMAIN p.opts = DOMAIN o BY <1>9
  <2>3. Over(o, p.opts) = [tag \in DOMAIN o |-> o[tag]] BY <2>2 DEF Over
  <2> QED BY <2>1, <2>3
<1>11. ReadOptional(body)[r.pos].opts = o BY <1>4 DEF o
<1> QED BY <1>1, <1>4, <1>6, <1>8, <1>10, <1>11

\* A field of the header that is patched is the only thing that changes.
LEMMA Patched ==
  ASSUME NEW data, Framing(data), Len(data) >= HeaderSize, NEW i \in {3, 4}, NEW v \in Octets
  PROVE  LET d == [data EXCEPT ![i] = v]
         IN /\ Framing(d) /\ Len(d) = Len(data) /\ Body(d) = Body(data)
            /\ d[i] = v /\ \A k \in {1, 2, 3, 4} \ {i} : d[k] = data[k]
<1> DEFINE d == [data EXCEPT ![i] = v]
<1>1. data \in Seq(Nat) /\ \A k \in 2..Len(data) : data[k] \in Octets BY DEF Framing
<1>2. Len(data) \in Nat /\ Len(data) >= 4 BY <1>1, LenProperties DEF HeaderSize
<1>3. i \in 1..Len(data) /\ v \in Nat
  <2>1. Octets \subseteq Nat BY OctetsAre
  <2> QED BY <1>2, <2>1
<1>4. d \in Seq(Nat) /\ Len(d) = Len(data) /\ \A k \in 1..Len(data) : d[k] = IF k = i THEN v ELSE data[k]
  BY <1>1, <1>3, ExceptSeq
<1> HIDE DEF d
<1>5. ASSUME NEW k \in 2..Len(d) PROVE d[k] \in Octets
  <2>1. k \in 2..Len(data) /\ k \in 1..Len(data) BY <1>2, <1>4
  <2> QED BY <1>1, <1>4, <2>1
<1>6. Framing(d) BY <1>4, <1>5 DEF Framing
<1>7. d[i] = v BY <1>3, <1>4
<1>8. \A k \in {1, 2, 3, 4} \ {i} : d[k] = data[k]
  <2>1. \A k \in {1, 2, 3, 4} : k \in 1..Len(data) BY <1>2
  <2> QED BY <1>4, <2>1
<1>9. Body(d) = Body(data)
  <2> DEFINE a == Body(d)
             b == Body(data)
  <2>1. /\ a \in Seq(Octets) /\ Len(a) = Len(d) - HeaderSize
        /\ \A k \in 1..(Len(d) - HeaderSize) : a[k] = d[HeaderSize + k]
    BY <1>4, <1>6, BodyIs
  <2>2. /\ b \in Seq(Octets) /\ Len(b) = Len(data) - HeaderSize
        /\ \A k \in 1..(Len(data) - HeaderSize) : b[k] = data[HeaderSize + k]
    BY BodyIs
  <2> HIDE DEF a, b
  <2>3. ASSUME NEW k \in 1..Len(a) PROVE a[k] = b[k]
    <3>1. k \in 1..(Len(data) - 4) /\ 4 + k \in 1..Len(data) /\ 4 + k # i BY <1>2, <1>4, <2>1 DEF HeaderSize
    <3> QED BY <1>4, <2>1, <2>2, <3>1 DEF HeaderSize
  <2>4. Len(a) = Len(b) BY <1>4, <2>1, <2>2
  <2>5. a = b BY <2>1, <2>2, <2>3, <2>4, SeqEqual
  <2> QED BY <2>5 DEF a, b
<1> QED BY <1>4, <1>6, <1>7, <1>8, <1>9 DEF d
================================================================================
