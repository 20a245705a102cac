--------------------------- MODULE PduObject_proofs ---------------------------
(***************************************************************************)
(* The object between setters, serialize() and deserialize(): its fields   *)
(* are legal and the octets it keeps are those of the fields, for every    *)
(* class, every value and every order of the calls.                        *)
(***************************************************************************)
EXTENDS PduObject, Codec_proofs

\* The octets have a whole header, or nothing could be patched in it.
HasHeader == data # NoData => Len(data) >= HeaderSize

\* The inductive invariant.  None of its parts is inductive alone: a setter keeps the
\* octets faithful because they have a whole header, serialize() because the fields
\* are legal.
Inv == TypeOK /\ HasHeader /\ LengthTrue /\ CacheFaithful

\* What the assumptions on the constants say.
LEMMA Constants ==
  /\ CmdId \in Octets /\ Statuses \subseteq Octets /\ Numbers \subseteq Octets
  /\ \A octets \in Received \cup Later :
       Framing(octets) /\ octets # NoData /\ octets[1] = Len(octets)
<1>1. CmdId \in Octets /\ Statuses \subseteq Octets /\ Numbers \subseteq Octets BY ValuesAssumption
<1>2. ASSUME NEW octets \in Received \cup Later
      PROVE  Framing(octets) /\ octets # NoData /\ octets[1] = Len(octets)
  BY OctetsAssumption DEF Framing
<1> QED BY <1>1, <1>2

\* A fresh object is legal and has no optional parameters.
LEMMA FreshLegal == LegalPdu(Fresh, CmdId) /\ DOMAIN Fresh.opts = {}
<1>1. /\ Fresh.id = CmdId /\ Fresh.status = 0 /\ Fresh.seq = 0
      /\ Fresh.mand = Blank /\ Fresh.opts = <<>>
  BY DEF Fresh
<1>2. Fresh = [id |-> CmdId, status |-> Fresh.status, seq |-> Fresh.seq,
               mand |-> Fresh.mand, opts |-> Fresh.opts]
  BY DEF Fresh
<1>3. Fresh.status \in Octets /\ Fresh.seq \in Octets BY <1>1, OctetsAre
<1>4. LegalMand(Fresh.mand) BY <1>1, BlankLegal
<1>5. LegalOpts(Fresh.opts) BY <1>1, NoneLegal
<1>6. DOMAIN <<>> = {} OBVIOUS
<1>7. LegalPdu(Fresh, CmdId) BY <1>2, <1>3, <1>4, <1>5 DEF LegalPdu
<1> QED BY <1>1, <1>6, <1>7

\* An object that the application has made or tryParse hands out.
LEMMA InitInv == Init => Inv
<1> SUFFICES ASSUME Init PROVE Inv OBVIOUS
<1>1. stale \in BOOLEAN BY DEF Init
<1>2. CASE pdu = Fresh /\ data = NoData
  BY <1>1, <1>2, FreshLegal DEF Inv, TypeOK, HasHeader, LengthTrue, CacheFaithful
<1>3. ASSUME NEW octets \in Received, TryParse(octets) PROVE Inv
  <2>1. Framing(octets) /\ octets # NoData /\ octets[1] = Len(octets) /\ CmdId \in Octets
    BY Constants
  <2>2. PICK any \in Octets : pdu = Fill(Fresh, octets, any) BY <1>3, Constants DEF TryParse
  <2>3. LegalPdu(pdu, CmdId) BY <2>1, <2>2, FreshLegal, FillLegal
  <2>4. CASE Accepts(octets)
    <3>1. data = octets /\ octets[2] = CmdId BY <1>3, <2>4 DEF TryParse, MadeFor
    <3>2. Len(octets) >= HeaderSize BY <2>4 DEF Accepts
    <3>3. DOMAIN Fresh.opts \subseteq DOMAIN Decode(octets).opts BY FreshLegal
    <3>4. pdu = Decode(octets) BY <2>1, <2>2, <2>4, <3>1, <3>3, FreshLegal, FillIs
    <3>5. TypeOK BY <1>1, <2>1, <2>3, <3>1 DEF TypeOK, Framing
    <3> QED BY <2>1, <2>4, <3>1, <3>2, <3>4, <3>5 DEF Inv, HasHeader, LengthTrue, CacheFaithful
  <2>5. CASE ~Accepts(octets)
    <3>1. data = NoData BY <1>3, <2>5 DEF TryParse
    <3> QED BY <1>1, <2>3, <3>1 DEF Inv, TypeOK, HasHeader, LengthTrue, CacheFaithful
  <2> QED BY <2>4, <2>5
<1> QED BY <1>2, <1>3 DEF Init
-----------------------------------------------------------------------------
(* The setters of the header *)

\* The fields of a legal object.
LEMMA Fields ==
  ASSUME TypeOK
  PROVE  /\ pdu = [id |-> CmdId, status |-> pdu.status, seq |-> pdu.seq, mand |-> pdu.mand, opts |-> pdu.opts]
         /\ pdu.status \in Octets /\ pdu.seq \in Octets /\ LegalMand(pdu.mand) /\ LegalOpts(pdu.opts)
         /\ data # NoData => Framing(data)
BY DEF TypeOK, LegalPdu, Framing

\* Octets that are accepted are accepted with another header.
LEMMA SameBody ==
  ASSUME NEW a, NEW b, Len(a) = Len(b), Body(a) = Body(b)
  PROVE  /\ Accepts(a) <=> Accepts(b)
         /\ Decode(a).mand = Decode(b).mand /\ Decode(a).opts = Decode(b).opts
BY DEF Accepts, Decode

\* The patched octets have the status and otherwise what they had.
LEMMA SetCmdStatusInv ==
  ASSUME Inv, NEW v \in Statuses, SetCmdStatus(v)
  PROVE  Inv'
<1>1. /\ pdu = [id |-> CmdId, status |-> pdu.status, seq |-> pdu.seq, mand |-> pdu.mand, opts |-> pdu.opts]
      /\ pdu.seq \in Octets /\ LegalMand(pdu.mand) /\ LegalOpts(pdu.opts)
      /\ data # NoData => Framing(data)
  BY Fields DEF Inv
<1>2. v \in Octets BY Constants
<1>3. data' = Patch(3, v) /\ stale' = stale /\ pdu' = [pdu EXCEPT !.status = v] BY DEF SetCmdStatus
<1>4. pdu' = [id |-> CmdId, status |-> v, seq |-> pdu.seq, mand |-> pdu.mand, opts |-> pdu.opts]
  BY <1>1, <1>3
<1>5. pdu'.status = v /\ pdu'.seq = pdu.seq /\ pdu'.mand = pdu.mand /\ pdu'.opts = pdu.opts BY <1>4
<1>6. LegalPdu(pdu', CmdId) BY <1>1, <1>2, <1>4, <1>5 DEF LegalPdu
<1>7. stale' \in BOOLEAN BY <1>3 DEF Inv, TypeOK
<1>8. CASE data = NoData
  <2>1. data' = NoData BY <1>3, <1>8 DEF Patch
  <2> QED BY <1>6, <1>7, <2>1 DEF Inv, TypeOK, HasHeader, LengthTrue, CacheFaithful
<1>9. CASE data # NoData
  <2> DEFINE d == [data EXCEPT ![3] = v]
  <2>1. Framing(data) /\ Len(data) >= HeaderSize /\ data[1] = Len(data)
    BY <1>1, <1>9 DEF Inv, HasHeader, LengthTrue
  <2>2. data' = d BY <1>3, <1>9, <2>1 DEF Patch
  <2>3. /\ Framing(d) /\ Len(d) = Len(data) /\ Body(d) = Body(data)
        /\ d[3] = v /\ \A k \in {1, 2, 3, 4} \ {3} : d[k] = data[k]
    BY <1>2, <2>1, Patched
  <2> HIDE DEF d
  <2>4. d[1] = data[1] /\ d[2] = data[2] /\ d[4] = data[4] BY <2>3
  <2>5. Consistent(pdu.mand) /\ ~stale => Accepts(d) /\ Decode(d) = pdu'
    <3>1. SUFFICES ASSUME Consistent(pdu.mand), ~stale PROVE Accepts(d) /\ Decode(d) = pdu' OBVIOUS
    <3>2. Accepts(data) /\ Decode(data) = pdu BY <1>9, <3>1 DEF Inv, CacheFaithful
    <3>3. Accepts(d) /\ Decode(d).mand = pdu.mand /\ Decode(d).opts = pdu.opts BY <2>3, <3>2, SameBody
    <3>4. data[2] = CmdId /\ data[4] = pdu.seq
      <4>1. Decode(data).id = data[2] /\ Decode(data).seq = data[4] BY DEF Decode
      <4>2. pdu.id = CmdId BY <1>1
      <4> QED BY <3>2, <4>1, <4>2
    <3>5. Decode(d) = [id |-> d[2], status |-> d[3], seq |-> d[4],
                       mand |-> Decode(d).mand, opts |-> Decode(d).opts]
      BY DEF Decode
    <3>6. d[2] = CmdId /\ d[3] = v /\ d[4] = pdu.seq BY <2>3, <2>4, <3>4
    <3>7. Decode(d) = pdu' BY <1>4, <3>3, <3>5, <3>6
    <3> QED BY <3>3, <3>7
  <2>6. TypeOK' BY <1>6, <1>7, <2>2, <2>3 DEF TypeOK, Framing
  <2>7. HasHeader' /\ LengthTrue' BY <2>1, <2>2, <2>3, <2>4 DEF HasHeader, LengthTrue
  <2>8. CacheFaithful' BY <1>3, <1>5, <2>2, <2>5 DEF CacheFaithful
  <2> QED BY <2>6, <2>7, <2>8 DEF Inv
<1> QED BY <1>8, <1>9

\* The same for the sequence number.
LEMMA SetSeqNumberInv ==
  ASSUME Inv, NEW v \in Numbers, SetSeqNumber(v)
  PROVE  Inv'
<1>1. /\ pdu = [id |-> CmdId, status |-> pdu.status, seq |-> pdu.seq, mand |-> pdu.mand, opts |-> pdu.opts]
      /\ pdu.status \in Octets /\ LegalMand(pdu.mand) /\ LegalOpts(pdu.opts)
      /\ data # NoData => Framing(data)
  BY Fields DEF Inv
<1>2. v \in Octets BY Constants
<1>3. data' = Patch(4, v) /\ stale' = stale /\ pdu' = [pdu EXCEPT !.seq = v] BY DEF SetSeqNumber
<1>4. pdu' = [id |-> CmdId, status |-> pdu.status, seq |-> v, mand |-> pdu.mand, opts |-> pdu.opts]
  BY <1>1, <1>3
<1>5. pdu'.status = pdu.status /\ pdu'.seq = v /\ pdu'.mand = pdu.mand /\ pdu'.opts = pdu.opts BY <1>4
<1>6. LegalPdu(pdu', CmdId) BY <1>1, <1>2, <1>4, <1>5 DEF LegalPdu
<1>7. stale' \in BOOLEAN BY <1>3 DEF Inv, TypeOK
<1>8. CASE data = NoData
  <2>1. data' = NoData BY <1>3, <1>8 DEF Patch
  <2> QED BY <1>6, <1>7, <2>1 DEF Inv, TypeOK, HasHeader, LengthTrue, CacheFaithful
<1>9. CASE data # NoData
  <2> DEFINE d == [data EXCEPT ![4] = v]
  <2>1. Framing(data) /\ Len(data) >= HeaderSize /\ data[1] = Len(data)
    BY <1>1, <1>9 DEF Inv, HasHeader, LengthTrue
  <2>2. data' = d BY <1>3, <1>9, <2>1 DEF Patch
  <2>3. /\ Framing(d) /\ Len(d) = Len(data) /\ Body(d) = Body(data)
        /\ d[4] = v /\ \A k \in {1, 2, 3, 4} \ {4} : d[k] = data[k]
    BY <1>2, <2>1, Patched
  <2> HIDE DEF d
  <2>4. d[1] = data[1] /\ d[2] = data[2] /\ d[3] = data[3] BY <2>3
  <2>5. Consistent(pdu.mand) /\ ~stale => Accepts(d) /\ Decode(d) = pdu'
    <3>1. SUFFICES ASSUME Consistent(pdu.mand), ~stale PROVE Accepts(d) /\ Decode(d) = pdu' OBVIOUS
    <3>2. Accepts(data) /\ Decode(data) = pdu BY <1>9, <3>1 DEF Inv, CacheFaithful
    <3>3. Accepts(d) /\ Decode(d).mand = pdu.mand /\ Decode(d).opts = pdu.opts BY <2>3, <3>2, SameBody
    <3>4. data[2] = CmdId /\ data[3] = pdu.status
      <4>1. Decode(data).id = data[2] /\ Decode(data).status = data[3] BY DEF Decode
      <4>2. pdu.id = CmdId BY <1>1
      <4> QED BY <3>2, <4>1, <4>2
    <3>5. Decode(d) = [id |-> d[2], status |-> d[3], seq |-> d[4],
                       mand |-> Decode(d).mand, opts |-> Decode(d).opts]
      BY DEF Decode
    <3>6. d[2] = CmdId /\ d[3] = pdu.status /\ d[4] = v BY <2>3, <2>4, <3>4
    <3>7. Decode(d) = pdu' BY <1>4, <3>3, <3>5, <3>6
    <3> QED BY <3>3, <3>7
  <2>6. TypeOK' BY <1>6, <1>7, <2>2, <2>3 DEF TypeOK, Framing
  <2>7. HasHeader' /\ LengthTrue' BY <2>1, <2>2, <2>3, <2>4 DEF HasHeader, LengthTrue
  <2>8. CacheFaithful' BY <1>3, <1>5, <2>2, <2>5 DEF CacheFaithful
  <2> QED BY <2>6, <2>7, <2>8 DEF Inv
<1> QED BY <1>8, <1>9
-----------------------------------------------------------------------------
(* set<> *)

\* Without octets there is nothing to be untrue.
LEMMA ResetInv ==
  ASSUME Reset, LegalPdu(pdu', CmdId) PROVE Inv'
<1>1. data' = NoData /\ stale' = FALSE BY DEF Reset
<1> QED BY <1>1 DEF Inv, TypeOK, HasHeader, LengthTrue, CacheFaithful

\* set<> of a mandatory parameter.
LEMMA SetMandatoryInv ==
  ASSUME Inv, NEW i \in DOMAIN Layout, NEW v \in Values[i], SetMandatory(i, v)
  PROVE  Inv'
<1>1. /\ pdu = [id |-> CmdId, status |-> pdu.status, seq |-> pdu.seq, mand |-> pdu.mand, opts |-> pdu.opts]
      /\ pdu.status \in Octets /\ pdu.seq \in Octets /\ LegalMand(pdu.mand) /\ LegalOpts(pdu.opts)
  BY Fields DEF Inv
<1>2. Reset /\ pdu' = [pdu EXCEPT !.mand[i] = v] BY DEF SetMandatory
<1> DEFINE m == [pdu.mand EXCEPT ![i] = v]
<1>3. pdu' = [id |-> CmdId, status |-> pdu.status, seq |-> pdu.seq, mand |-> m, opts |-> pdu.opts]
  BY <1>1, <1>2
<1>4. LegalMand(m)
  <2> DEFINE held == pdu.mand
  <2>1. held = [j \in DOMAIN Layout |-> held[j]] /\ \A j \in DOMAIN Layout : Legal(Layout[j], held[j])
    BY <1>1 DEF LegalMand
  <2>2. Legal(Layout[i], v) BY ValuesAssumption
  <2> HIDE DEF held
  <2>3. DOMAIN held = DOMAIN Layout BY <2>1
  <2> DEFINE n == [held EXCEPT ![i] = v]
  <2>4. n = [j \in DOMAIN Layout |-> n[j]] BY <2>3
  <2>5. \A j \in DOMAIN Layout : n[j] = IF j = i THEN v ELSE held[j] BY <2>3
  <2> HIDE DEF n
  <2>6. \A j \in DOMAIN Layout : Legal(Layout[j], n[j]) BY <2>1, <2>2, <2>5
  <2>7. LegalMand(n) BY <2>4, <2>6 DEF LegalMand
  <2> QED BY <2>7 DEF n, held
<1> HIDE DEF m
<1>5. pdu'.status = pdu.status /\ pdu'.seq = pdu.seq /\ pdu'.mand = m /\ pdu'.opts = pdu.opts BY <1>3
<1>6. LegalPdu(pdu', CmdId) BY <1>1, <1>3, <1>4, <1>5 DEF LegalPdu
<1> QED BY <1>2, <1>6, ResetInv

\* set<> of an optional parameter.
LEMMA SetOptionalInv ==
  ASSUME Inv, NEW tag \in DOMAIN OptValues, NEW v \in OptValues[tag], SetOptional(tag, v)
  PROVE  Inv'
<1>1. /\ pdu = [id |-> CmdId, status |-> pdu.status, seq |-> pdu.seq, mand |-> pdu.mand, opts |-> pdu.opts]
      /\ pdu.status \in Octets /\ pdu.seq \in Octets /\ LegalMand(pdu.mand) /\ LegalOpts(pdu.opts)
  BY Fields DEF Inv
<1> DEFINE one == [t \in {tag} |-> v]
           o == Over(one, pdu.opts)
<1>2. Reset /\ pdu' = [pdu EXCEPT !.opts = o] BY DEF SetOptional
<1>3. LegalOpts(o)
  <2>1. tag \in Octets /\ Legal(TypeOfTag(tag), v) BY ValuesAssumption
  <2>2. LegalOpts(one) BY <2>1, OneLegal
  <2> HIDE DEF one
  <2> QED BY <1>1, <2>2, OverLegal
<1> HIDE DEF o
<1>4. pdu' = [id |-> CmdId, status |-> pdu.status, seq |-> pdu.seq, mand |-> pdu.mand, opts |-> o]
  BY <1>1, <1>2
<1>5. pdu'.status = pdu.status /\ pdu'.seq = pdu.seq /\ pdu'.mand = pdu.mand /\ pdu'.opts = o BY <1>4
<1>6. LegalPdu(pdu', CmdId) BY <1>1, <1>3, <1>4, <1>5 DEF LegalPdu
<1> QED BY <1>2, <1>6, ResetInv
-----------------------------------------------------------------------------
(* deserialize() and serialize() *)

\* Accepted octets that are not unlike the object are what the fields have become;
\* refused ones leave no claim to the octets of before.
LEMMA DeserializeInv ==
  ASSUME Inv, NEW octets \in Later, Deserialize(octets)
  PROVE  Inv'
<1>1. Framing(octets) /\ octets # NoData /\ octets[1] = Len(octets) /\ CmdId \in Octets
  BY Constants
<1>2. PICK any \in Octets : pdu' = Fill(pdu, octets, any) BY Constants DEF Deserialize
<1>3. LegalPdu(pdu, CmdId) BY DEF Inv, TypeOK
<1>4. LegalPdu(pdu', CmdId) BY <1>1, <1>2, <1>3, FillLegal
<1>5. CASE Accepts(octets)
  <2>1. data' = octets /\ stale' = Unlike(octets) BY <1>5 DEF Deserialize
  <2>2. Len(octets) >= HeaderSize BY <1>5 DEF Accepts
  <2>3. stale' \in BOOLEAN BY <2>1 DEF Unlike
  <2>4. ~stale' => Decode(octets) = pdu'
    <3>1. SUFFICES ASSUME octets[2] = CmdId, DOMAIN pdu.opts \subseteq DOMAIN Decode(octets).opts
                   PROVE  Decode(octets) = pdu'
      BY <2>1 DEF Unlike
    <3> QED BY <1>1, <1>2, <1>3, <1>5, <3>1, FillIs
  <2>5. TypeOK' BY <1>1, <1>4, <2>1, <2>3 DEF TypeOK, Framing
  <2>6. HasHeader' /\ LengthTrue' BY <1>1, <2>1, <2>2 DEF HasHeader, LengthTrue
  <2>7. CacheFaithful' BY <1>5, <2>1, <2>4 DEF CacheFaithful
  <2> QED BY <2>5, <2>6, <2>7 DEF Inv
<1>6. CASE ~Accepts(octets)
  <2>1. data' = data /\ stale' = (data # NoData) BY <1>6 DEF Deserialize
  <2>2. TypeOK' BY <1>4, <2>1 DEF Inv, TypeOK
  <2>3. HasHeader' /\ LengthTrue' BY <2>1 DEF Inv, HasHeader, LengthTrue
  <2>4. CacheFaithful' BY <2>1 DEF CacheFaithful
  <2> QED BY <2>2, <2>3, <2>4 DEF Inv
<1> QED BY <1>5, <1>6

\* The octets that are written are read as the object, by RoundTrip.
LEMMA SerializeInv == ASSUME Inv, Serialize PROVE Inv'
<1>1. pdu' = pdu /\ stale' = stale BY DEF Serialize
<1>2. CASE data # NoData
  <2>1. data' = data BY <1>2 DEF Serialize
  <2> QED BY <1>1, <2>1 DEF Inv, TypeOK, HasHeader, LengthTrue, CacheFaithful
<1>3. CASE data = NoData
  <2> DEFINE d == Encode(pdu)
  <2>1. data' = d BY <1>3 DEF Serialize
  <2>2. CmdId \in Octets /\ LegalPdu(pdu, CmdId) BY Constants DEF Inv, TypeOK
  <2>3. /\ d \in Seq(Nat) /\ Len(d) >= HeaderSize /\ d[1] = Len(d)
        /\ \A k \in 2..Len(d) : d[k] \in Octets
    BY <2>2, Encoded
  <2>4. Consistent(pdu.mand) => Accepts(d) /\ Decode(d) = pdu BY <2>2, RoundTrip
  <2> HIDE DEF d
  <2>5. TypeOK' BY <1>1, <2>1, <2>3 DEF Inv, TypeOK
  <2>6. HasHeader' /\ LengthTrue' BY <2>1, <2>3 DEF HasHeader, LengthTrue
  <2>7. CacheFaithful' BY <1>1, <2>1, <2>4 DEF CacheFaithful
  <2> QED BY <2>5, <2>6, <2>7 DEF Inv
<1> QED BY <1>2, <1>3
-----------------------------------------------------------------------------
\* No call breaks the invariant.
LEMMA StepInv == Inv /\ [Next]_vars => Inv'
<1> SUFFICES ASSUME Inv, [Next]_vars PROVE Inv' OBVIOUS
<1>1. CASE \E v \in Statuses : SetCmdStatus(v) BY <1>1, SetCmdStatusInv
<1>2. CASE \E v \in Numbers : SetSeqNumber(v) BY <1>2, SetSeqNumberInv
<1>3. CASE \E i \in DOMAIN Layout : \E v \in Values[i] : SetMandatory(i, v) BY <1>3, SetMandatoryInv
<1>4. CASE \E tag \in DOMAIN OptValues : \E v \in OptValues[tag] : SetOptional(tag, v) BY <1>4, SetOptionalInv
<1>5. CASE \E octets \in Later : Deserialize(octets) BY <1>5, DeserializeInv
<1>6. CASE Serialize BY <1>6, SerializeInv
<1>7. CASE UNCHANGED vars BY <1>7 DEF vars, Inv, TypeOK, HasHeader, LengthTrue, CacheFaithful
<1> QED BY <1>1, <1>2, <1>3, <1>4, <1>5, <1>6, <1>7 DEF Next

\* So it holds throughout.
LEMMA Invariance == Spec => []Inv
BY InitInv, StepInv, PTL DEF Spec

\* The fields of an object are legal, whatever was received, set or refused.
THEOREM TypeCorrect == Spec => []TypeOK
<1>1. Inv => TypeOK BY DEF Inv
<1> QED BY <1>1, Invariance, PTL

\* command_length is the number of octets that serialize() returns.
THEOREM LengthIsTrue == Spec => []LengthTrue
<1>1. Inv => LengthTrue BY DEF Inv
<1> QED BY <1>1, Invariance, PTL

\* What serialize() returns from the cache is the object as it is.
THEOREM CacheIsFaithful == Spec => []CacheFaithful
<1>1. Inv => CacheFaithful BY DEF Inv
<1> QED BY <1>1, Invariance, PTL
===============================================================================
