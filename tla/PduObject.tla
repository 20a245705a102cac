------------------------------- MODULE PduObject -------------------------------
(***************************************************************************)
(* One pdu<...> object of the program between its creation, by the         *)
(* application or by tryParse, and its destruction: its fields, and the    *)
(* octets _data it keeps from the last serialize() or deserialize(), which *)
(* the setters throw away or patch in place.                               *)
(***************************************************************************)
EXTENDS Codec

CONSTANTS
  CmdId,      \* the command_id of the class
  Statuses, Numbers, \* values of set_cmd_status and set_seq_number
  Values,     \* for each mandatory parameter, legal values of set<>
  OptValues,  \* for each settable tag, legal values of set<>
  Received,   \* octets that read_async has read for tryParse
  Later,      \* octets deserialized into an object that is in use
  NoData      \* std::nullopt

\* What the application sets is legal; what is deserialized is as long as its
\* command_length, which is what read_async asked for.  Elsewhere integers fit in
\* an octet.
ASSUME ValuesAssumption ==
  /\ CmdId \in Octets /\ Statuses \cup Numbers \subseteq Octets
  /\ \A i \in DOMAIN Layout : \A v \in Values[i] : Legal(Layout[i], v)
  /\ \A tag \in DOMAIN OptValues :
       tag \in Octets /\ \A v \in OptValues[tag] : Legal(TypeOfTag(tag), v)

ASSUME OctetsAssumption ==
  /\ NoData \notin Seq(Nat)
  /\ \A octets \in Received \cup Later :
       /\ octets \in Seq(Nat) \ {<<>>} /\ octets[1] = Len(octets)
       /\ \A k \in 2..Len(octets) : octets[k] \in Octets

VARIABLES
  pdu,   \* id, status, seq, mandatory and optional parameters
  data,  \* _data
  stale  \* history: deserialize() has left _data and the fields different

vars == <<pdu, data, stale>>

\* command_length is not cut to an octet.
TypeOK ==
  /\ LegalPdu(pdu, CmdId)
  /\ data # NoData =>
       data \in Seq(Nat) /\ \A k \in 2..Len(data) : data[k] \in Octets
  /\ stale \in BOOLEAN

\* A default-constructed object: make_shared zeroes its integers.
Fresh == [id |-> CmdId, status |-> 0, seq |-> 0, mand |-> Blank, opts |-> <<>>]

\* create_default_pdu_by_command_id makes an object of this class.
MadeFor(id) == id = CmdId

\* tryParse gives deserialize a fresh object of the class of its command_id,
\* and hands it out even when it was refused, with what had been read by then.
TryParse(octets) ==
  /\ Len(octets) >= 2 /\ MadeFor(octets[2])
  /\ \E any \in Statuses : pdu = Fill(Fresh, octets, any)
  /\ data = IF Accepts(octets) THEN octets ELSE NoData

Init ==
  /\ stale = FALSE
  /\ \/ pdu = Fresh /\ data = NoData
     \/ \E octets \in Received : TryParse(octets)

\* What a setter of the header does to the cached octets.
Patch(i, v) == IF data # NoData /\ Len(data) >= HeaderSize THEN [data EXCEPT ![i] = v] ELSE data

SetCmdStatus(v) == data' = Patch(3, v) /\ pdu' = [pdu EXCEPT !.status = v] /\ UNCHANGED stale

SetSeqNumber(v) == data' = Patch(4, v) /\ pdu' = [pdu EXCEPT !.seq = v] /\ UNCHANGED stale

\* set<> throws the octets away, and with them what was stale in them.
Reset == data' = NoData /\ stale' = FALSE

\* Of accepted octets the object keeps optional parameters they lack, and they
\* keep a command_id that is not the class's.
Unlike(octets) == octets[2] # CmdId \/ ~(DOMAIN pdu.opts \subseteq DOMAIN Decode(octets).opts)

\* Mutant: deserialize() stores the octets before it has read them.
DeserializeEarly(octets) ==
  /\ \E any \in Statuses : pdu' = Fill(pdu, octets, any)
  /\ data' = octets
  /\ stale' = IF Accepts(octets) THEN Unlike(octets) ELSE data # NoData

\* deserialize() of an object that is in use: it skips the command_id, what the new
\* octets do not mention of the optional parameters stays, and a refusal keeps the
\* octets of before next to the fields that were read.
Deserialize(octets) ==
  /\ \E any \in Statuses : pdu' = Fill(pdu, octets, any)
  /\ data' = IF Accepts(octets) THEN octets ELSE data
  /\ stale' = IF Accepts(octets) THEN Unlike(octets) ELSE data # NoData

\* set<> of a mandatory parameter
SetMandatory(i, v) == Reset /\ pdu' = [pdu EXCEPT !.mand[i] = v]

\* set<> of an optional parameter
SetOptional(tag, v) == Reset /\ pdu' = [pdu EXCEPT !.opts = Over([t \in {tag} |-> v], @)]

Serialize ==
  /\ data' = IF data = NoData THEN Encode(pdu) ELSE data
  /\ UNCHANGED <<pdu, stale>>

Next ==
  \/ \E v \in Statuses : SetCmdStatus(v)
  \/ \E v \in Numbers : SetSeqNumber(v)
  \/ \E i \in DOMAIN Layout : \E v \in Values[i] : SetMandatory(i, v)
  \/ \E tag \in DOMAIN OptValues : \E v \in OptValues[tag] : SetOptional(tag, v)
  \/ \E octets \in Later : Deserialize(octets)
  \/ Serialize

Spec == Init /\ [][Next]_vars
-----------------------------------------------------------------------------
(* Properties *)

\* The octets that serialize() returns from the cache are those of the
\* object as it is now: a receiver that parses them gets the same fields,
\* whatever was received, refused, set, patched and serialized before, in any
\* order (pdu.h:84-115, 164, 169-185).  Three ways of using an object twice
\* break this until the next set<>: deserialize() of another class's octets, into
\* an object that has an optional parameter which the octets lack, and one that is
\* refused by an object that has octets.
CacheFaithful ==
  data # NoData /\ Consistent(pdu.mand) /\ ~stale => Accepts(data) /\ Decode(data) = pdu

\* command_length is the number of octets sent: the receiver, which peeks it
\* and reads as many, stays in step (pdu.h:70-78, socket.cpp:60-64).
LengthTrue == data # NoData => data[1] = Len(data)
=============================================================================
