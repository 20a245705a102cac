------------------------------ MODULE MCPduObject ------------------------------
(* A PDU shaped like submit_sm: a C string, a time of fixed length, sm_length *)
(* and short_message; one integer, one string and one octet string as         *)
(* registered optional parameters.                                            *)
EXTENDS PduObject, SequencesExt

MCLayout == <<[kind |-> "cstring", max |-> 2], [kind |-> "fixed", max |-> 3],
              [kind |-> "length", max |-> 0], [kind |-> "octets", max |-> 1]>>

MCTagType == 1 :> [kind |-> "int", max |-> 0] @@ 2 :> [kind |-> "cstring", max |-> 2]

MCValues == <<{<<1>>}, {<<1, 1>>}, {0, 1}, {<<>>, <<0>>}>>

MCOptValues == 1 :> {2} @@ 2 :> {<<2>>}

\* Bodies: every one of up to MaxBody octets, and the shortest mandatory parameters
\* with up to MaxTlvs optional ones: registered, unknown, repeated, malformed.
CONSTANTS MaxBody, BodyOctets, MaxTlvs

Tlvs == {<<1, 1, 0>>, <<1, 1, 2>>, <<2, 1, 0>>, <<2, 2, 2, 0>>, <<2, 1, 1>>, <<2, 2, 0, 0>>,
         <<5, 0>>, <<5, 2, 1, 0>>, <<1, 2>>}

Bodies == BoundedSeq(BodyOctets, MaxBody)
          \cup {<<0, 0, 0>> \o FlattenSeq(tlvs) : tlvs \in BoundedSeq(Tlvs, MaxTlvs)}

Pdus(bodies) == {<<HeaderSize + Len(body), CmdId, 1, 1>> \o body : body \in bodies}

\* Headers that end early, and PDUs with those bodies.
MCReceived == {<<2, CmdId>>, <<3, CmdId, 1>>} \cup Pdus(Bodies)

\* For an object in use: refused in the header, in a string, in short_message
\* and in an optional parameter after a legal one; accepted; of another class.
MCLater ==
  {<<3, CmdId, 1>>, <<HeaderSize + 3, CmdId + 1, 1, 1, 0, 0, 0>>}
  \cup Pdus({<<1, 0, 1>>, <<1, 0, 0, 1>>, <<0, 0, 0>>, <<0, 0, 0, 1, 1, 2, 2, 1, 1>>})
=============================================================================
