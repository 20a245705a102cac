--------------------------------- MODULE Codec ---------------------------------
(***************************************************************************)
(* How a pdu is written to octets and read back: binary_writer and         *)
(* binary_reader, pdu<>::cmd_len, serialize and deserialize, and the       *)
(* optional parameters.  Integers take one octet here, whatever their      *)
(* width in the program; a string or a message is a sequence of octets.    *)
(* Loops are recursive functions of the number of their turns.             *)
(***************************************************************************)
EXTENDS Naturals, Sequences

CONSTANTS
  Layout,    \* types of the mandatory parameters of the PDU, in order
  TagType,   \* types of the registered optional parameters, by tag
  MaxOctet   \* the greatest integer an octet holds

Octets == 0..MaxOctet

\* The types of parameters (types.h); "length" is the integer sm_length.  A string
\* has room for its NUL.
Kinds == {"int", "length", "cstring", "fixed", "octets"}
Types == {type \in [kind : Kinds, max : Nat] :
            type.kind \in {"cstring", "fixed"} => type.max > 0}

\* sm_length comes before short_message, the only mandatory octet string.
ASSUME LayoutAssumption ==
  /\ Layout \in Seq(Types) /\ MaxOctet \in Nat \ {0}
  /\ \A j \in DOMAIN Layout : Layout[j].kind = "octets" =>
       /\ \E l \in 1..(j - 1) : Layout[l].kind = "length"
       /\ \A l \in j..Len(Layout) : Layout[l].kind # "length"

\* The length of an optional parameter can say what it may have.
ASSUME TagAssumption ==
  \A tag \in DOMAIN TagType :
    tag \in Octets /\ TagType[tag] \in Types /\ TagType[tag].max <= MaxOctet

Integer(type) == type.kind \in {"int", "length"}

\* command_length, command_id, command_status, sequence_number
HeaderSize == 4

\* The tag and the length of an optional parameter.
TlvSize == 2

\* The tags that opt_par_factory has a creator for.
Registered == DOMAIN TagType

\* unknown_optional_param
Unknown == [kind |-> "octets", max |-> MaxOctet]

\* opt_par_factory::create
TypeOfTag(tag) == IF tag \in Registered THEN TagType[tag] ELSE Unknown

Smaller(m, n) == IF m < n THEN m ELSE n

\* A map with the entries of another put over its own.
Over(new, old) ==
  [x \in DOMAIN new \cup DOMAIN old |-> IF x \in DOMAIN new THEN new[x] ELSE old[x]]
-----------------------------------------------------------------------------
(* Writing *)

\* get_param_size
ParamSize(type, v) ==
  CASE Integer(type) -> 1
    [] type.kind \in {"cstring", "fixed"} -> Len(v) + 1
    [] type.kind = "octets" -> Len(v)

\* binary_writer::operator<<: what is too long is cut, a fixed string of
\* another length than its own is left out.
Write(type, v) ==
  CASE Integer(type) -> <<v>>
    [] type.kind = "cstring" -> SubSeq(v, 1, Smaller(type.max, Len(v) + 1) - 1) \o <<0>>
    [] type.kind = "fixed" -> (IF Len(v) = type.max - 1 THEN v ELSE <<>>) \o <<0>>
    [] type.kind = "octets" -> SubSeq(v, 1, Smaller(type.max, Len(v)))

WriteTlv(tag, v) == <<tag, ParamSize(TypeOfTag(tag), v)>> \o Write(TypeOfTag(tag), v)

\* Sizes and octets of the first n mandatory parameters, ...
MandatorySize(mand) ==
  LET size[n \in 0..Len(Layout)] ==
        IF n = 0 THEN 0 ELSE size[n - 1] + ParamSize(Layout[n], mand[n])
  IN size

MandatoryOctets(mand) ==
  LET octets[n \in 0..Len(Layout)] ==
        IF n = 0 THEN <<>> ELSE octets[n - 1] \o Write(Layout[n], mand[n])
  IN octets

\* ... and of the optional ones with tags below n: a std::map goes by its keys.
OptionalSize(opts) ==
  LET size[n \in 0..(MaxOctet + 1)] ==
        IF n = 0 THEN 0
        ELSE IF n - 1 \notin DOMAIN opts THEN size[n - 1]
        ELSE size[n - 1] + TlvSize + ParamSize(TypeOfTag(n - 1), opts[n - 1])
  IN size

OptionalOctets(opts) ==
  LET octets[n \in 0..(MaxOctet + 1)] ==
        IF n = 0 THEN <<>>
        ELSE IF n - 1 \notin DOMAIN opts THEN octets[n - 1]
        ELSE octets[n - 1] \o WriteTlv(n - 1, opts[n - 1])
  IN octets

\* Mutant: optional parameters are not counted.
CmdLenBare(p) == HeaderSize + MandatorySize(p.mand)[Len(Layout)]

\* pdu<>::cmd_len
CmdLen(p) ==
  HeaderSize + MandatorySize(p.mand)[Len(Layout)] + OptionalSize(p.opts)[MaxOctet + 1]

\* pdu<>::serialize, when nothing is cached
Encode(p) ==
  <<CmdLen(p), p.id, p.status, p.seq>>
    \o (MandatoryOctets(p.mand)[Len(Layout)] \o OptionalOctets(p.opts)[MaxOctet + 1])
-----------------------------------------------------------------------------
(* Reading.  What follows the header is the body; a reader is at position  *)
(* pos of it, and good.                                                    *)

Body(data) == SubSeq(data, HeaderSize + 1, Len(data))

Left(body, pos) == Len(body) - pos + 1

\* Octets up to and including the next NUL; zero when there is none.
StringSize(body, pos) ==
  LET ends == {i \in pos..Len(body) : body[i] = 0}
  IN IF ends = {} THEN 0 ELSE (CHOOSE i \in ends : \A j \in ends : i <= j) - pos + 1

\* The octets binary_reader::operator>> would take for a parameter; size is
\* what the parameter has been resized to.
Span(type, body, pos, size) ==
  CASE Integer(type) -> 1
    [] type.kind \in {"cstring", "fixed"} -> StringSize(body, pos)
    [] type.kind = "octets" -> Smaller(size, type.max)

\* Whether they are there and make a legal value.
Readable(type, body, pos, size) ==
  LET n == Span(type, body, pos, size)
  IN /\ n <= Left(body, pos)
     /\ type.kind = "cstring" => 0 < n /\ n <= type.max
     /\ type.kind = "fixed" => n \in {1, type.max}

\* Mutant: the octets of an integer are not put in the order of the host.
ValueUnswapped(type, body, pos, size) ==
  LET n == Span(type, body, pos, size)
  IN CASE Integer(type) -> body[pos] * (MaxOctet + 1)
       [] type.kind \in {"cstring", "fixed"} -> SubSeq(body, pos, pos + n - 2)
       [] type.kind = "octets" -> SubSeq(body, pos, pos + n - 1)

\* The value they make.
Value(type, body, pos, size) ==
  LET n == Span(type, body, pos, size)
  IN CASE Integer(type) -> body[pos]
       [] type.kind \in {"cstring", "fixed"} -> SubSeq(body, pos, pos + n - 2)
       [] type.kind = "octets" -> SubSeq(body, pos, pos + n - 1)

\* vector::resize
Resize(v, n) == [k \in 1..n |-> IF k <= Len(v) THEN v[k] ELSE 0]

\* One turn of deserialize: parameter i is read over what it held, unless one
\* before it could not be, or it cannot; a message is then only cut.  The
\* octets of short_message are as many as sm_length says, read or not.
ReadParam(r, i, body) ==
  LET type == Layout[i]
      held == r.mand[i]
      size == IF type.kind = "octets" THEN Len(held) ELSE 0
      good == r.good /\ Readable(type, body, r.pos, size)
      v == IF good THEN Value(type, body, r.pos, size)
           ELSE IF type.kind = "octets" THEN Resize(held, Smaller(size, type.max))
           ELSE held
  IN [good |-> good,
      pos |-> IF good THEN r.pos + Span(type, body, r.pos, size) ELSE r.pos,
      mand |-> [j \in DOMAIN Layout |->
                  IF j = i THEN v
                  ELSE IF type.kind = "length" /\ Layout[j].kind = "octets"
                    THEN Resize(r.mand[j], v)
                  ELSE r.mand[j]]]

\* The reader and the parameters after n turns, in an object that held some.
Reading(held, body) ==
  LET r[n \in 0..Len(Layout)] ==
        IF n = 0 THEN [good |-> TRUE, pos |-> 1, mand |-> held]
        ELSE ReadParam(r[n - 1], n, body)
  IN r

ReadInto(held, body) == Reading(held, body)[Len(Layout)]

\* The mandatory parameters of an object that make_shared has just made.
Blank == [i \in DOMAIN Layout |-> IF Integer(Layout[i]) THEN 0 ELSE <<>>]

ReadMandatory(body) == ReadInto(Blank, body)

\* The position behind the optional parameter at pos, and the octets of its value.
Following(body, pos) == pos + TlvSize + body[pos + 1]
TlvOctets(body, pos) == SubSeq(body, pos + TlvSize, Following(body, pos) - 1)

\* optional_param::deserialize_value: the octets must be there, make a legal value
\* and be used up by it.
ReadableTlv(body, pos) ==
  /\ TlvSize <= Left(body, pos) /\ TlvSize + body[pos + 1] <= Left(body, pos)
  /\ LET value == TlvOctets(body, pos)
         type == TypeOfTag(body[pos])
     IN Readable(type, value, 1, Len(value)) /\ Span(type, value, 1, Len(value)) = Len(value)

TlvValue(body, pos) ==
  LET value == TlvOctets(body, pos)
  IN Value(TypeOfTag(body[pos]), value, 1, Len(value))

\* The loop over the optional parameters, from each position; the last one
\* with a given tag stays.
ReadOptional(body) ==
  LET from[pos \in 1..(Len(body) + 1)] ==
        IF pos > Len(body) THEN [good |-> TRUE, opts |-> <<>>]
        ELSE IF ~ReadableTlv(body, pos) THEN [good |-> FALSE, opts |-> <<>>]
        ELSE LET rest == from[Following(body, pos)]
             IN [good |-> rest.good,
                 opts |-> Over(rest.opts, [tag \in {body[pos]} |-> TlvValue(body, pos)])]
  IN from

\* pdu<>::deserialize accepts data, whatever the object held before, ...
Accepts(data) ==
  /\ Len(data) >= HeaderSize
  /\ ReadMandatory(Body(data)).good
  /\ ReadOptional(Body(data))[ReadMandatory(Body(data)).pos].good

\* ... and makes this of an object that was fresh.  The announced length is
\* skipped.
Decode(data) ==
  [id |-> data[2], status |-> data[3], seq |-> data[4],
   mand |-> ReadMandatory(Body(data)).mand,
   opts |-> ReadOptional(Body(data))[ReadMandatory(Body(data)).pos].opts]

\* What deserialize leaves in an object that held p, whether it accepts data or
\* not; any is the octet that cmd_status, which is not initialized, has when
\* data ends before it.
Fill(p, data, any) ==
  LET r == ReadInto(p.mand, Body(data))
      whole == Len(data) >= HeaderSize
  IN [id |-> p.id,
      status |-> IF Len(data) < 3 THEN any ELSE data[3],
      seq |-> IF whole THEN data[4] ELSE p.seq,
      mand |-> IF whole THEN r.mand ELSE p.mand,
      opts |-> IF whole /\ r.good THEN Over(ReadOptional(Body(data))[r.pos].opts, p.opts)
               ELSE p.opts]
-----------------------------------------------------------------------------
(* The values that a parameter of a type is meant to have: an integer of its *)
(* width, a string without NUL that fits, a time of its length or none.      *)
Legal(type, v) ==
  CASE Integer(type) -> v \in Octets
    [] type.kind = "cstring" -> v \in Seq(1..MaxOctet) /\ Len(v) < type.max
    [] type.kind = "fixed" -> v \in Seq(1..MaxOctet) /\ Len(v) \in {0, type.max - 1}
    [] type.kind = "octets" -> v \in Seq(Octets) /\ Len(v) <= type.max

LegalMand(mand) ==
  /\ mand = [i \in DOMAIN Layout |-> mand[i]]
  /\ \A i \in DOMAIN Layout : Legal(Layout[i], mand[i])

LegalOpts(opts) ==
  /\ opts = [tag \in DOMAIN opts |-> opts[tag]]
  /\ \A tag \in DOMAIN opts : tag \in Octets /\ Legal(TypeOfTag(tag), opts[tag])

\* An object of a class: fields of their types, optional parameters by tag.
LegalPdu(p, id) ==
  /\ p = [id |-> id, status |-> p.status, seq |-> p.seq, mand |-> p.mand, opts |-> p.opts]
  /\ p.status \in Octets /\ p.seq \in Octets
  /\ LegalMand(p.mand) /\ LegalOpts(p.opts)

\* sm_length announces what short_message holds, as far as a short message
\* can be that long.  The program sets the two separately.
Consistent(mand) ==
  \A i, j \in DOMAIN Layout :
    Layout[i].kind = "length" /\ Layout[j].kind = "octets" =>
      Len(mand[j]) = Smaller(mand[i], Layout[j].max)
=============================================================================
