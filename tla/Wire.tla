-------------------------------- MODULE Wire --------------------------------
(***************************************************************************)
(* Frames between the bridge and the client (rust_client/src/wire.rs and   *)
(* backend/lib/findex_rust/wire.ex): a magic word, a version, a length and *)
(* a term in the runtime's external format.  The runtime encodes events    *)
(* and the client decodes them, to JSON; the client encodes its requests   *)
(* with an encoder of its own.  A tag, a length, a byte of a number and a  *)
(* letter is one item of a frame each; numbers have small bytes.           *)
(***************************************************************************)
EXTENDS Integers, Sequences, SequencesExt, FiniteSets, TLC

CONSTANTS Terms,              \* that the bridge may send
          Requests,           \* that the client may send, in JSON
          BYTE,               \* values of a byte
          INT_BYTES,          \* bytes of an i32
          LONG_BYTES,         \* bytes of a u64
          MAXIMUM_NESTING, MAXIMUM_FRAME,
          VERSION, Versions,  \* ours, and those of backends that may be found
          MaxFrames           \* bound on the events

ASSUME WidthsAssumption == BYTE \in Nat \ {0, 1} /\ INT_BYTES \in 2 .. LONG_BYTES - 1 /\ VERSION \in Versions

VARIABLES
    version,    \* of the backend
    sent,       \* the events written whole, or "stray" or "malformed" (history)
    pipe,       \* items written and not read
    open,       \* the bridge holds the writing end
    got,        \* the events read, in JSON
    failed,     \* the client gave up reading
    request     \* [json, payload]: the request written, or NoRequest

wire == <<version, sent, pipe, open, got, failed, request>>

Power(n) == BYTE ^ n
IsByte(n) == n \in 0 .. BYTE - 1
IsInt(n) == n \in - (Power(INT_BYTES) \div 2) .. Power(INT_BYTES) \div 2 - 1
MinLong == - (Power(LONG_BYTES) \div 2)

\* Two's complement, first byte first; and a magnitude in as many bytes as it
\* needs, last byte first.
BigEndian(n, count) == [i \in 1 .. count |-> ((n + Power(count)) \div Power(count - i)) % BYTE]
Magnitude(n) ==
    LET count == CHOOSE c \in 1 .. n + 1 : n < Power(c) /\ (c = 1 \/ n >= Power(c - 1))
    IN [i \in 1 .. count |-> (n \div Power(i - 1)) % BYTE]
Absolute(n) == IF n < 0 THEN - n ELSE n
Flat(items, Each(_)) == FlattenSeq([i \in DOMAIN items |-> Each(items[i])])
-----------------------------------------------------------------------------
(* The runtime: term_to_binary.  A list of bytes is packed as a string.    *)

IntegerItems(n) ==
    IF IsByte(n) THEN <<"SMALL_INTEGER", n>>
    ELSE IF IsInt(n) THEN <<"INTEGER">> \o BigEndian(n, INT_BYTES)
    ELSE <<"SMALL_BIG", Len(Magnitude(Absolute(n))), IF n < 0 THEN 1 ELSE 0>> \o Magnitude(Absolute(n))

IsString(list) == list # <<>> /\ \A i \in DOMAIN list : list[i][1] = "integer" /\ IsByte(list[i][2])

RECURSIVE External(_, _)
External(term, strings) ==
    LET what == term[2]
        long == Len(what) >= BYTE
    IN CASE term[1] = "integer" -> IntegerItems(what)
         [] term[1] = "float" -> <<"NEW_FLOAT", what>>
         [] term[1] = "atom" -> <<IF long THEN "ATOM_UTF8" ELSE "SMALL_ATOM_UTF8", Len(what)>> \o what
         [] term[1] = "binary" -> <<"BINARY", Len(what)>> \o what
         [] term[1] = "tuple" -> <<IF long THEN "LARGE_TUPLE" ELSE "SMALL_TUPLE", Len(what)>>
                                   \o Flat(what, LAMBDA t : External(t, strings))
         [] term[1] = "map" -> <<"MAP", Len(what)>>
                                 \o Flat(what, LAMBDA e : External(e[1], strings) \o External(e[2], strings))
         [] what = <<>> -> <<"NIL">>
         [] strings /\ IsString(what) -> <<"STRING", Len(what)>> \o [i \in DOMAIN what |-> what[i][2]]
         [] OTHER -> <<"LIST", Len(what)>> \o Flat(what, LAMBDA t : External(t, strings)) \o <<"NIL">>
-----------------------------------------------------------------------------
(* The client: encode_value and from_json.                                 *)

FromText(text) == <<"Binary", text>>

RECURSIVE FromJson(_)
FromJson(json) ==
    LET what == json[2]
    IN CASE json[1] = "null" -> <<"Null", 0>>
         [] json[1] = "bool" -> <<"Bool", what>>
         [] json[1] = "number" -> IF what >= 0 THEN <<"Unsigned", what>> ELSE <<"Signed", what>>
         [] json[1] = "float" -> <<"Float", what>>
         [] json[1] = "string" -> FromText(what)
         [] json[1] = "array" -> <<"List", [i \in DOMAIN what |-> FromJson(what[i])]>>
         [] OTHER -> LET keys == SetToSeq(DOMAIN what)
                     IN <<"Map", [i \in DOMAIN keys |-> <<FromText(keys[i]), FromJson(what[keys[i]])>>]>>

Nil == <<"n", "i", "l">>
Null == <<"n", "u", "l", "l">>
True == <<"t", "r", "u", "e">>
False == <<"f", "a", "l", "s", "e">>

EncodeAtom(text) == <<IF IsByte(Len(text)) THEN "SMALL_ATOM_UTF8" ELSE "ATOM_UTF8", Len(text)>> \o text
EncodeBig(magnitude, negative) == <<"SMALL_BIG", Len(Magnitude(magnitude)), negative>> \o Magnitude(magnitude)

IntAsUnsignedBug(n) ==
    IF IsByte(n) THEN <<"SMALL_INTEGER", n>>
    ELSE IF n < Power(INT_BYTES) THEN <<"INTEGER">> \o BigEndian(n, INT_BYTES)
    ELSE EncodeBig(n, 0)

EncodeUnsigned(n) ==
    IF IsByte(n) THEN <<"SMALL_INTEGER", n>>
    ELSE IF IsInt(n) THEN <<"INTEGER">> \o BigEndian(n, INT_BYTES)
    ELSE EncodeBig(n, 0)

RECURSIVE EncodeValue(_)
EncodeValue(value) ==
    LET what == value[2]
    IN CASE value[1] = "Null" -> EncodeAtom(Nil)
         [] value[1] = "Bool" -> EncodeAtom(IF what THEN True ELSE False)
         [] value[1] = "Unsigned" -> EncodeUnsigned(what)
         [] value[1] = "Signed" -> IF what >= 0 THEN EncodeUnsigned(what)
                                   ELSE IF IsInt(what) THEN <<"INTEGER">> \o BigEndian(what, INT_BYTES)
                                   ELSE EncodeBig(Absolute(what), 1)
         [] value[1] = "Float" -> <<"NEW_FLOAT", what>>
         [] value[1] = "Binary" -> <<"BINARY", Len(what)>> \o what
         [] value[1] = "Map" -> <<"MAP", Len(what)>> \o Flat(what, LAMBDA e : EncodeValue(e[1]) \o EncodeValue(e[2]))
         [] what = <<>> -> <<"NIL">>
         [] OTHER -> <<"LIST", Len(what)>> \o Flat(what, EncodeValue) \o <<"NIL">>
-----------------------------------------------------------------------------
(* The client: Decoder.  A result is a value and the items behind it.      *)

Failed == [ok |-> FALSE, value |-> <<>>, rest |-> <<>>]
Result(value, rest) == [ok |-> TRUE, value |-> value, rest |-> rest]

\* take, and a count that says how many to take.
Take(items, n, As(_)) ==
    IF Len(items) < n THEN Failed ELSE Result(As(SubSeq(items, 1, n)), SubSeq(items, n + 1, Len(items)))
Counted(items, As(_)) == IF items = <<>> THEN Failed ELSE Take(Tail(items), Head(items), As)

FromAtom(text) ==
    CASE text \in {Nil, Null} -> <<"Null", 0>>
      [] text = True -> <<"Bool", TRUE>>
      [] text = False -> <<"Bool", FALSE>>
      [] OTHER -> <<"Atom", text>>

FromBigEndian(bytes) ==
    LET n == FoldLeft(LAMBDA sum, byte : sum * BYTE + byte, 0, bytes)
    IN IF n >= Power(INT_BYTES) \div 2 THEN n - Power(INT_BYTES) ELSE n

\* big_integer: a sign and a magnitude of at most 64 bits; i64::MIN has none
\* of its magnitude above it.
BigInteger(count, items) ==
    LET bytes == SubSeq(items, 2, count + 1)
        n == FoldRight(LAMBDA byte, sum : sum * BYTE + byte, bytes, 0)
    IN IF count > LONG_BYTES \/ Len(items) < count + 1 \/ Head(items) \notin {0, 1} THEN Failed
       ELSE IF Head(items) = 0 THEN Result(<<"Unsigned", n>>, SubSeq(items, count + 2, Len(items)))
       ELSE IF n <= Absolute(MinLong) THEN Result(<<"Signed", - n>>, SubSeq(items, count + 2, Len(items))) ELSE Failed

RECURSIVE DecodeValue(_, _)

\* values: no more of them than the payload has items left for.
RECURSIVE DecodeValues(_, _, _)
DecodeValues(n, items, depth) ==
    LET first == DecodeValue(items, depth + 1)
        others == DecodeValues(n - 1, first.rest, depth)
    IN IF n > Len(items) THEN Failed
       ELSE IF n = 0 THEN Result(<<>>, items)
       ELSE IF ~ first.ok THEN Failed
       ELSE IF ~ others.ok THEN Failed
       ELSE Result(<<first.value>> \o others.value, others.rest)

\* So many times width values, made one.
Collection(items, width, depth, As(_)) ==
    LET values == DecodeValues(Head(items) * width, Tail(items), depth)
    IN IF items = <<>> THEN Failed ELSE IF values.ok THEN Result(As(values.value), values.rest) ELSE Failed

DecodeList(items, depth) ==
    LET list == Collection(items, 1, depth, LAMBDA values : <<"List", values>>)
    IN IF list.ok /\ list.rest # <<>> /\ Head(list.rest) = "NIL" THEN Result(list.value, Tail(list.rest)) ELSE Failed

Pairs(values) == [i \in 1 .. Len(values) \div 2 |-> <<values[2 * i - 1], values[2 * i]>>]

DecodeValue(items, depth) ==
    LET tag == Head(items)
        body == Tail(items)
    IN IF depth > MAXIMUM_NESTING \/ items = <<>> THEN Failed
       ELSE CASE tag = "SMALL_INTEGER" -> Take(body, 1, LAMBDA b : <<"Unsigned", b[1]>>)
         [] tag = "INTEGER" -> Take(body, INT_BYTES, LAMBDA b : <<"Signed", FromBigEndian(b)>>)
         [] tag = "NEW_FLOAT" -> Take(body, 1, LAMBDA b : <<"Float", b[1]>>)
         [] tag \in {"SMALL_ATOM_UTF8", "ATOM_UTF8"} -> Counted(body, FromAtom)
         [] tag \in {"SMALL_TUPLE", "LARGE_TUPLE"} -> Collection(body, 1, depth, LAMBDA values : <<"Tuple", values>>)
         [] tag = "NIL" -> Result(<<"List", <<>>>>, body)
         [] tag = "STRING" ->
              Counted(body, LAMBDA bytes : <<"List", [i \in DOMAIN bytes |-> <<"Unsigned", bytes[i]>>]>>)
         [] tag = "LIST" -> DecodeList(body, depth)
         [] tag = "BINARY" -> Counted(body, FromText)
         [] tag = "SMALL_BIG" -> IF body = <<>> THEN Failed ELSE BigInteger(Head(body), Tail(body))
         [] tag = "MAP" -> Collection(body, 2, depth, LAMBDA values : <<"Map", Pairs(values)>>)
         [] OTHER -> Failed

Refused == <<"refused", 0>>
IsUtf8(text) == \A i \in DOMAIN text : text[i] # "ff"
Base64 == <<"b", "a", "s", "e">>
BinaryJson(text) == IF IsUtf8(text) THEN <<"string", text>> ELSE <<"object", (Base64 :> <<"string", text>>)>>

\* into_json: keys are texts, each once.
RECURSIVE IntoJson(_)
IntoJson(value) ==
    LET what == value[2]
        each == [i \in DOMAIN what |-> IntoJson(what[i])]
        keys == {what[i][1][2] : i \in DOMAIN what}
        at(key) == what[CHOOSE i \in DOMAIN what : what[i][1][2] = key][2]
        object == [key \in keys |-> IntoJson(at(key))]
        named == \A i \in DOMAIN what : what[i][1][1] = "Atom" \/ (what[i][1][1] = "Binary" /\ IsUtf8(what[i][1][2]))
    IN CASE value[1] = "Null" -> <<"null", 0>>
         [] value[1] = "Bool" -> <<"bool", what>>
         [] value[1] \in {"Unsigned", "Signed"} -> <<"number", what>>
         [] value[1] = "Float" -> <<"float", what>>
         [] value[1] = "Binary" -> BinaryJson(what)
         [] value[1] = "Atom" -> <<"string", what>>
         [] value[1] \in {"Tuple", "List"} ->
              IF \E i \in DOMAIN each : each[i] = Refused THEN Refused ELSE <<"array", each>>
         [] OTHER -> IF \/ ~ named \/ Cardinality(keys) < Len(what)
                        \/ \E key \in keys : object[key] = Refused
                       THEN Refused ELSE <<"object", object>>

IgnoreTrailingBug(items) ==
    LET whole == DecodeValue(items, 0)
    IN IF whole.ok THEN IntoJson(whole.value) ELSE Refused

\* decode_payload and into_json.
Payload(items) ==
    LET whole == DecodeValue(items, 0)
    IN IF whole.ok /\ whole.rest = <<>> THEN IntoJson(whole.value) ELSE Refused
-----------------------------------------------------------------------------
(* The pipe.                                                               *)

FrameOf(payload) == <<"FIDX", version, Len(payload)>> \o payload
HEADER == 3

NoRequest == [json |-> <<"null", 0>>, payload |-> EncodeValue(FromJson(<<"null", 0>>))]

InitWire ==
    /\ version \in Versions
    /\ sent = <<>> /\ pipe = <<>> /\ open = TRUE
    /\ got = <<>> /\ failed = FALSE
    /\ request = NoRequest

Sends(what, items) ==
    /\ open /\ Len(sent) < MaxFrames
    /\ sent' = Append(sent, what) /\ pipe' = pipe \o items
    /\ request' = NoRequest
    /\ UNCHANGED <<version, open, got, failed>>

SendEvent == \E term \in Terms : Sends(term, FrameOf(External(term, TRUE)))

\* Something else is printed on the bridge's standard output.
SendStray == Sends(<<"stray", 0>>, <<"warning", 1, 2>>)

\* A payload with a length of its own that is wrong, by one item either way.
SendMalformed ==
    \E term \in Terms :
       LET payload == External(term, TRUE)
       IN \E items \in {Front(payload), Append(payload, "NIL")} : Sends(<<"malformed", 0>>, FrameOf(items))

\* The bridge ends or is killed, perhaps in the middle of a frame.
BridgeDies ==
    /\ open /\ open' = FALSE
    /\ \/ UNCHANGED pipe
       \/ \E term \in Terms :
            /\ Len(sent) < MaxFrames
            /\ LET frame == FrameOf(External(term, TRUE))
               IN \E k \in 1 .. Len(frame) - 1 : pipe' = pipe \o SubSeq(frame, 1, k)
    /\ UNCHANGED <<version, sent, got, failed, request>>

\* read_frame.  An end of the stream counts against a frame that has begun and
\* between two frames alike.
HeaderRead == Len(pipe) >= HEADER
HeaderFits == pipe[1] = "FIDX" /\ pipe[2] = VERSION /\ pipe[3] <= MAXIMUM_FRAME
PayloadRead == Len(pipe) >= HEADER + pipe[3]
PayloadJson == Payload(SubSeq(pipe, HEADER + 1, HEADER + pipe[3]))

ReadFrame ==
    /\ ~ failed /\ HeaderRead /\ HeaderFits /\ PayloadRead
    /\ LET json == PayloadJson
       IN IF json = Refused THEN failed' = TRUE /\ UNCHANGED got
          ELSE got' = Append(got, json) /\ UNCHANGED failed
    /\ pipe' = SubSeq(pipe, HEADER + pipe[3] + 1, Len(pipe))
    /\ UNCHANGED <<version, sent, open, request>>

RefuseFrame ==
    /\ ~ failed
    /\ IF HeaderRead /\ HeaderFits THEN ~ PayloadRead /\ ~ open ELSE HeaderRead \/ ~ open
    /\ failed' = TRUE
    /\ UNCHANGED <<version, sent, pipe, open, got, request>>

\* The client writes when it has read what came; the bridge reads before it
\* writes again.
SendRequest ==
    /\ ~ failed /\ pipe = <<>> /\ request = NoRequest
    /\ \E json \in Requests : request' = [json |-> json, payload |-> EncodeValue(FromJson(json))]
    /\ UNCHANGED <<version, sent, pipe, open, got, failed>>

NextWire == SendEvent \/ SendStray \/ SendMalformed \/ BridgeDies \/ ReadFrame \/ RefuseFrame \/ SendRequest
WireSpec == InitWire /\ [][NextWire]_wire
-----------------------------------------------------------------------------
(* What a term says in JSON, by the definition of each type.               *)
Words == [null |-> {Nil, Null}, bool |-> {True, False}]
Named(text) == text \notin UNION {Words.null, Words.bool}
IsKey(term) == (term[1] = "atom" /\ Named(term[2])) \/ (term[1] = "binary" /\ IsUtf8(term[2]))

RECURSIVE Meaning(_, _)
Meaning(term, depth) ==
    LET what == term[2]
        inner == IF IsString(what) THEN depth ELSE depth + 1
        parts == [i \in DOMAIN what |-> Meaning(what[i], inner)]
        values == [i \in DOMAIN what |-> Meaning(what[i][2], depth + 1)]
        texts == {what[i][1][2] : i \in DOMAIN what}
    IN IF depth > MAXIMUM_NESTING THEN Refused
       ELSE CASE term[1] = "integer" -> IF what \in MinLong .. Power(LONG_BYTES) - 1 THEN <<"number", what>> ELSE Refused
         [] term[1] = "float" -> term
         [] term[1] = "atom" /\ ~ Named(what) -> IF what \in Words.null THEN <<"null", 0>> ELSE <<"bool", what = True>>
         [] term[1] = "atom" /\ Named(what) -> <<"string", what>>
         [] term[1] = "binary" -> BinaryJson(what)
         [] term[1] = "map" ->
              IF \/ \E i \in DOMAIN what : ~ IsKey(what[i][1]) \/ Meaning(what[i][1], depth + 1) = Refused
                 \/ \E i, j \in DOMAIN what : i # j /\ what[i][1][2] = what[j][1][2]
                 \/ \E i \in DOMAIN what : values[i] = Refused
                THEN Refused
                ELSE <<"object", [text \in texts |-> values[CHOOSE i \in DOMAIN what : what[i][1][2] = text]]>>
         [] OTHER -> IF \E i \in DOMAIN parts : parts[i] = Refused THEN Refused ELSE <<"array", parts>>

Expected(what) ==
    IF version # VERSION \/ what[1] \in {"stray", "malformed"} THEN Refused
    ELSE IF Len(External(what, TRUE)) > MAXIMUM_FRAME THEN Refused
    ELSE Meaning(what, 0)

(***************************************************************************)
(* The client reads the events that the bridge wrote, each with its        *)
(* meaning, in order and without a gap, and gives up only at one that      *)
(* cannot be understood, which it never mistakes for another, or after the *)
(* last one when the pipe has ended: where in a frame it was cut does not  *)
(* matter.                                                                 *)
(***************************************************************************)
EventsArriveAsSent ==
    /\ Len(got) <= Len(sent)
    /\ \A k \in DOMAIN got : Expected(sent[k]) # Refused /\ got[k] = Expected(sent[k])
    /\ failed => IF Len(got) = Len(sent) THEN ~ open ELSE Expected(sent[Len(got) + 1]) = Refused

RECURSIVE TermOf(_)
TermOf(json) ==
    LET what == json[2]
        keys == SetToSeq(DOMAIN what)
    IN CASE json[1] = "null" -> <<"atom", Nil>>
         [] json[1] = "bool" -> <<"atom", IF what THEN True ELSE False>>
         [] json[1] = "number" -> <<"integer", what>>
         [] json[1] = "float" -> json
         [] json[1] = "string" -> <<"binary", what>>
         [] json[1] = "array" -> <<"list", [i \in DOMAIN what |-> TermOf(what[i])]>>
         [] OTHER -> <<"map", [i \in DOMAIN keys |-> <<<<"binary", keys[i]>>, TermOf(what[keys[i]])>>]>>

(***************************************************************************)
(* A request is written as the runtime itself would write it, lists of     *)
(* bytes apart, at every boundary between the formats of numbers, and the  *)
(* client's own decoder takes it back to the same JSON.                    *)
(***************************************************************************)
RequestsAreTerms ==
    /\ request.payload = External(TermOf(request.json), FALSE)
    /\ Payload(request.payload) = request.json
=============================================================================
