----------------------------- MODULE WireFormat -----------------------------
(***************************************************************************)
(* JSON values, catalog schemas and the classic.v1 envelope as operators:  *)
(* sdk/typescript/src/wire.ts, validation.ts, envelope.ts and the          *)
(* generated envelope descriptor.                                          *)
(*                                                                         *)
(* A JavaScript value is a tuple that starts with its kind:                *)
(*    <<"null">>  <<"bool">>  <<"str", text>>  <<"int", n>> (a safe one)   *)
(*    <<"frac">>  a finite number that is not an integer                   *)
(*    <<"huge">>  an integer outside the safe range                        *)
(*    <<"nan">>   NaN, an infinity or -0: no JSON text stands for it       *)
(*    <<"undef">> undefined, a function, a bigint: no JSON value at all    *)
(*    <<"arr", sequence>>   <<"obj", function from names to values>>       *)
(* Field order, sparse arrays, prototypes, accessors and cycles are left   *)
(* out: each of them only adds to what the encoder refuses.                *)
(***************************************************************************)
EXTENDS Integers, Sequences, TLC

Null == <<"null">>
Undefined == <<"undef">>
S(text) == <<"str", text>>
I(n) == <<"int", n>>
Arr(items) == <<"arr", items>>
Obj(fields) == <<"obj", fields>>
Kind(v) == v[1]
NoFields == [n \in {} |-> Null]
EmptyObject == Obj(NoFields)

(* The field `n' of an object, undefined when it has none.                 *)
Field(o, n) == IF n \in DOMAIN o[2] THEN o[2][n] ELSE Undefined

-----------------------------------------------------------------------------
(* wire.ts: what encodeValue writes and decodeWireJson reads back.  Both   *)
(* refuse a number that is not safe; neither rounds or coerces one.        *)

RECURSIVE EncodeValue(_)
EncodeValue(v) ==
  CASE Kind(v) = "arr" -> \A i \in DOMAIN v[2] : EncodeValue(v[2][i])
    [] Kind(v) = "obj" -> \A n \in DOMAIN v[2] : EncodeValue(v[2][n])
    [] OTHER -> Kind(v) \notin {"huge", "nan", "undef"}

(* A text that is not JSON, or repeats a key, is the value <<"undef">>.    *)
DecodeWireJson(v) == EncodeValue(v)

-----------------------------------------------------------------------------
(* Schemas.  `type: [T, "null"]' and `anyOf: [T, null]' are both OrNull(T);*)
(* a $ref is the schema it names.                                          *)

Str == [type |-> "string", nonEmpty |-> FALSE]
Text == [type |-> "string", nonEmpty |-> TRUE]
SafeInt == [type |-> "integer", minimum |-> {}, nonzero |-> FALSE]
Count == [type |-> "integer", minimum |-> {0}, nonzero |-> FALSE]
Stamp == [type |-> "integer", minimum |-> {}, nonzero |-> TRUE]
Num == [type |-> "number"]
AnyJson == [type |-> "any"]
OrNull(s) == [type |-> "nullable", of |-> s]
List(s) == [type |-> "array", items |-> s]
Open == [type |-> "object", props |-> NoFields, required |-> {}, open |-> TRUE, order |-> {}]
Ordered(required, optional, order) ==
  [type |-> "object", props |-> required @@ optional,
   required |-> DOMAIN required, open |-> FALSE, order |-> order]
Struct(required, optional) == Ordered(required, optional, {})

AcceptsNull(s) == s.type = "nullable"
NonNullSchema(s) == IF s.type = "nullable" THEN s.of ELSE s

ValidateAny(v) == EncodeValue(v)

(* validateAt reports no issue.  A member of an open map is not looked at. *)
RECURSIVE ValidateAt(_, _)
ValidateAt(v, schema) ==
  \/ v = Null /\ AcceptsNull(schema)
  \/ LET s == NonNullSchema(schema) IN
     CASE s.type = "string" -> Kind(v) = "str" /\ (s.nonEmpty => v[2] # "")
       [] s.type = "integer" -> /\ Kind(v) = "int"
                                /\ \A m \in s.minimum : v[2] >= m
                                /\ s.nonzero => v[2] # 0
       [] s.type = "number" -> Kind(v) \in {"int", "frac", "huge"}
       [] s.type = "array" -> /\ Kind(v) = "arr"
                              /\ \A i \in DOMAIN v[2] : ValidateAt(v[2][i], s.items)
       [] s.type = "object" ->
            /\ Kind(v) = "obj"
            /\ s.required \subseteq DOMAIN v[2]
            /\ \A n \in DOMAIN s.props \cap DOMAIN v[2] : ValidateAt(v[2][n], s.props[n])
            /\ \A p \in s.order : v[2][p[1]][2] <= v[2][p[2]][2]
       [] s.type = "any" -> ValidateAny(v)

(* What is sent of a valid value: the declared fields it has, every member *)
(* of an open map, nothing of an object that declares no field.            *)
RECURSIVE SerializeAt(_, _)
SerializeAt(v, schema) ==
  LET s == NonNullSchema(schema) IN
  CASE v = Null -> Null
    [] v # Null /\ s.type = "array" ->
         Arr([i \in DOMAIN v[2] |-> SerializeAt(v[2][i], s.items)])
    [] v # Null /\ s.type = "object" ->
         IF s.open THEN v
         ELSE Obj([n \in DOMAIN s.props \cap DOMAIN v[2] |-> SerializeAt(v[2][n], s.props[n])])
    [] OTHER -> v

-----------------------------------------------------------------------------
(* The envelope.  A frame is [kind, id, name, payload, error]; `id' of a   *)
(* response is its correlation id, an absent payload or error is undefined *)
(* and an error is the object of its code, message and data, if any.       *)

Request(id, method, params) ==
  [kind |-> "request", id |-> id, name |-> method, payload |-> params, error |-> Undefined]
Event(id, event, data) ==
  [kind |-> "event", id |-> id, name |-> event, payload |-> data, error |-> Undefined]
Response(id, result, error) ==
  [kind |-> "response", id |-> id, name |-> "", payload |-> result, error |-> error]
BadFrame ==
  [kind |-> "bad", id |-> "", name |-> "", payload |-> Undefined, error |-> Undefined]
WireError(code, message) == Obj(("code" :> I(code)) @@ ("message" :> S(message)))

(* pushOptional: the payload and the error of classic.v1 are left out when *)
(* there is none.                                                          *)
Optional(name, v) == IF v = Undefined THEN NoFields ELSE name :> v

NonEmptyString(o, n) == Kind(Field(o, n)) = "str" /\ Field(o, n)[2] # ""

ErrorCarries(e) ==
  /\ Kind(e) = "obj"
  /\ Kind(Field(e, "code")) = "int" /\ Field(e, "code")[2] # 0
  /\ NonEmptyString(e, "message")

(* classic.v1: the constant field and, for each kind of frame, the names   *)
(* of its fields.  DecodeFrame tries the kinds in the order of `frames'.   *)
Classic ==
  [constants |-> "version" :> S("1"),
   frames |-> <<"event", "request", "response">>,
   discriminator |-> [event |-> "event", request |-> "method", response |-> "response"],
   payload |-> [event |-> "data", request |-> "params", response |-> "result"]]

(* encode: the object written, undefined when it throws.                   *)
EncodeFrame(f) ==
  LET discriminator == IF f.kind = "response" THEN f.id ELSE f.name
      object == Obj(Classic.constants
                    @@ (Classic.discriminator[f.kind] :> S(discriminator))
                    @@ (IF f.kind = "response" THEN Optional("error", f.error) ELSE "id" :> S(f.id))
                    @@ Optional(Classic.payload[f.kind], f.payload))
  IN IF /\ f.id # "" /\ discriminator # ""
        /\ f.error = Undefined \/ ErrorCarries(f.error)
        /\ EncodeValue(object)
     THEN object ELSE Undefined

(* decode: BadFrame stands for the exceptions it throws.                   *)
DecodeFrame(bytes) ==
  LET Tag(k) == Classic.discriminator[k]
      present == SelectSeq(Classic.frames, LAMBDA k : NonEmptyString(bytes, Tag(k)))
      kind == Head(present)
      payload == Field(bytes, Classic.payload[kind])
      error == IF Field(bytes, "error") = Null THEN Undefined ELSE Field(bytes, "error")
      name == Field(bytes, Tag(kind))[2]
  IN IF \/ ~DecodeWireJson(bytes) \/ Kind(bytes) # "obj"
        \/ \E n \in DOMAIN Classic.constants : Field(bytes, n) # Classic.constants[n]
        \/ present = <<>>
     THEN BadFrame
     ELSE IF kind = "response"
          THEN IF error = Undefined \/ ErrorCarries(error)
               THEN Response(name, payload, error) ELSE BadFrame
          ELSE IF NonEmptyString(bytes, "id")
               THEN IF kind = "request" THEN Request(Field(bytes, "id")[2], name, payload)
                                        ELSE Event(Field(bytes, "id")[2], name, payload)
               ELSE BadFrame
=============================================================================
