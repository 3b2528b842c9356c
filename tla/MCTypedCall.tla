---------------------------- MODULE MCTypedCall -----------------------------
(* The values and frames TLC tries with TypedCall.  Each message type has  *)
(* one ordinary value, and every value that differs from it in one place:  *)
(* a field absent, null, of another type or at a boundary, an unknown      *)
(* field, something that is not an object.                                 *)
EXTENDS TypedCall

Strings == {S("x"), S(""), I(1), Null, Undefined}
Numbers == {I(1), I(0), I(-1), <<"frac">>, <<"huge">>, <<"nan">>, S("x"), Null}
Maps == {EmptyObject, Obj("k" :> S("x")), Obj("k" :> Null), Obj("k" :> <<"huge">>),
         Obj("k" :> Arr(<<Undefined>>)), Null, S("x")}

RECURSIVE Ordinary(_)
Ordinary(t) ==
  CASE t.is = "string" -> S("x")
    [] t.is = "number" -> I(1)
    [] t.is \in {"json", "map"} -> Obj("k" :> S("x"))
    [] t.is = "list" -> Arr(<<Ordinary(t.of)>>)
    [] t.is = "orNull" -> Ordinary(t.of)
    [] t.is = "fields" ->
         LET all == t.req @@ t.opt IN Obj([n \in DOMAIN all |-> Ordinary(all[n])])

RECURSIVE Variants(_)
Variants(t) ==
  CASE t.is = "string" -> Strings
    [] t.is = "number" -> Numbers
    [] t.is \in {"json", "map"} -> Maps
    [] t.is = "list" -> {Arr(<<>>), Null, S("x")} \cup {Arr(<<Ordinary(t.of), v>>) : v \in Variants(t.of)}
    [] t.is = "orNull" -> {Null} \cup Variants(t.of)
    [] t.is = "fields" ->
         LET all == t.req @@ t.opt
             base == Ordinary(t)[2]
         IN {Obj(base), EmptyObject, Obj(base @@ ("extra" :> Undefined)), S("x")}
            \cup {Obj([m \in DOMAIN all \ {n} |-> base[m]]) : n \in DOMAIN all}
            \cup UNION {{Obj([base EXCEPT ![n] = v]) : v \in Variants(all[n])} : n \in DOMAIN all}

MCSamples == [type \in DOMAIN Schemas |-> Variants(Interfaces[type])]

(* Requests and events of any name with any sample, and frames that break  *)
(* one rule of the envelope each.                                          *)
Messages == UNION {MCSamples[type] : type \in DOMAIN Schemas}
Plain(fields) == Obj(("version" :> S("1")) @@ fields)
MCRawRequests ==
  {Plain(("id" :> S("7")) @@ ("method" :> S(m)) @@ ("params" :> v)) :
     m \in MethodNames \cup {"unheard.of"}, v \in Messages}
  \cup {Plain(("id" :> S("7")) @@ ("event" :> S(e)) @@ ("data" :> v)) :
          e \in DOMAIN VoiceEvents \cup DOMAIN ApplicationEvents \cup {"unheard.of"}, v \in Messages}
  \cup {Undefined, S("x"), Plain(NoFields),
        Obj(("id" :> S("7")) @@ ("method" :> S("ping"))),
        Plain("method" :> S("ping")),
        Plain(("id" :> S("")) @@ ("method" :> S("ping"))),
        Plain(("id" :> S("7")) @@ ("method" :> S("audio.buffer.clear"))),
        Plain(("id" :> S("7")) @@ ("method" :> S(""))),
        Plain(("id" :> S("7")) @@ ("method" :> S("ping")) @@ ("event" :> S("dtmf"))),
        Plain(("id" :> S("7")) @@ ("method" :> S("ping")) @@ ("response" :> S("1"))),
        Plain(("response" :> S("1")) @@ ("result" :> EmptyObject))}

(* Answers of a peer that is not the SDK.                                  *)
MCRawReplies ==
  {Plain(("response" :> S(CallId)) @@ ("result" :> v)) : v \in Messages}
  \cup {Plain(("response" :> S(CallId)) @@ ("error" :> e)) :
          e \in HandlerErrors \cup {Null, S("x"), Obj("code" :> I(1))}}
  \cup {Plain("response" :> S(CallId)), Plain("response" :> S("other")), Undefined}
=============================================================================
