----------------------------- MODULE DeviceInfo -----------------------------
(***************************************************************************)
(* authenticatorGetInfo: what cbor.c and info.c make of the reply, and the *)
(* flags dev.c keeps of it.  A CBOR item is a record of its type and what  *)
(* is in it: a sequence of items for an array, of [key, val] pairs for a   *)
(* map.  There are no variables here.                                      *)
(***************************************************************************)
EXTENDS Naturals, Sequences

Item(type, is) == [type |-> type, is |-> is]
Uint(n)    == Item("uint", n)
Bool(b)    == Item("bool", b)
String(s)  == Item("string", s)
Bytes(n)   == Item("bytes", n)        \* n of them, whatever they are
Array(a)   == Item("array", a)
Map(m)     == Item("map", m)
Pair(k, v) == [key |-> k, val |-> v]

\* Names that are used as keys, shorter before longer, then in byte order.
Names == <<"uv", "alg", "type", "credMgmt", "bioEnroll", "clientPin",
           "pinUvAuthToken", "credentialMgmtPreview">>

Rank(s) == CHOOSE i \in DOMAIN Names : Names[i] = s

-----------------------------------------------------------------------------
(* cbor.c                                                                  *)

\* ctap_check_cbor: unsigned integers before strings, each in ascending order.
Precedes(a, b) ==
  \/ a.type = "uint" /\ b.type = "string"
  \/ a.type = "uint" /\ b.type = "uint" /\ a.is < b.is
  \/ a.type = "string" /\ b.type = "string" /\ Rank(a.is) < Rank(b.is)

\* cbor_map_iter and cbor_array_iter go on while their function takes the entries.
Entries(item) == {item.is[i] : i \in DOMAIN item.is}

MapIter(item) ==
  item.type = "map" /\ \A i \in DOMAIN item.is : i > 1 => Precedes(item.is[i - 1].key, item.is[i].key)

ArrayIter(item) == item.type = "array"

\* cbor_parse_reply: the status FIDO_OK, and nothing but a map after it.
ParseReply(reply) == reply.status = "ok" /\ MapIter(reply.item)

-----------------------------------------------------------------------------
(* info.c                                                                  *)

IsUint(item)   == item.type = "uint"
IsString(item) == item.type = "string"

\* decode_algorithm_entry.
AlgorithmEntry(p) ==
  p.key.type = "string" => /\ p.key.is = "alg" => p.val.type = "negint"
                           /\ p.key.is = "type" => IsString(p.val)

DecodesStrings(val)    == ArrayIter(val) /\ \A s \in Entries(val) : IsString(s)
DecodesProtocols(val)  == ArrayIter(val) /\ \A n \in Entries(val) : IsUint(n)
DecodesAlgorithm(val)  == MapIter(val) /\ \A p \in Entries(val) : AlgorithmEntry(p)
DecodesAlgorithms(val) == ArrayIter(val) /\ \A a \in Entries(val) : DecodesAlgorithm(a)
\* Options that are not true or false, certifications that are not numbers,
\* and names that are not strings are left out.
DecodesOptions(val) == MapIter(val)
DecodesCerts(val)   == MapIter(val)

\* parse_reply_element.
ParseReplyElement(p) ==
  (p.key.type = "uint") =>
    CASE p.key.is \in {1, 2, 9} -> DecodesStrings(p.val)
      [] p.key.is = 3 -> p.val = Bytes(16)
      [] p.key.is = 4 -> DecodesOptions(p.val)
      [] p.key.is = 6 -> DecodesProtocols(p.val)
      [] p.key.is = 10 -> DecodesAlgorithms(p.val)
      [] p.key.is = 12 -> p.val.type = "bool"
      [] p.key.is = 19 -> DecodesCerts(p.val)
      [] p.key.is \in {5, 7, 8, 11, 20} \cup 13 .. 18 -> IsUint(p.val)
      [] OTHER -> TRUE

\* fido_dev_get_cbor_info_rx.
InfoDecodes(reply) == ParseReply(reply) /\ \A p \in Entries(reply.item) : ParseReplyElement(p)

\* What an array of fido_cbor_info_t holds afterwards; fido_cbor_info_reset if
\* the reply has no such entry.
Contents(reply, n) ==
  UNION {Entries(p.val) : p \in {q \in Entries(reply.item) : q.key = Uint(n)}}

OptionIs(reply, name, b) == Pair(String(name), Bool(b)) \in Contents(reply, 4)
HasExtension(reply, name) == String(name) \in Contents(reply, 2)
HasProtocol(reply, n)     == Uint(n) \in Contents(reply, 6)

-----------------------------------------------------------------------------
(* dev.c                                                                   *)

ExtensionFlags(reply) == {f \in {"CRED_PROT"} : HasExtension(reply, "credProtect")}

OptionFlags(reply) ==
  {f \in {"PIN_SET"} : OptionIs(reply, "clientPin", TRUE)} \cup
  {f \in {"PIN_UNSET"} : OptionIs(reply, "clientPin", FALSE)} \cup
  {f \in {"CREDMAN"} : OptionIs(reply, "credMgmt", TRUE)} \cup
  {f \in {"CREDMAN_PRE"} : OptionIs(reply, "credentialMgmtPreview", TRUE)} \cup
  {f \in {"UV_SET"} : OptionIs(reply, "uv", TRUE)} \cup
  {f \in {"UV_UNSET"} : OptionIs(reply, "uv", FALSE)} \cup
  {f \in {"TOKEN_PERMS"} : OptionIs(reply, "pinUvAuthToken", TRUE)} \cup
  {f \in {"BIO_SET"} : OptionIs(reply, "bioEnroll", TRUE)} \cup
  {f \in {"BIO_UNSET"} : OptionIs(reply, "bioEnroll", FALSE)}

ProtocolFlags(reply) ==
  {f \in {"PIN_PROTOCOL1"} : HasProtocol(reply, 1)} \cup
  {f \in {"PIN_PROTOCOL2"} : HasProtocol(reply, 2)}

\* fido_dev_open_rx: a token whose reply is of no use is taken for a U2F token;
\* FALLBACK is FIDO_CAP_CBOR taken off its capabilities.
SetFlags(reply) ==
  IF InfoDecodes(reply) THEN ExtensionFlags(reply) \cup OptionFlags(reply) \cup ProtocolFlags(reply)
  ELSE {"FALLBACK"}

\* fido_dev_get_pin_protocol, fido_dev_is_fido2.
PinProtocol(flags) ==
  CASE "PIN_PROTOCOL2" \in flags -> 2
    [] "PIN_PROTOCOL2" \notin flags /\ "PIN_PROTOCOL1" \in flags -> 1
    [] OTHER -> 0

IsFido2(flags) == "FALLBACK" \notin flags
=============================================================================
