--------------------------- MODULE CertExtensions ---------------------------
(***************************************************************************)
(* The extensions of a certificate, written by the CA (cert_minter.py, DER *)
(* by hand) and read by msshd (policy.py, another hand-written DER) and by *)
(* the shim, which refuses a certificate with a critical extension that it *)
(* does not know.  The writer and the readers share no code and no table.  *)
(*                                                                         *)
(* A byte is a digit of the constant Base, 256 in the code, so that short  *)
(* bodies already need the long form of a length; half of Base stands for  *)
(* 0x80.  A text is a sequence of bytes, one of which is the equals sign.  *)
(***************************************************************************)
EXTENDS Integers, Sequences, SequencesExt

CONSTANTS Base,       \* the number of values of a byte
          Text,       \* texts, sequences of bytes: values of custom extensions
          Number,     \* integers an extension may be asked to carry
          FromHex,    \* bytes.fromhex: the texts it takes, and their bytes
          Allowlist,  \* custom_oids of ca-config.yaml: [oid -> entry]
          Grants      \* what authorization certs may be asked to carry

ASSUME BaseAssumption == Base \in Nat /\ Base > 3 /\ Base % 2 = 0

\* What the callers pass: texts, sets and maps of texts, integers.
ASSUME AskedAssumption ==
  /\ Text \subseteq Seq(Nat) /\ Number \subseteq Int
  /\ FromHex \in [DOMAIN FromHex -> Seq(Nat)]
ASSUME GrantsAssumption ==
  \A g \in Grants :
    /\ {g.source, g.server, g.command} \cup g.channels \subseteq Seq(Nat)
    /\ IsFiniteSet(g.channels) /\ IsFiniteSet(DOMAIN g.environment)
    /\ DOMAIN g.environment \subseteq Seq(Nat)
    /\ g.environment \in [DOMAIN g.environment -> Seq(Nat)]
    /\ g.limit \in Int /\ g.bypass \in BOOLEAN

Half == Base \div 2
Equals == 1          \* the byte of "="
Utf8Tag == 12
SequenceTag == 48
IntegerTag == 2
NullTag == 5
OctetTag == 4
PrintableTag == 19
Empty == << >>
NoLimit == -1        \* max_session_seconds is None
Unencodable == <<-1>>   \* the encoder raised IndexError

VARIABLES grant,   \* what the last authorization cert was minted from
          cert,    \* the extensions of the last cert, in order
          custom,  \* what the last external-use cert was asked to carry
          answer   \* the status of the last mint
extensionVars == <<grant, cert, custom, answer>>

-----------------------------------------------------------------------------
(* The writer. *)

\* The bytes of a number, the highest first.
Digits(n) == LET D[m \in 0 .. n] ==
                   IF m = 0 THEN Empty ELSE Append(D[m \div Base], m % Base)
             IN D[n]

\* _der_tag: a length below 0x80 is a byte of its own, a longer one is
\* preceded by 0x80 and the number of its bytes.
DerTag(tag, body) ==
  LET n == Len(body)
  IN <<tag>> \o (IF n < Half THEN <<n>>
                 ELSE <<Half + Len(Digits(n))>> \o Digits(n)) \o body

DerUtf8(text) == DerTag(Utf8Tag, text)

DerSequence(texts) ==
  DerTag(SequenceTag, FlattenSeq([i \in DOMAIN texts |-> DerUtf8(texts[i])]))

\* _der_int: a zero byte keeps the top bit of a positive number clear; a
\* negative number leaves the body empty and body[0] raises.
DerInt(n) ==
  IF n < 0 THEN Unencodable
  ELSE DerTag(IntegerTag,
         IF n = 0 THEN <<0>>
         ELSE IF Digits(n)[1] >= Half THEN <<0>> \o Digits(n) ELSE Digits(n))

DerNull == DerTag(NullTag, Empty)

-----------------------------------------------------------------------------
(* The reader of msshd. *)

Slice(buf, pos, length) ==
  SubSeq(buf, pos, IF pos + length - 1 > Len(buf) THEN Len(buf)
                   ELSE pos + length - 1)

Unsigned(bytes) == LET Value[k \in 0 .. Len(bytes)] ==
                         IF k = 0 THEN 0 ELSE Value[k - 1] * Base + bytes[k]
                   IN Value[Len(bytes)]

\* A slip: a length in the long form is taken to have two bytes.
ReadLenTwo(buf, pos) ==
  IF buf[pos] < Half THEN [length |-> buf[pos], next |-> pos + 1]
  ELSE [length |-> Unsigned(Slice(buf, pos + 1, 2)), next |-> pos + 3]

\* _read_len: the length at pos and the position after it.
ReadLen(buf, pos) ==
  IF buf[pos] < Half THEN [length |-> buf[pos], next |-> pos + 1]
  ELSE LET n == buf[pos] - Half
       IN [length |-> Unsigned(Slice(buf, pos + 1, n)), next |-> pos + 1 + n]

DecodeUtf8(buf) ==
  IF buf = Empty \/ buf[1] # Utf8Tag THEN Empty
  ELSE LET at == ReadLen(buf, 2) IN Slice(buf, at.next, at.length)

\* _decode_der_seq_utf8: a turn of the loop reads one member; the loop ends
\* before it has taken as many turns as there are bytes.
MemberRead(buf, end, loop) ==
  IF loop.pos >= end \/ buf[loop.pos] # Utf8Tag THEN loop
  ELSE LET one == ReadLen(buf, loop.pos + 1)
       IN [pos |-> one.next + one.length,
           out |-> Append(loop.out, Slice(buf, one.next, one.length))]

DecodeSequence(buf) ==
  IF buf = Empty \/ buf[1] # SequenceTag THEN Empty
  ELSE LET at == ReadLen(buf, 2)
           Loop[k \in 0 .. Len(buf)] ==
             IF k = 0 THEN [pos |-> at.next, out |-> Empty]
             ELSE MemberRead(buf, at.next + at.length, Loop[k - 1])
       IN Loop[Len(buf)].out

\* _decode_der_integer: big-endian two's complement.
Power(n) == FoldLeft(LAMBDA acc, i : acc * Base, 1, [i \in 1 .. n |-> i])

DecodeInteger(buf) ==
  IF buf = Empty \/ buf[1] # IntegerTag THEN NoLimit
  ELSE LET at   == ReadLen(buf, 2)
           body == Slice(buf, at.next, at.length)
       IN IF body = Empty THEN 0
          ELSE IF body[1] < Half THEN Unsigned(body)
          ELSE Unsigned(body) - Power(Len(body))

-----------------------------------------------------------------------------
(* The certificate. *)

Ext(oid, critical, value) ==
  [oid |-> oid, critical |-> critical, value |-> value]

When(condition, ext) == IF condition THEN <<ext>> ELSE Empty

OwnCritical ==
  {"source-bind", "server-bind", "channel-policy", "force-command",
   "environment", "ca-bypass"}
KnownCritical ==
  OwnCritical \cup {"basicConstraints", "keyUsage", "extendedKeyUsage"}

\* The entries "k=v" of an environment.
Entries(environment) ==
  LET keys == SetToSeq(DOMAIN environment)
  IN [i \in DOMAIN keys |->
        keys[i] \o <<Equals>> \o environment[keys[i]]]

\* mint_authorization_cert: an empty command, no environment and no limit
\* leave their extensions out.  Left out here: the identifiers of the two keys,
\* the address of the CRL and the evidence of a second factor, none of them
\* critical and none of them read by msshd or the shim.
AuthorizationExtensions(g) ==
  <<Ext("basicConstraints", TRUE, Empty), Ext("keyUsage", TRUE, Empty),
    Ext("extendedKeyUsage", TRUE, Empty),
    Ext("source-bind", TRUE, DerUtf8(g.source)),
    Ext("server-bind", TRUE, DerUtf8(g.server)),
    Ext("channel-policy", TRUE, DerSequence(SetToSeq(g.channels))),
    Ext("subjectAltName", FALSE, Empty)>>
  \o When(g.command # Empty,
          Ext("force-command", TRUE, DerUtf8(g.command)))
  \o When(DOMAIN g.environment # {},
          Ext("environment", TRUE, DerSequence(Entries(g.environment))))
  \o When(g.limit # NoLimit, Ext("max-session", FALSE, DerInt(g.limit)))
  \o When(g.bypass, Ext("ca-bypass", TRUE, DerNull))
  \o <<Ext("kind", FALSE, DerNull)>>

\* The value of an extension, nothing when it is not there.
ValueOf(exts, oid) ==
  LET there == {i \in DOMAIN exts : exts[i].oid = oid}
  IN IF there = {} THEN Empty ELSE exts[CHOOSE i \in there : TRUE].value

\* An entry is split at its first equals sign; one without it is dropped.
SplitEntry(entry) ==
  LET at == CHOOSE i \in DOMAIN entry :
              entry[i] = Equals /\ \A j \in 1 .. i - 1 : entry[j] # Equals
  IN [key |-> SubSeq(entry, 1, at - 1),
      value |-> SubSeq(entry, at + 1, Len(entry))]

ReadEnvironment(entries) ==
  LET split == {SplitEntry(entries[i]) :
                  i \in {j \in DOMAIN entries : Contains(entries[j], Equals)}}
  IN [k \in {s.key : s \in split} |->
        (CHOOSE s \in split : s.key = k).value]

\* parse_cert_policy.
ParsedPolicy(exts) ==
  [source |-> DecodeUtf8(ValueOf(exts, "source-bind")),
   server |-> DecodeUtf8(ValueOf(exts, "server-bind")),
   channels |-> ToSet(DecodeSequence(ValueOf(exts, "channel-policy"))),
   command |-> DecodeUtf8(ValueOf(exts, "force-command")),
   environment |->
     ReadEnvironment(DecodeSequence(ValueOf(exts, "environment"))),
   limit |-> DecodeInteger(ValueOf(exts, "max-session"))]

-----------------------------------------------------------------------------
(* Operator-defined extensions of external-use certificates. *)

\* _check_oid_against_reserved: the OIDs under the project's own arc.  Those of
\* the X.509 standard are not among them.
Reserved(oid) == oid \in OwnCritical \cup {"kind", "max-session"}

\* CustomOIDAllowlist.lookup by oid or by name.
Entry(asked) ==
  {oid \in DOMAIN Allowlist : oid = asked.name \/ Allowlist[oid].name = asked.name}

\* len() of a text counts its characters: the bytes of UTF-8 that do not
\* continue one.  An integer that comes as a text is as long as its decimals.
Characters(text) ==
  Len(SelectSeq(text, LAMBDA byte : byte < Half \/ byte >= Half + Half \div 2))

Decimals(n) ==
  LET Count[m \in Nat] == IF m < 10 THEN 1 ELSE 1 + Count[m \div 10]
  IN IF n < 0 THEN 1 + Count[-n] ELSE Count[n]

Given(asked, entry) ==
  IF entry.encoding = "integer" THEN Decimals(asked.number) ELSE Characters(asked.text)

\* The ValueErrors of attach_custom_extensions: an entry that is not declared or
\* not free, a text (not a number of JSON) longer than max_length, a
\* PrintableString of anything but ASCII.
Refused(asked) ==
  \/ Entry(asked) = {}
  \/ \E oid \in Entry(asked) :
       LET e == Allowlist[oid]
       IN \/ Reserved(oid)
          \/ /\ e.max # NoLimit
             /\ e.encoding # "integer" \/ asked.quoted
             /\ Given(asked, e) > e.max
          \/ e.encoding = "printable" /\ \E i \in DOMAIN asked.text : asked.text[i] >= Half

\* Octets are taken as hex when they read as hex.
Encoded(asked, entry) ==
  CASE entry.encoding = "utf8" -> DerUtf8(asked.text)
    [] entry.encoding = "integer" -> DerInt(asked.number)
    [] entry.encoding = "null" -> DerNull
    [] entry.encoding = "octet" ->
         DerTag(OctetTag, IF asked.text \in DOMAIN FromHex THEN FromHex[asked.text]
                          ELSE asked.text)
    [] entry.encoding = "printable" -> DerTag(PrintableTag, asked.text)

\* What the request says of critical, if anything, overrides the entry.
CustomExtension(asked) ==
  LET oid == CHOOSE o \in Entry(asked) : TRUE
  IN Ext(oid, IF asked.critical = {} THEN Allowlist[oid].critical ELSE TRUE \in asked.critical,
         Encoded(asked, Allowlist[oid]))

ExternalUseExtensions(list) ==
  <<Ext("basicConstraints", TRUE, Empty), Ext("keyUsage", TRUE, Empty),
    Ext("extendedKeyUsage", FALSE, Empty), Ext("kind", FALSE, DerNull)>>
  \o [i \in DOMAIN list |-> CustomExtension(list[i])]

\* add_extension of the x509 library raises for an OID that is already there.
Repeats(exts) ==
  \E i, j \in DOMAIN exts : i # j /\ exts[i].oid = exts[j].oid

-----------------------------------------------------------------------------
NoGrant == [bypass |-> FALSE]

ExtensionsInit ==
  grant = NoGrant /\ cert = Empty /\ custom = Empty /\ answer = 0

\* authorize and bypass_cert_mint; only the second takes a limit, unchecked.
MintAuthorization ==
  /\ answer = 0
  /\ grant' \in Grants
  /\ \/ /\ grant'.limit >= NoLimit
        /\ answer' = 201
        /\ cert' = AuthorizationExtensions(grant')
     \/ /\ grant'.limit < NoLimit
        /\ answer' = 500
        /\ UNCHANGED cert
  /\ UNCHANGED custom

\* What one element of custom_oids may say: the value is a text, or a number
\* where the entry takes one, which may be given as a text too.
AskedOnes ==
  [name : DOMAIN Allowlist \cup {Allowlist[o].name : o \in DOMAIN Allowlist} \cup {"undeclared"},
   text : Text, number : Number, quoted : BOOLEAN, critical : {{}, {TRUE}, {FALSE}}]

\* external_use_cert_mint: the ValueErrors answer 400, any other exception 500.
MintExternalUse ==
  /\ answer = 0
  /\ \E asked \in AskedOnes, twice \in BOOLEAN :
       custom' = IF twice THEN <<asked, asked>> ELSE <<asked>>
  /\ LET refused == \E i \in DOMAIN custom' : Refused(custom'[i])
         raised  == \E i \in DOMAIN custom' :
                      CustomExtension(custom'[i]).value = Unencodable
         exts    == ExternalUseExtensions(custom')
     IN \/ refused /\ answer' = 400 /\ UNCHANGED cert
        \/ ~ refused /\ raised /\ answer' = 500 /\ UNCHANGED cert
        \/ ~ refused /\ ~ raised /\ Repeats(exts)
             /\ answer' = 400 /\ UNCHANGED cert
        \/ ~ refused /\ ~ raised /\ ~ Repeats(exts)
             /\ answer' = 201 /\ cert' = exts
  /\ UNCHANGED grant

ExtensionsNext == MintAuthorization \/ MintExternalUse

ExtensionsSpec == ExtensionsInit /\ [][ExtensionsNext]_extensionVars

-----------------------------------------------------------------------------
(* What both sides must agree on. *)

\* What msshd reads out of an authorization certificate is the grant the CA
\* minted it from, field by field: names, channels, command, environment and
\* limit survive both hand-written codecs at every length of a body.
PolicySurvivesTheCert ==
  (cert # Empty /\ grant # NoGrant)
    => LET read == ParsedPolicy(cert)
       IN /\ read.source = grant.source /\ read.server = grant.server
          /\ read.channels = grant.channels
          /\ read.command = grant.command
          /\ read.limit = grant.limit
          /\ (\A k \in DOMAIN grant.environment : ~ Contains(k, Equals))
               => read.environment = grant.environment

\* The shim and msshd accept every authorization certificate of this CA: it
\* carries no critical extension they do not list, and no extension twice.
CriticalsAreKnown ==
  (cert # Empty /\ grant # NoGrant)
    => /\ \A i \in DOMAIN cert : cert[i].critical => cert[i].oid \in KnownCritical
       /\ ~ Repeats(cert)

\* A custom extension of an external-use certificate is one the operator
\* declared, and carries the text or the number it was asked to carry.
CustomAreDeclared ==
  (cert # Empty /\ custom # Empty)
    => \A i \in 1 .. Len(custom) :
         LET ext == cert[Len(cert) - Len(custom) + i]
         IN /\ ext.oid \in DOMAIN Allowlist /\ ~ Reserved(ext.oid)
            /\ Allowlist[ext.oid].encoding = "utf8"
                 => DecodeUtf8(ext.value) = custom[i].text
            /\ Allowlist[ext.oid].encoding = "integer"
                 => DecodeInteger(ext.value) = custom[i].number

\* The comment of config.py:112 claims that max_length counts "bytes".  It is
\* compared with the characters of a text, which may take several bytes each.
MaxLengthIsInBytes ==
  (cert # Empty /\ custom # Empty)
    => \A i \in DOMAIN cert : \A oid \in DOMAIN Allowlist :
         (cert[i].oid = oid /\ Allowlist[oid].encoding = "utf8" /\ Allowlist[oid].max # NoLimit)
           => Len(DecodeUtf8(cert[i].value)) <= Allowlist[oid].max

\* What the CA writes is what the other side reads.
CertsAreReadAsWritten == PolicySurvivesTheCert /\ CriticalsAreKnown /\ CustomAreDeclared
=============================================================================
