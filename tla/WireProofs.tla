------------------------------ MODULE WireProofs -------------------------------
(***************************************************************************)
(* Proofs about Wire, for any validator, broker and services, any number   *)
(* of messages, and any deployments between them.                          *)
(*                                                                         *)
(* What a broker holds is the encoding of a message that was sent.  A      *)
(* service that extracts something from it has the setting it was encoded  *)
(* with, and gets that message (DeserializeInverts); it does get it if it  *)
(* knows the kind (DeserializeAccepts).                                    *)
(***************************************************************************)
EXTENDS Wire, TLAPS

\* A message that was serialized: nothing reserved in its headers, data that fit.
Serializable(m) == m \in Message /\ VerifyHeaders(m.headers) /\ m.data = "valid"

OnWire(w, m, useTransport) == w = ToBroker(EncodePayload(m, useTransport))

\* The container of m as an application keeps it.
ContainerOf(m) == [EncodePayload(m, FALSE) EXCEPT !.attributes = {}]

\* What is cached was made from the settings of the moment, which passed the check.
Configured ==
    /\ format \in Formats
    /\ broker \in Brokers
    /\ settings \in [Services -> Configs]
    /\ cache \in [Services -> SUBSET Configs]
    /\ \A s \in Services : cache[s] \subseteq {c \in {settings[s]} : CheckSchema(c)}
    /\ deploys \in 0 .. MaxDeploys

WireEncodesSent ==
    \A w \in wire : \E m \in sent, t \in BOOLEAN : Serializable(m) /\ OnWire(w, m, t)

ReceivedWasSent ==
    \A r \in received :
        /\ r \in Receipt
        /\ r.message \in sent
        /\ Serializable(r.message)
        /\ r.context = "caller" \/ (r.context = "continued" <=> Trace \in r.message.headers)

\* A line says what the message it was written for says.
LineOf(l, m) ==
    /\ l.type = m.type
    /\ l.version = m.version
    /\ l.headers = m.headers
    /\ l.data = m.data
    /\ format = "jsonschema" => l.packed

LinesOfSent ==
    \A l \in firehose : l \in Line /\ \E m \in sent : Serializable(m) /\ LineOf(l, m)

ContainersOfSent == \A w \in stored : \E m \in sent : Serializable(m) /\ w = ContainerOf(m)

\* The inductive invariant of the contents.
IInv == /\ Configured
        /\ sent \subseteq Message
        /\ WireEncodesSent
        /\ ReceivedWasSent
        /\ LinesOfSent
        /\ ContainersOfSent

-----------------------------------------------------------------------------
(***************************************************************************)
(* What the broker's form did to a payload is undone: validators/base.py   *)
(* gets the form it produced, and no more attributes than it may ignore.   *)
(***************************************************************************)
LEMMA FormRestored ==
    ASSUME format \in Formats, broker \in Brokers,
           NEW m, VerifyHeaders(m.headers), NEW t \in BOOLEAN,
           NEW v, v = FromBroker(ToBroker(EncodePayload(m, t)))
    PROVE  /\ v.form = PayloadForm
           /\ v.container = ~t
           /\ v.type = m.type /\ v.version = m.version /\ v.data = m.data
           /\ v.headers = IF t THEN {} ELSE m.headers
           /\ v.attributes \ Reserved = m.headers
           /\ "hedwig_schema" \in v.attributes <=> t
<1> DEFINE w == EncodePayload(m, t)
           b == ToBroker(w)
<1>1. /\ w = [container |-> ~t, form |-> PayloadForm, type |-> m.type,
              version |-> m.version, data |-> m.data,
              headers |-> IF t THEN {} ELSE m.headers,
              attributes |-> m.headers \cup (IF t THEN {"hedwig_schema"} ELSE {})]
      /\ "hedwig_encoding" \notin w.attributes
  BY DEF EncodePayload, VerifyHeaders, Reserved
<1>2. /\ w.attributes \ Reserved = m.headers
      /\ "hedwig_schema" \in w.attributes <=> t
  BY <1>1 DEF VerifyHeaders, Reserved
<1>3. CASE w.form = BrokerForm
  <2>1. b = w
    BY <1>3 DEF ToBroker
  <2>2. v = w
    BY <2>1, <1>1 DEF FromBroker
  <2> QED BY <2>2, <1>1, <1>2
<1>4. CASE w.form # BrokerForm
  <2>1. b = [w EXCEPT !.form = BrokerForm, !.attributes = @ \cup {"hedwig_encoding"}]
    BY <1>4 DEF ToBroker
  <2>2. "hedwig_encoding" \in b.attributes
    BY <2>1, <1>1
  <2>3. v = [b EXCEPT !.form = DecodedForm,
                      !.attributes = IF broker = "redis" THEN @ \ {"hedwig_encoding"} ELSE @]
    BY <2>2 DEF FromBroker
  <2>4. DecodedForm = PayloadForm
    BY <1>1, <1>4, FormatsAssumption, BrokersAssumption
       DEF PayloadForm, BrokerForm, DecodedForm
  <2>5. /\ v.form = DecodedForm /\ v.container = w.container
        /\ v.type = w.type /\ v.version = w.version /\ v.data = w.data
        /\ v.headers = w.headers
    BY <2>1, <2>3, <1>1
  <2>6. b.attributes = w.attributes \cup {"hedwig_encoding"}
    BY <2>1, <1>1
  <2>7. v.attributes = IF broker = "redis" THEN b.attributes \ {"hedwig_encoding"}
                       ELSE b.attributes
    BY <2>1, <2>3, <1>1
  <2>8. /\ v.attributes \ Reserved = w.attributes \ Reserved
        /\ "hedwig_schema" \in v.attributes <=> "hedwig_schema" \in w.attributes
    BY <2>6, <2>7 DEF Reserved
  <2> HIDE DEF w, b
  <2> QED BY <2>4, <2>5, <2>8, <1>1, <1>2
<1> QED BY <1>3, <1>4

(***************************************************************************)
(* Whoever deserializes a message from the wire gets the message that was  *)
(* serialized, if anything at all.                                         *)
(***************************************************************************)
LEMMA DeserializeInverts ==
    ASSUME format \in Formats, broker \in Brokers,
           NEW m, Serializable(m), NEW t \in BOOLEAN, NEW w, OnWire(w, m, t),
           NEW c, NEW u \in BOOLEAN, NEW n \in Deserialize(c, FromBroker(w), u)
    PROVE  n = m
<1> DEFINE v == FromBroker(w)
<1>1. /\ v.form = PayloadForm
      /\ v.container = ~t
      /\ v.type = m.type /\ v.version = m.version /\ v.data = m.data
      /\ v.headers = IF t THEN {} ELSE m.headers
      /\ v.attributes \ Reserved = m.headers
      /\ "hedwig_schema" \in v.attributes <=> t
  BY FormRestored DEF Serializable, OnWire
<1>2. Extractable(v, u)
  BY DEF Deserialize
<1>3. u = t
  BY <1>1, <1>2 DEF Extractable
<1>4. MetaHeaders(v, u) = m.headers
  BY <1>1, <1>3 DEF MetaHeaders
<1>5. n = [type |-> m.type, version |-> m.version, headers |-> m.headers, data |-> m.data]
  BY <1>1, <1>4 DEF Deserialize
<1> QED BY <1>5 DEF Serializable, Message

(***************************************************************************)
(* A service with the same setting that knows the kind of a message does   *)
(* deserialize it, whichever minor version it knows.                       *)
(***************************************************************************)
LEMMA DeserializeAccepts ==
    ASSUME format \in Formats, broker \in Brokers,
           NEW m, Serializable(m), NEW t \in BOOLEAN, NEW w, OnWire(w, m, t),
           NEW c, Knows(c, m)
    PROVE  m \in Deserialize(c, FromBroker(w), t)
<1> DEFINE v == FromBroker(w)
<1>1. /\ v.form = PayloadForm
      /\ v.container = ~t
      /\ v.type = m.type /\ v.version = m.version /\ v.data = m.data
      /\ v.headers = IF t THEN {} ELSE m.headers
      /\ v.attributes \ Reserved = m.headers
      /\ "hedwig_schema" \in v.attributes <=> t
  BY FormRestored DEF Serializable, OnWire
<1>2. Extractable(v, t) /\ MetaHeaders(v, t) = m.headers
  BY <1>1 DEF Extractable, MetaHeaders
<1>3. m = [type |-> v.type, version |-> v.version,
           headers |-> MetaHeaders(v, t), data |-> v.data]
  BY <1>1, <1>2 DEF Serializable, Message
<1>4. VerifyHeaders(m.headers) /\ DecodeData(c, m)
  BY DEF Serializable, DecodeData
<1> QED BY <1>2, <1>3, <1>4 DEF Deserialize

-----------------------------------------------------------------------------
(***************************************************************************)
(* What Serialize lets pass is serializable, with its own encoding.        *)
(***************************************************************************)
LEMMA SerializeChecks ==
    ASSUME NEW c, NEW m \in Message, NEW t \in BOOLEAN, NEW w \in Serialize(c, m, t)
    PROVE  Serializable(m) /\ w = EncodePayload(m, t)
<1>1. /\ w = EncodePayload(m, t)
      /\ VerifyHeaders(m.headers)
      /\ Deserialize(c, w, t) # {}
  BY DEF Serialize
<1>2. w.data = m.data
  BY <1>1 DEF EncodePayload
<1>3. PICK n \in Deserialize(c, w, t) : TRUE
  BY <1>1
<1>4. n.data = w.data /\ n.data = "valid"
  BY <1>3 DEF Deserialize, DecodeData
<1> QED BY <1>1, <1>2, <1>4 DEF Serializable

(***************************************************************************)
(* The trace header is an attribute of what was encoded just if it is a    *)
(* header of the message, in a container too.                              *)
(***************************************************************************)
LEMMA TraceOnWire ==
    ASSUME NEW m, NEW t \in BOOLEAN, NEW w, OnWire(w, m, t), NEW k \in ContextOf(w)
    PROVE  k = "continued" <=> Trace \in m.headers
<1> DEFINE e == EncodePayload(m, t)
<1>1. Trace \in e.attributes <=> Trace \in m.headers
  BY TraceAssumption DEF EncodePayload
<1>2. [e EXCEPT !.form = BrokerForm, !.attributes = @ \cup {"hedwig_encoding"}].attributes
        = e.attributes \cup {"hedwig_encoding"}
  BY DEF EncodePayload
<1>3. Trace \in w.attributes <=> Trace \in e.attributes
  <2> HIDE DEF e
  <2> QED BY <1>2, TraceAssumption DEF OnWire, ToBroker, e
<1> QED BY <1>1, <1>3 DEF ContextOf

(***************************************************************************)
(* A container an application kept is read by who knows its kind: nothing  *)
(* of it is in the attributes it has lost.                                 *)
(***************************************************************************)
LEMMA ContainerAccepted ==
    ASSUME NEW m, Serializable(m), NEW c, Knows(c, m)
    PROVE  m \in DeserializeContainerized(c, ContainerOf(m))
<1> DEFINE w == ContainerOf(m)
<1>1. /\ w.container /\ w.form = PayloadForm
      /\ w.type = m.type /\ w.version = m.version /\ w.data = m.data
      /\ w.headers = m.headers
  BY DEF ContainerOf, EncodePayload
<1>2. Extractable(w, FALSE) /\ MetaHeaders(w, FALSE) = m.headers
  BY <1>1 DEF Extractable, MetaHeaders
<1>3. m = [type |-> w.type, version |-> w.version, headers |-> MetaHeaders(w, FALSE),
           data |-> w.data]
  BY <1>1, <1>2 DEF Serializable, Message
<1>4. VerifyHeaders(m.headers) /\ DecodeData(c, m)
  BY DEF Serializable, DecodeData
<1> QED BY <1>2, <1>3, <1>4 DEF Deserialize, DeserializeContainerized

(***************************************************************************)
(* message_attributes raises for what has no attributes in SQS: neither    *)
(* those of transport, nor headers, nor the one for bytes.                 *)
(***************************************************************************)
LEMMA BareHasNoContext ==
    ASSUME format \in Formats, NEW m, NEW t \in BOOLEAN, NEW w, OnWire(w, m, t)
    PROVE  ContextOf(w) = {} <=> Bare(w)
<1> DEFINE e == EncodePayload(m, t)
<1>1. /\ e.container = ~t
      /\ e.form = PayloadForm
      /\ e.headers = IF t THEN {} ELSE m.headers
      /\ e.attributes = m.headers \cup (IF t THEN {"hedwig_schema"} ELSE {})
  BY DEF EncodePayload
<1>2. w = IF e.form = BrokerForm THEN e
          ELSE [e EXCEPT !.form = BrokerForm, !.attributes = @ \cup {"hedwig_encoding"}]
  BY DEF OnWire, ToBroker
<1>3. /\ w.container = ~t
      /\ w.headers = IF t THEN {} ELSE m.headers
      /\ w.attributes = m.headers \cup (IF t THEN {"hedwig_schema"} ELSE {})
                            \cup (IF PayloadForm = BrokerForm THEN {} ELSE {"hedwig_encoding"})
  <2>1. [e EXCEPT !.form = BrokerForm, !.attributes = @ \cup {"hedwig_encoding"}].attributes
          = e.attributes \cup {"hedwig_encoding"}
    BY DEF EncodePayload
  <2>2. /\ [e EXCEPT !.form = BrokerForm, !.attributes = @ \cup {"hedwig_encoding"}].container
             = e.container
        /\ [e EXCEPT !.form = BrokerForm, !.attributes = @ \cup {"hedwig_encoding"}].headers
             = e.headers
    BY DEF EncodePayload
  <2> HIDE DEF e
  <2> QED BY <1>1, <1>2, <2>1, <2>2
<1>4. broker = "sqs" => (PayloadForm = BrokerForm <=> format # "protobuf")
  BY FormatsAssumption DEF PayloadForm, BrokerForm
<1>5. ContextOf(w) = {} <=> broker = "sqs" /\ w.attributes = {}
  BY DEF ContextOf
<1> HIDE DEF e
<1> QED BY <1>3, <1>4, <1>5 DEF Bare

-----------------------------------------------------------------------------
(***************************************************************************)
(* Whatever a service works with was made from the settings of the moment, *)
(* and they are right.                                                     *)
(***************************************************************************)
LEMMA LoadedIsCurrent ==
    ASSUME Configured, NEW s \in Services, NEW c \in Loaded(s)
    PROVE  /\ c = settings[s]
           /\ c \in Configs
           /\ CheckSchema(c)
           /\ c.transport \in BOOLEAN
<1>1. c \in {d \in {settings[s]} : CheckSchema(d)}
  BY DEF Loaded, Configured
<1>2. settings[s] \in Configs
  BY DEF Configured
<1>3. settings[s].transport \in BOOLEAN
  BY <1>2, ConfigsAssumption DEF Config
<1> QED BY <1>1, <1>2, <1>3

LEMMA UseKeepsConfigured ==
    ASSUME Configured, NEW s \in Services, Use(s), UNCHANGED config
    PROVE  Configured'
<1>1. /\ format' = format /\ broker' = broker /\ settings' = settings /\ deploys' = deploys
      /\ cache' = [cache EXCEPT ![s] = Loaded(s)]
  BY DEF Use, config
<1>2. /\ Loaded(s) \in SUBSET Configs
      /\ Loaded(s) \subseteq {c \in {settings[s]} : CheckSchema(c)}
  BY LoadedIsCurrent
<1>3. cache' \in [Services -> SUBSET Configs]
  BY <1>1, <1>2 DEF Configured
<1>4. \A r \in Services : cache'[r] \subseteq {c \in {settings[r]} : CheckSchema(c)}
  BY <1>1, <1>2 DEF Configured
<1>5. \A c : CheckSchema(c)' <=> CheckSchema(c)
  BY <1>1 DEF CheckSchema, SchemasFound
<1> QED BY <1>1, <1>3, <1>4, <1>5 DEF Configured

\* The wire only depends on the choice of validator and broker.
LEMMA OnWireUnchanged ==
    ASSUME UNCHANGED <<format, broker>>, NEW w, NEW m, NEW t
    PROVE  OnWire(w, m, t)' <=> OnWire(w, m, t)
BY DEF OnWire, ToBroker, BrokerForm, EncodePayload, PayloadForm

LEMMA ContainerUnchanged ==
    ASSUME UNCHANGED format, NEW m
    PROVE  ContainerOf(m)' = ContainerOf(m)
BY DEF ContainerOf, EncodePayload, PayloadForm

(***************************************************************************)
(* The parts of IInv about contents hold as long as those, and what was    *)
(* sent, only grow by what fits them.                                      *)
(***************************************************************************)
LEMMA ContentsKeepIInv ==
    ASSUME IInv, Configured', UNCHANGED <<format, broker>>,
           sent \subseteq sent', sent' \subseteq Message,
           \A w \in wire' \ wire :
              \E m \in sent', t \in BOOLEAN : Serializable(m) /\ OnWire(w, m, t),
           \A r \in received' \ received :
              /\ r \in Receipt
              /\ r.message \in sent'
              /\ Serializable(r.message)
              /\ r.context = "caller" \/ (r.context = "continued" <=> Trace \in r.message.headers),
           \A l \in firehose' \ firehose :
              l \in Line /\ \E m \in sent' : Serializable(m) /\ LineOf(l, m),
           \A w \in stored' \ stored : \E m \in sent' : Serializable(m) /\ w = ContainerOf(m)
    PROVE  IInv'
<1> USE DEF IInv
<1>1. \A m : Serializable(m)' <=> Serializable(m)
  BY DEF Serializable, VerifyHeaders
<1>2. WireEncodesSent'
  <2>1. \A w \in wire' : \E m \in sent', t \in BOOLEAN : Serializable(m) /\ OnWire(w, m, t)
    BY DEF WireEncodesSent
  <2> QED BY <1>1, <2>1, OnWireUnchanged DEF WireEncodesSent
<1>3. ReceivedWasSent'
  BY <1>1 DEF ReceivedWasSent
<1>4. LinesOfSent'
  <2>1. \A l, m : LineOf(l, m)' <=> LineOf(l, m)
    BY DEF LineOf
  <2> QED BY <1>1, <2>1 DEF LinesOfSent
<1>5. ContainersOfSent'
  <2>1. \A m : ContainerOf(m)' = ContainerOf(m)
    BY ContainerUnchanged
  <2>2. \A w \in stored' : \E m \in sent' : Serializable(m) /\ w = ContainerOf(m)
    BY DEF ContainersOfSent
  <2> QED BY <1>1, <2>1, <2>2 DEF ContainersOfSent
<1> QED BY <1>2, <1>3, <1>4, <1>5

-----------------------------------------------------------------------------
\* One lemma per action.

LEMMA DeployKeepsIInv ==
    ASSUME IInv, NEW s \in Services, Deploy(s)
    PROVE  IInv'
<1>1. /\ format' = format /\ broker' = broker
      /\ cache' = [cache EXCEPT ![s] = {}]
      /\ UNCHANGED contents
  BY DEF Deploy
<1>2. PICK c \in Configs : settings' = [settings EXCEPT ![s] = c]
  BY DEF Deploy
<1>3. Configured'
  <2>1. \A d : CheckSchema(d)' <=> CheckSchema(d)
    BY <1>1 DEF CheckSchema, SchemasFound
  <2>2. ASSUME NEW r \in Services
        PROVE  cache'[r] \subseteq {d \in {settings'[r]} : CheckSchema(d)}
    BY <1>1, <1>2 DEF IInv, Configured
  <2>3. deploys' \in 0 .. MaxDeploys
    BY BoundsAssumption DEF Deploy, IInv, Configured
  <2> QED BY <1>1, <1>2, <2>1, <2>2, <2>3 DEF IInv, Configured
<1> QED BY <1>1, <1>3, ContentsKeepIInv DEF contents, IInv

LEMMA PublishedIsOnWire ==
    ASSUME Configured, NEW s \in Services, NEW c \in Loaded(s), NEW m \in Message,
           NEW w \in Published(c, m) \cup Mocked(c, m)
    PROVE  Serializable(m) /\ OnWire(w, m, c.transport)
<1>1. PICK v \in Serialize(c, m, c.transport) : w = ToBroker(v)
  BY DEF Published, Mocked
<1>2. c.transport \in BOOLEAN
  BY LoadedIsCurrent
<1> QED BY <1>1, <1>2, SerializeChecks DEF OnWire

LEMMA PublishKeepsIInv ==
    ASSUME IInv, NEW s \in Services, NEW m \in Message, NEW more \in SUBSET Names,
           Publish(s, m, more)
    PROVE  IInv'
<1> DEFINE n == [m EXCEPT !.headers = @ \cup more]
           published == UNION {Published(c, n) : c \in Loaded(s)}
<1>1. /\ Use(s)
      /\ wire' = wire \cup published
      /\ sent' = sent \cup {k \in {n} : published # {}}
      /\ UNCHANGED <<config, firehose, stored, received>>
  BY DEF Publish
<1>2. n \in Message
  BY DEF Message
<1> HIDE DEF n
<1>3. ASSUME NEW w \in wire' \ wire
      PROVE  \E k \in sent', t \in BOOLEAN : Serializable(k) /\ OnWire(w, k, t)
  <2>1. PICK c \in Loaded(s) : w \in Published(c, n)
    BY <1>1, <1>3
  <2>2. Serializable(n) /\ OnWire(w, n, c.transport) /\ c.transport \in BOOLEAN
    BY <1>2, <2>1, PublishedIsOnWire, LoadedIsCurrent DEF IInv
  <2>3. n \in sent'
    BY <1>1, <2>1
  <2> QED BY <2>2, <2>3
<1>4. Configured'
  BY <1>1, UseKeepsConfigured DEF IInv
<1>5. sent' \subseteq Message
  BY <1>1, <1>2 DEF IInv
<1> QED BY <1>1, <1>3, <1>4, <1>5, ContentsKeepIInv DEF config

\* What a callback is called with was encoded into what was delivered.
LEMMA HandledIsSent ==
    ASSUME Configured, NEW s \in Services, NEW c \in Loaded(s), NEW m, Serializable(m),
           NEW t \in BOOLEAN, NEW w, OnWire(w, m, t), NEW n \in Handled(c, w)
    PROVE  n = m
<1>1. n \in Deserialize(c, FromBroker(w), c.transport) /\ c.transport \in BOOLEAN
  BY LoadedIsCurrent DEF Handled, FindByMessage
<1> QED BY <1>1, DeserializeInverts DEF Configured

LEMMA DispatchSyncKeepsIInv ==
    ASSUME IInv, NEW s \in Services, NEW m \in Message, DispatchSync(s, m)
    PROVE  IInv'
<1> DEFINE handled == UNION {HandledSync(c, m) : c \in Loaded(s)}
<1>1. /\ Use(s)
      /\ received' = received \cup
            {[service |-> s, message |-> n, context |-> "caller"] : n \in handled}
      /\ sent' = sent \cup {k \in {m} : handled # {}}
      /\ UNCHANGED <<config, wire, firehose, stored>>
  BY DEF DispatchSync
<1>2. ASSUME NEW n \in handled PROVE n = m /\ Serializable(m)
  <2>1. PICK c \in Loaded(s) : n \in HandledSync(c, m)
    BY <1>2
  <2>2. PICK w \in Mocked(c, m) : n \in Handled(c, w)
    BY <2>1 DEF HandledSync
  <2>3. Serializable(m) /\ OnWire(w, m, c.transport) /\ c.transport \in BOOLEAN
    BY <2>2, PublishedIsOnWire, LoadedIsCurrent DEF IInv
  <2> QED BY <2>2, <2>3, HandledIsSent DEF IInv
<1>3. ASSUME NEW r \in received' \ received
      PROVE  /\ r \in Receipt
             /\ r.message \in sent'
             /\ Serializable(r.message)
             /\ r.context = "caller"
  <2>1. PICK n \in handled : r = [service |-> s, message |-> n, context |-> "caller"]
    BY <1>1, <1>3
  <2>2. n = m /\ Serializable(m) /\ m \in sent'
    BY <1>1, <1>2, <2>1
  <2> QED BY <2>1, <2>2 DEF Receipt
<1>4. Configured'
  BY <1>1, UseKeepsConfigured DEF IInv
<1>5. sent' \subseteq Message
  BY <1>1 DEF IInv
<1> QED BY <1>1, <1>3, <1>4, <1>5, ContentsKeepIInv DEF config

LEMMA ReceiveKeepsIInv ==
    ASSUME IInv, NEW s \in Services, NEW w \in wire, Receive(s, w)
    PROVE  IInv'
<1> DEFINE handled == UNION {Handled(c, w) : c \in Loaded(s)}
<1>1. /\ Use(s)
      /\ received' = received \cup Receipts(s, w)
      /\ UNCHANGED <<config, wire, firehose, stored, sent>>
  BY DEF Receive
<1>2. PICK m \in sent, t \in BOOLEAN : Serializable(m) /\ OnWire(w, m, t)
  BY DEF IInv, WireEncodesSent
<1>3. ASSUME NEW n \in handled PROVE n = m
  BY <1>2, HandledIsSent DEF IInv
<1>4. ASSUME NEW r \in received' \ received
      PROVE  /\ r \in Receipt
             /\ r.message \in sent'
             /\ Serializable(r.message)
             /\ r.context = "continued" <=> Trace \in r.message.headers
  <2>1. PICK n \in handled, k \in ContextOf(w) :
            r = [service |-> s, message |-> n, context |-> k]
    BY <1>1, <1>4 DEF Receipts
  <2>2. n = m /\ Serializable(m) /\ m \in Message /\ r.message = m
    BY <1>2, <1>3, <2>1 DEF Serializable
  <2>3. r \in Receipt
    BY <2>1, <2>2 DEF Receipt, ContextOf
  <2>4. k = "continued" <=> Trace \in m.headers
    BY <1>2, TraceOnWire
  <2> QED BY <1>1, <1>2, <2>1, <2>2, <2>3, <2>4
<1>5. Configured'
  BY <1>1, UseKeepsConfigured DEF IInv
<1> QED BY <1>1, <1>4, <1>5, ContentsKeepIInv DEF config, IInv

LEMMA ReceiveDiesKeepsIInv ==
    ASSUME IInv, NEW s \in Services, NEW w, ReceiveDies(s, w)
    PROVE  IInv'
<1>1. /\ cache' = [cache EXCEPT ![s] = {}]
      /\ UNCHANGED <<config, contents>>
  BY DEF ReceiveDies
<1>2. \A c : CheckSchema(c)' <=> CheckSchema(c)
  BY <1>1 DEF CheckSchema, SchemasFound, config
<1>3. Configured'
  BY <1>1, <1>2 DEF config, IInv, Configured
<1> QED BY <1>1, <1>3, ContentsKeepIInv DEF config, contents, IInv

LEMMA WriteFirehoseKeepsIInv ==
    ASSUME IInv, NEW r \in received, WriteFirehose(r.service, r.message)
    PROVE  IInv'
<1> DEFINE s == r.service
           m == r.message
<1>1. /\ Use(s)
      /\ firehose' = firehose \cup UNION {SerializeFirehose(c, m) : c \in Loaded(s)}
      /\ UNCHANGED <<config, wire, stored, sent, received>>
  BY DEF WriteFirehose
<1>2. s \in Services /\ m \in sent /\ Serializable(m)
  BY DEF IInv, ReceivedWasSent, Receipt
<1>3. ASSUME NEW l \in firehose' \ firehose
      PROVE  l \in Line /\ \E k \in sent' : Serializable(k) /\ LineOf(l, k)
  <2>1. PICK c \in Loaded(s) : l = FirehoseLine(c, m)
    BY <1>1, <1>3 DEF SerializeFirehose
  <2>2. LineOf(l, m)
    BY <2>1 DEF FirehoseLine, LineOf
  <2>3. l \in Line
    BY <1>2, <2>1 DEF FirehoseLine, Line, Serializable, Message, VerifyKnownMinorVersion
  <2> QED BY <1>1, <1>2, <2>2, <2>3
<1>4. Configured'
  BY <1>1, <1>2, UseKeepsConfigured DEF IInv
<1> QED BY <1>1, <1>3, <1>4, ContentsKeepIInv DEF config, IInv

LEMMA StoreContainerKeepsIInv ==
    ASSUME IInv, NEW r \in received, StoreContainer(r.service, r.message)
    PROVE  IInv'
<1> DEFINE s == r.service
           m == r.message
<1>1. /\ Use(s)
      /\ stored' = stored \cup UNION {SerializeContainerized(c, m) : c \in Loaded(s)}
      /\ UNCHANGED <<config, wire, firehose, sent, received>>
  BY DEF StoreContainer
<1>2. s \in Services /\ m \in sent /\ Serializable(m)
  BY DEF IInv, ReceivedWasSent, Receipt
<1>3. ASSUME NEW w \in stored' \ stored
      PROVE  \E k \in sent' : Serializable(k) /\ w = ContainerOf(k)
  <2>1. PICK c \in Loaded(s) : w \in SerializeContainerized(c, m)
    BY <1>1, <1>3
  <2>2. PICK v \in Serialize(c, m, FALSE) : w = [v EXCEPT !.attributes = {}]
    BY <2>1 DEF SerializeContainerized
  <2>3. m \in Message
    BY <1>2 DEF Serializable
  <2>4. v = EncodePayload(m, FALSE)
    BY <2>2, <2>3, SerializeChecks
  <2> QED BY <1>1, <1>2, <2>2, <2>4 DEF ContainerOf
<1>4. Configured'
  BY <1>1, <1>2, UseKeepsConfigured DEF IInv
<1> QED BY <1>1, <1>3, <1>4, ContentsKeepIInv DEF config, IInv

LEMMA StutterKeepsIInv ==
    ASSUME IInv, UNCHANGED vars
    PROVE  IInv'
<1>1. Configured'
  BY DEF IInv, Configured, CheckSchema, SchemasFound, vars, config
<1> QED BY <1>1, ContentsKeepIInv DEF vars, config, contents, IInv

LEMMA InitIInv == Init => IInv
BY BoundsAssumption DEF Init, IInv, Configured, WireEncodesSent, ReceivedWasSent, LinesOfSent,
       ContainersOfSent

LEMMA StepIInv == IInv /\ [Next]_vars => IInv'
<1> SUFFICES ASSUME IInv, [Next]_vars PROVE IInv'
  OBVIOUS
<1>1. ASSUME NEW s \in Services, Deploy(s) PROVE IInv'
  BY <1>1, DeployKeepsIInv
<1>2. ASSUME NEW s \in Services, NEW m \in Message, NEW more \in SUBSET Names,
             Publish(s, m, more)
      PROVE IInv'
  BY <1>2, PublishKeepsIInv
<1>3. ASSUME NEW s \in Services, NEW m \in Message, DispatchSync(s, m) PROVE IInv'
  BY <1>3, DispatchSyncKeepsIInv
<1>4. ASSUME NEW s \in Services, NEW w \in wire, Receive(s, w) PROVE IInv'
  BY <1>4, ReceiveKeepsIInv
<1>5. ASSUME NEW s \in Services, NEW w \in wire, ReceiveDies(s, w) PROVE IInv'
  BY <1>5, ReceiveDiesKeepsIInv
<1>6. ASSUME NEW r \in received, WriteFirehose(r.service, r.message) PROVE IInv'
  BY <1>6, WriteFirehoseKeepsIInv
<1>7. ASSUME NEW r \in received, StoreContainer(r.service, r.message) PROVE IInv'
  BY <1>7, StoreContainerKeepsIInv
<1>8. CASE UNCHANGED vars
  BY <1>8, StutterKeepsIInv
<1> QED BY <1>1, <1>2, <1>3, <1>4, <1>5, <1>6, <1>7, <1>8 DEF Next

LEMMA AlwaysIInv == Spec => []IInv
BY InitIInv, StepIInv, PTL DEF Spec

-----------------------------------------------------------------------------
LEMMA EncodedType ==
    ASSUME NEW m \in Message, NEW t \in BOOLEAN
    PROVE  EncodePayload(m, t) \in Encoded
BY DEF EncodePayload, PayloadForm, Encoded, Message, Reserved

(***************************************************************************)
(* Every variable keeps its type; what a service has cached are settings   *)
(* as somebody wrote them, never a mixture (conf/__init__.py:203-223).     *)
(***************************************************************************)
THEOREM WireTypeCorrect == Spec => []TypeOK
<1>1. ASSUME IInv PROVE TypeOK
  <2> USE <1>1 DEF IInv
  <2>1. ASSUME NEW w \in wire PROVE w \in Encoded
    <3>1. PICK m \in Message, t \in BOOLEAN : OnWire(w, m, t)
      BY DEF WireEncodesSent
    <3>2. BrokerForm \in {"str", "bytes"} /\ "hedwig_encoding" \in Reserved
      BY DEF BrokerForm, Reserved
    <3> QED BY <3>1, <3>2, EncodedType DEF OnWire, ToBroker, Encoded
  <2>2. ASSUME NEW w \in stored PROVE w \in Encoded
    <3>1. PICK m \in Message : w = ContainerOf(m)
      BY DEF ContainersOfSent
    <3>2. EncodePayload(m, FALSE) \in Encoded
      BY EncodedType
    <3> QED BY <3>1, <3>2 DEF ContainerOf, Encoded
  <2>3. firehose \subseteq Line /\ received \subseteq Receipt
    BY DEF LinesOfSent, ReceivedWasSent
  <2> QED BY <2>1, <2>2, <2>3 DEF TypeOK, Configured
<1> QED BY <1>1, AlwaysIInv, PTL

(***************************************************************************)
(* A callback gets the message its publisher sent, whatever was deployed   *)
(* in between and whichever broker carried it (validators/base.py:99-143). *)
(***************************************************************************)
THEOREM WhatArrivesWasSent == Spec => []MessagesArriveAsSent
<1>1. IInv => MessagesArriveAsSent
  BY DEF IInv, ReceivedWasSent, MessagesArriveAsSent
<1> QED BY <1>1, AlwaysIInv, PTL

(***************************************************************************)
(* The span around a callback continues the publisher's trace just if the  *)
(* message has the trace header (instrumentation/__init__.py:13-24).       *)
(***************************************************************************)
THEOREM TracesContinue == Spec => []TraceContinues
<1>1. IInv => TraceContinues
  BY DEF IInv, ReceivedWasSent, TraceContinues
<1> QED BY <1>1, AlwaysIInv, PTL

(***************************************************************************)
(* What one service's check lets pass (validators/base.py:213) gets to the *)
(* callback of every service with the same setting and a callback for it,  *)
(* just if it is not a message that ends the listeners of SQS              *)
(* (backends/aws.py:274).                                                  *)
(***************************************************************************)
THEOREM WhatIsPublishedIsAccepted == Spec => []PublishedIsAccepted
<1>1. ASSUME IInv PROVE PublishedIsAccepted
  <2> USE <1>1 DEF IInv
  <2> SUFFICES ASSUME NEW w \in wire, NEW s \in Services,
                      CheckSchema(settings[s]),
                      w.container = ~settings[s].transport,
                      KindOf(w) \in settings[s].callbacks
               PROVE  Receipts(s, w) # {} <=> ~Bare(w)
    BY DEF PublishedIsAccepted
  <2> DEFINE c == settings[s]
  <2>1. PICK m \in sent, t \in BOOLEAN : Serializable(m) /\ OnWire(w, m, t)
    BY DEF WireEncodesSent
  <2>2. w.container = ~t /\ KindOf(w) = KindOf(m)
    BY <2>1 DEF OnWire, ToBroker, EncodePayload, KindOf
  <2>3. c \in Loaded(s)
    BY DEF Loaded, Configured
  <2>4. t = c.transport
    BY <2>2, <2>3, LoadedIsCurrent
  <2>5. KindOf(m) \in c.callbacks /\ Knows(c, m)
    BY <2>2 DEF CheckSchema, SchemasFound, Knows
  <2>6. m \in Deserialize(c, FromBroker(w), c.transport)
    BY <2>1, <2>4, <2>5, DeserializeAccepts DEF Configured
  <2>7. m \in Handled(c, w)
    BY <2>5, <2>6 DEF Handled, FindByMessage
  <2>8. ContextOf(w) = {} <=> Bare(w)
    BY <2>1, BareHasNoContext DEF Configured
  <2>9. Receipts(s, w) # {} <=> ContextOf(w) # {}
    <3>1. ASSUME NEW k \in ContextOf(w)
          PROVE  [service |-> s, message |-> m, context |-> k] \in Receipts(s, w)
      BY <2>3, <2>7 DEF Receipts
    <3>2. ContextOf(w) = {} => Receipts(s, w) = {}
      BY DEF Receipts
    <3> QED BY <3>1, <3>2
  <2> QED BY <2>8, <2>9
<1> QED BY <1>1, AlwaysIInv, PTL

(***************************************************************************)
(* Received messages can be written to firehose files, and are read back   *)
(* by everybody who knows their major version (validators/base.py:154-181).*)
(***************************************************************************)
THEOREM FirehoseCanBeRead == Spec => []FirehoseKeepsMessages
<1>1. ASSUME IInv PROVE FirehoseKeepsMessages
  <2> USE <1>1 DEF IInv
  <2> SUFFICES ASSUME format # "protobufjson"
               PROVE  /\ \A r \in received : \A c \in Loaded(r.service) :
                            Knows(c, r.message) => SerializeFirehose(c, r.message) # {}
                      /\ \A l \in firehose, s \in Services : \A c \in Loaded(s) :
                            Knows(c, l) => \E m \in DeserializeFirehose(c, l) : m \in sent
    BY DEF FirehoseKeepsMessages
  <2>1. ASSUME NEW l, NEW m, Serializable(m), LineOf(l, m), NEW c, Knows(c, l)
        PROVE  m \in DeserializeFirehose(c, l)
    <3>1. l.packed \/ format = "protobuf"
      BY <2>1, FormatsAssumption DEF LineOf, Configured
    <3>2. m = [type |-> l.type, version |-> l.version, headers |-> l.headers,
               data |-> l.data]
      BY <2>1 DEF LineOf, Serializable, Message
    <3>3. DecodeData(c, m)
      BY <2>1 DEF DecodeData, Serializable, Knows, KindOf, LineOf
    <3> QED BY <3>1, <3>2, <3>3 DEF DeserializeFirehose, FirehoseExtractable
  <2>2. ASSUME NEW r \in received, NEW c \in Loaded(r.service), Knows(c, r.message)
        PROVE  SerializeFirehose(c, r.message) # {}
    <3>1. Serializable(r.message)
      BY DEF ReceivedWasSent
    <3>2. LineOf(FirehoseLine(c, r.message), r.message)
      BY DEF FirehoseLine, LineOf
    <3>3. Knows(c, FirehoseLine(c, r.message))
      BY <2>2 DEF FirehoseLine, Knows, KindOf
    <3> QED BY <2>1, <3>1, <3>2, <3>3 DEF SerializeFirehose
  <2>3. ASSUME NEW l \in firehose, NEW c, Knows(c, l)
        PROVE  \E m \in DeserializeFirehose(c, l) : m \in sent
    <3>1. PICK m \in sent : Serializable(m) /\ LineOf(l, m)
      BY DEF LinesOfSent
    <3> QED BY <2>1, <2>3, <3>1
  <2> QED BY <2>2, <2>3
<1> QED BY <1>1, AlwaysIInv, PTL

(***************************************************************************)
(* Stored containers are read back by every service that knows their kind, *)
(* whatever its setting (validators/base.py:145-152, 223-229).             *)
(***************************************************************************)
THEOREM ContainersCanBeRead == Spec => []ContainersReadable
<1>1. ASSUME IInv PROVE ContainersReadable
  <2> USE <1>1 DEF IInv
  <2> SUFFICES ASSUME NEW w \in stored, NEW c, Knows(c, w)
               PROVE  \E m \in DeserializeContainerized(c, w) : m \in sent
    BY DEF ContainersReadable
  <2>1. PICK m \in sent : Serializable(m) /\ w = ContainerOf(m)
    BY DEF ContainersOfSent
  <2>2. Knows(c, m)
    BY <2>1 DEF Knows, KindOf, ContainerOf, EncodePayload
  <2> QED BY <2>1, <2>2, ContainerAccepted
<1> QED BY <1>1, AlwaysIInv, PTL

(***************************************************************************)
(* Callbacks are those of the settings of the moment, and those passed     *)
(* their check: clear_cache leaves nothing behind (conf/__init__.py:203).  *)
(***************************************************************************)
THEOREM CallbacksAreCurrent == Spec => HandledUnderCurrentSettings
<1> DEFINE Current ==
      \A r \in received' \ received :
          /\ CheckSchema(settings[r.service])
          /\ KindOf(r.message) \in settings[r.service].callbacks
<1>1. IInv /\ [Next]_vars => [Current]_vars
  <2> SUFFICES ASSUME IInv, Next PROVE Current
    OBVIOUS
  <2>1. ASSUME NEW s \in Services, NEW c \in Loaded(s), NEW w, NEW n \in Handled(c, w)
        PROVE  CheckSchema(settings[s]) /\ KindOf(n) \in settings[s].callbacks
    BY <2>1, LoadedIsCurrent DEF Handled, FindByMessage, IInv
  <2>2. CASE \E s \in Services : Deploy(s)
    BY <2>2 DEF Deploy, contents
  <2>3. CASE \E s \in Services : \E m \in Message, more \in SUBSET Names : Publish(s, m, more)
    BY <2>3 DEF Publish
  <2>4. ASSUME NEW s \in Services, NEW m \in Message, DispatchSync(s, m) PROVE Current
    BY <2>1, <2>4 DEF DispatchSync, HandledSync
  <2>5. ASSUME NEW s \in Services, NEW w \in wire, Receive(s, w) PROVE Current
    BY <2>1, <2>5 DEF Receive, Receipts
  <2>6. CASE \E s \in Services, w \in wire : ReceiveDies(s, w)
    BY <2>6 DEF ReceiveDies, contents
  <2>7. CASE \E r \in received : \/ WriteFirehose(r.service, r.message)
                                 \/ StoreContainer(r.service, r.message)
    BY <2>7 DEF WriteFirehose, StoreContainer
  <2> HIDE DEF Current
  <2> QED BY <2>2, <2>3, <2>4, <2>5, <2>6, <2>7 DEF Next
<1> QED BY <1>1, AlwaysIInv, PTL DEF Spec, HandledUnderCurrentSettings
=============================================================================
