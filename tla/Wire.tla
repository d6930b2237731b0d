--------------------------------- MODULE Wire ----------------------------------
(***************************************************************************)
(* What becomes of a message between the publisher's Message and the one   *)
(* its callbacks get: the settings and what is made of them at first use   *)
(* and kept, the validators (serialize and deserialize, the container and  *)
(* the transport attributes, schema versions), the change of form each     *)
(* broker needs, the trace context, the look-up of the callback, firehose  *)
(* lines and stored containers.  Services are deployed one by one, so a    *)
(* message may meet other settings than it was published with.             *)
(*                                                                         *)
(* Contents are left out, but for whether data fits the schema of its type *)
(* and major version; every minor version of that schema agrees, as minor  *)
(* changes "must be non-breaking" (docs/usage.rst).  Id, timestamp and     *)
(* publisher travel with the encoded schema.                               *)
(***************************************************************************)
EXTENDS Naturals, FiniteSets

CONSTANTS
    Formats,        \* HEDWIG_DATA_VALIDATOR_CLASS, one for all services:
                    \* "jsonschema", "protobuf" or "protobufjson"
    Brokers,        \* "sqs", "redis" or "pubsub"
    Services,       \* processes that publish and consume
    Types, Majors,  \* message types and major versions there may be
    MaxMinor,       \* bound: the last minor version of each
    Configs,        \* the settings a service may be deployed with
    Names,          \* header names applications and tracing use
    Trace,          \* the one of tracing
    MaxSent,        \* bound: messages published
    MaxDeploys      \* bound: deployments

Kinds == Types \X Majors

\* What services' settings differ in: the schema (type and major version to last
\* minor version), HEDWIG_MESSAGE_ROUTING and HEDWIG_CALLBACKS (types with major
\* versions) and HEDWIG_USE_TRANSPORT_MESSAGE_ATTRIBUTES.
Config == [schema : UNION {[D -> 0 .. MaxMinor] : D \in SUBSET Kinds},
           routing : SUBSET Kinds, callbacks : SUBSET Kinds, transport : BOOLEAN]

ASSUME FormatsAssumption == Formats \subseteq {"jsonschema", "protobuf", "protobufjson"}
ASSUME BrokersAssumption == Brokers \subseteq {"sqs", "redis", "pubsub"}
ASSUME BoundsAssumption == MaxMinor \in Nat /\ MaxSent \in Nat /\ MaxDeploys \in Nat
ASSUME ConfigsAssumption == Configs \subseteq Config
ASSUME TraceAssumption ==
    Trace \in Names \ {"hedwig_schema", "hedwig_encoding", "hedwig_custom"}

VARIABLES
    format, broker, \* the choice of all services
    settings,       \* what the settings module of s says
    cache,          \* the settings that the attributes, the validator and the
                    \* callbacks cached in s were made from, if any were
    wire,           \* messages as the broker stores them
    firehose,       \* lines of firehose files
    stored,         \* containers an application has made of messages
    sent,           \* history: messages handed to the broker
    received,       \* history: messages callbacks were called with, and where
    deploys         \* budget used

config == <<format, broker, settings, deploys>>
contents == <<wire, firehose, stored, sent, received>>
vars == <<config, cache, contents>>

-----------------------------------------------------------------------------
\* Attribute names that begin with hedwig_.  "hedwig_schema" stands for the five
\* of the meta attributes, "hedwig_custom" for any other.
Reserved == {"hedwig_schema", "hedwig_encoding", "hedwig_custom"}

Version == [major : Majors, minor : 0 .. MaxMinor]
Message == [type : Types, version : Version, headers : SUBSET (Names \cup Reserved),
            data : {"valid", "invalid"}]

\* A payload with its attributes.  With transport attributes the schema and the
\* headers are attributes, without they are in the payload, a container; the
\* headers are attributes as well.
Encoded == [container : BOOLEAN, form : {"str", "bytes"}, type : Types,
            version : Version, headers : SUBSET (Names \cup Reserved),
            data : {"valid", "invalid"}, attributes : SUBSET (Names \cup Reserved)]

\* packed: the data in its own type; otherwise binary, in base64.
Line == [type : Types, version : Version, headers : SUBSET (Names \cup Reserved),
         data : {"valid", "invalid"}, packed : BOOLEAN]

\* context: the trace of the callback's span is the publisher's ("continued"), a
\* new one, or with HEDWIG_SYNC whatever the caller's is.
Receipt == [service : Services, message : Message,
            context : {"caller", "new", "continued"}]

KindOf(m) == <<m.type, m.version.major>>
Knows(c, m) == KindOf(m) \in DOMAIN c.schema

TypeOK ==
    /\ format \in Formats
    /\ broker \in Brokers
    /\ settings \in [Services -> Configs]
    /\ \A s \in Services : cache[s] \subseteq Configs
    /\ wire \subseteq Encoded
    /\ firehose \subseteq Line
    /\ stored \subseteq Encoded
    /\ sent \subseteq Message
    /\ received \subseteq Receipt
    /\ deploys \in 0 .. MaxDeploys

Init ==
    /\ format \in Formats
    /\ broker \in Brokers
    /\ settings \in [Services -> Configs]
    /\ cache = [s \in Services |-> {}]
    /\ wire = {}
    /\ firehose = {}
    /\ stored = {}
    /\ sent = {}
    /\ received = {}
    /\ deploys = 0

-----------------------------------------------------------------------------
\* Settings are looked up and the validator is made at the first use, and again at
\* every use as long as the check of the schema raises.  What raises an exception
\* is an empty set in this module, anything else a set of one.

\* There is a schema of everything that has a callback or a route.
SchemasFound(c) == c.callbacks \cup c.routing \subseteq DOMAIN c.schema

\* Of JSON an empty schema is refused as well.
CheckSchema(c) == SchemasFound(c) /\ (format = "jsonschema" => DOMAIN c.schema # {})

Loaded(s) == IF cache[s] # {} THEN cache[s] ELSE {c \in {settings[s]} : CheckSchema(c)}

Use(s) == cache' = [cache EXCEPT ![s] = Loaded(s)]

\* Mutants: settings are cleared, but not the validator or not the callbacks.
DeployKeepingValidator(s) ==
    /\ deploys < MaxDeploys
    /\ deploys' = deploys + 1
    /\ \E c \in Configs :
          /\ settings' = [settings EXCEPT ![s] = c]
          /\ cache' = [cache EXCEPT ![s] = {[c EXCEPT !.schema = k.schema] : k \in @}]
    /\ UNCHANGED <<format, broker, contents>>

DeployKeepingCallbacks(s) ==
    /\ deploys < MaxDeploys
    /\ deploys' = deploys + 1
    /\ \E c \in Configs :
          /\ settings' = [settings EXCEPT ![s] = c]
          /\ cache' = [cache EXCEPT ![s] = {[c EXCEPT !.callbacks = k.callbacks] : k \in @}]
    /\ UNCHANGED <<format, broker, contents>>

\* Service s is started anew, or reconfigured with clear_cache, which also happens
\* when Django overrides a setting.  Nothing is checked.
Deploy(s) ==
    /\ deploys < MaxDeploys
    /\ deploys' = deploys + 1
    /\ \E c \in Configs : settings' = [settings EXCEPT ![s] = c]
    /\ cache' = [cache EXCEPT ![s] = {}]
    /\ UNCHANGED <<format, broker, contents>>

-----------------------------------------------------------------------------
\* The validators, made from settings c.

VerifyKnownMinorVersion(c, m) == Knows(c, m) /\ m.version.minor <= c.schema[KindOf(m)]

VerifyHeaders(headers) == headers \cap Reserved = {}

\* JSON is text, binary Protobuf is not.
PayloadForm == IF format = "protobuf" THEN "bytes" ELSE "str"

\* Mutant: the headers are in the container only.
EncodePayloadOnce(m, useTransport) ==
    [container |-> ~useTransport, form |-> PayloadForm,
     type |-> m.type, version |-> m.version, data |-> m.data,
     headers |-> IF useTransport THEN {} ELSE m.headers,
     attributes |-> IF useTransport THEN {"hedwig_schema"} \cup m.headers ELSE {}]

EncodePayload(m, useTransport) ==
    [container |-> ~useTransport, form |-> PayloadForm,
     type |-> m.type, version |-> m.version, data |-> m.data,
     headers |-> IF useTransport THEN {} ELSE m.headers,
     attributes |-> m.headers \cup (IF useTransport THEN {"hedwig_schema"} ELSE {})]

\* A payload in the wrong form is no JSON or no message, data alone no container,
\* and a container comes without meta attributes.
Extractable(w, useTransport) ==
    /\ w.form = PayloadForm
    /\ IF useTransport THEN "hedwig_schema" \in w.attributes ELSE w.container

MetaHeaders(w, useTransport) ==
    IF useTransport THEN w.attributes \ Reserved ELSE w.headers

\* Mutant: what the publisher checks is checked again.
DecodeDataStrictly(c, m) == VerifyKnownMinorVersion(c, m) /\ m.data = "valid"

\* Any minor version, older or newer than the one known.
DecodeData(c, m) == Knows(c, m) /\ m.data = "valid"

\* Mutant: the version is the one of the schema used.
DeserializeLatest(c, w, useTransport) ==
    {m \in {[type |-> w.type, version |-> [w.version EXCEPT !.minor = c.schema[k]],
             headers |-> MetaHeaders(w, useTransport), data |-> w.data] :
                k \in {KindOf(w)} \cap DOMAIN c.schema} :
        /\ Extractable(w, useTransport)
        /\ VerifyHeaders(m.headers)
        /\ DecodeData(c, m)}

Deserialize(c, w, useTransport) ==
    {m \in {[type |-> w.type, version |-> w.version,
             headers |-> MetaHeaders(w, useTransport), data |-> w.data]} :
        /\ Extractable(w, useTransport)
        /\ VerifyHeaders(m.headers)
        /\ DecodeData(c, m)}

\* The payload is deserialized before it is published.
Serialize(c, m, useTransport) ==
    {w \in {EncodePayload(m, useTransport)} :
        /\ VerifyKnownMinorVersion(c, m)
        /\ VerifyHeaders(m.headers)
        /\ Deserialize(c, w, useTransport) # {}}

-----------------------------------------------------------------------------
\* The backends.  SNS, SQS and Redis take text, Pub/Sub takes bytes.
BrokerForm == IF broker = "pubsub" THEN "bytes" ELSE "str"

ToBroker(w) ==
    IF w.form = BrokerForm THEN w
    ELSE [w EXCEPT !.form = BrokerForm, !.attributes = @ \cup {"hedwig_encoding"}]

\* process_message: undoes it; with Redis the attribute is taken out.
DecodedForm == IF broker = "pubsub" THEN "str" ELSE "bytes"

FromBroker(w) ==
    IF "hedwig_encoding" \notin w.attributes THEN w
    ELSE [w EXCEPT !.form = DecodedForm,
                   !.attributes = IF broker = "redis" THEN @ \ {"hedwig_encoding"} ELSE @]

\* message_attributes, then on_receive: the context is taken from the attributes,
\* before anything is decoded.  boto3 has None for no attributes, which raises.
ContextOf(w) ==
    {k \in {IF Trace \in w.attributes THEN "continued" ELSE "new"} :
        broker = "sqs" => w.attributes # {}}

FindByMessage(c, m) == KindOf(m) \in c.callbacks

\* message_handler: the message a callback is called with.
Handled(c, w) ==
    {m \in Deserialize(c, FromBroker(w), c.transport) : FindByMessage(c, m)}

\* _publish, after serialize: the payload goes to the topic m is routed to.
Published(c, m) ==
    {ToBroker(w) : w \in {v \in Serialize(c, m, c.transport) : KindOf(m) \in c.routing}}

\* _mock_queue_message: for Redis m is routed as well, and an attribute is needed
\* that only transport attributes have.
Mocked(c, m) ==
    {ToBroker(w) : w \in {v \in Serialize(c, m, c.transport) :
                            broker = "redis" => KindOf(m) \in c.routing /\ c.transport}}

HandledSync(c, m) == UNION {Handled(c, w) : w \in Mocked(c, m)}

-----------------------------------------------------------------------------
\* publish: m gets the default headers and those of instrumentation.
Publish(s, m, more) ==
    LET n == [m EXCEPT !.headers = @ \cup more]
        published == UNION {Published(c, n) : c \in Loaded(s)}
    IN  /\ Cardinality(sent) < MaxSent
        /\ Use(s)
        /\ wire' = wire \cup published
        /\ sent' = sent \cup {k \in {n} : published # {}}
        /\ UNCHANGED <<config, firehose, stored, received>>

\* publish with HEDWIG_SYNC: the message goes to the service's own callback.
DispatchSync(s, m) ==
    LET handled == UNION {HandledSync(c, m) : c \in Loaded(s)}
    IN  /\ Cardinality(sent) < MaxSent
        /\ Use(s)
        /\ received' = received \cup
              {[service |-> s, message |-> n, context |-> "caller"] : n \in handled}
        /\ sent' = sent \cup {k \in {m} : handled # {}}
        /\ UNCHANGED <<config, wire, firehose, stored>>

\* What callbacks of s are called with when s gets w.
Receipts(s, w) ==
    {[service |-> s, message |-> n, context |-> k] :
        n \in UNION {Handled(c, w) : c \in Loaded(s)}, k \in ContextOf(w)}

\* The broker delivers w, to any service and any number of times.
Receive(s, w) ==
    /\ ContextOf(w) # {}
    /\ Use(s)
    /\ received' = received \cup Receipts(s, w)
    /\ UNCHANGED <<config, wire, firehose, stored, sent>>

\* What message_attributes raises no try block is around: the listener ends, and
\* its process is started anew.
ReceiveDies(s, w) ==
    /\ ContextOf(w) = {}
    /\ cache' = [cache EXCEPT ![s] = {}]
    /\ UNCHANGED <<config, contents>>

-----------------------------------------------------------------------------
\* Firehose files: a container in JSON, whatever the settings.

\* Mutant: only what the publisher may send is written in its own type, and read.
FirehoseReadPacked(c, l) ==
    {m \in {[type |-> l.type, version |-> l.version, headers |-> l.headers, data |-> l.data]} :
        DecodeData(c, m) /\ l.packed}

\* Data in base64 is decoded to bytes, which the parser of JSON refuses.
FirehoseExtractable(l) == l.packed \/ format = "protobuf"

DeserializeFirehose(c, l) ==
    {m \in {[type |-> l.type, version |-> l.version, headers |-> l.headers, data |-> l.data]} :
        DecodeData(c, m) /\ FirehoseExtractable(l)}

FirehoseLine(c, m) ==
    [type |-> m.type, version |-> m.version, headers |-> m.headers, data |-> m.data,
     packed |-> format = "jsonschema" \/ VerifyKnownMinorVersion(c, m)]

SerializeFirehose(c, m) ==
    {l \in {FirehoseLine(c, m)} : DeserializeFirehose(c, l) # {}}

\* A service writes a message it has received.
WriteFirehose(s, m) ==
    /\ Use(s)
    /\ firehose' = firehose \cup UNION {SerializeFirehose(c, m) : c \in Loaded(s)}
    /\ UNCHANGED <<config, wire, stored, sent, received>>

\* Containers an application keeps: the payload alone, whatever the settings.

\* Mutant: the setting decides.
SerializeAsSet(c, m) ==
    {[w EXCEPT !.attributes = {}] : w \in Serialize(c, m, c.transport)}

SerializeContainerized(c, m) ==
    {[w EXCEPT !.attributes = {}] : w \in Serialize(c, m, FALSE)}

DeserializeContainerized(c, w) == Deserialize(c, w, FALSE)

StoreContainer(s, m) ==
    /\ Use(s)
    /\ stored' = stored \cup UNION {SerializeContainerized(c, m) : c \in Loaded(s)}
    /\ UNCHANGED <<config, wire, firehose, sent, received>>

-----------------------------------------------------------------------------
Next ==
    \/ \E s \in Services :
          \/ Deploy(s)
          \/ \E m \in Message : \/ \E more \in SUBSET Names : Publish(s, m, more)
                                \/ DispatchSync(s, m)
          \/ \E w \in wire : Receive(s, w) \/ ReceiveDies(s, w)
    \/ \E r \in received : \/ WriteFirehose(r.service, r.message)
                           \/ StoreContainer(r.service, r.message)

Spec == Init /\ [][Next]_vars

-----------------------------------------------------------------------------
(***************************************************************************)
(* A callback gets the message its publisher sent, with the headers of the *)
(* application and no others (validators/base.py:270 takes the reserved    *)
(* attributes out), whatever was deployed in between and whichever broker  *)
(* carried it.                                                             *)
(***************************************************************************)
MessagesArriveAsSent == \A r \in received : r.message \in sent

\* No transport attributes, no headers, and no attribute for the broker's form.
Bare(w) == broker = "sqs" /\ w.container /\ format # "protobuf" /\ w.headers = {}

(***************************************************************************)
(* What a publisher's own check let pass gets to the callback of every     *)
(* service that has one for its type and major version and the same        *)
(* setting of HEDWIG_USE_TRANSPORT_MESSAGE_ATTRIBUTES, older or newer, but *)
(* for the bare messages of SQS, which end each listener they are given to *)
(* (backends/aws.py:274) and so get to none.  It is the settings of the    *)
(* moment that count, whatever the service has been used for before.       *)
(***************************************************************************)
PublishedIsAccepted ==
    \A w \in wire, s \in Services :
        LET c == settings[s]
        IN  CheckSchema(c) /\ w.container = ~c.transport /\ KindOf(w) \in c.callbacks =>
                (Receipts(s, w) # {} <=> ~Bare(w))

(***************************************************************************)
(* A message only reaches a callback that the settings of the moment name, *)
(* and only if those pass the check of the schema: nothing made from       *)
(* earlier settings survives clear_cache (conf/__init__.py:203-223).       *)
(***************************************************************************)
HandledUnderCurrentSettings ==
    [][\A r \in received' \ received :
          /\ CheckSchema(settings[r.service])
          /\ KindOf(r.message) \in settings[r.service].callbacks]_vars

(***************************************************************************)
(* The span around a callback continues the trace of the publisher just if *)
(* the message the callback sees has the header of that trace              *)
(* ("headers are used to receive and publish trace contexts",              *)
(* docs/quickstart.rst:96), although the span starts before the message is *)
(* decoded (backends/base.py:158) and a container has headers of its own.  *)
(***************************************************************************)
TraceContinues ==
    \A r \in received :
        r.context = "caller" \/ (r.context = "continued" <=> Trace \in r.message.headers)

(***************************************************************************)
(* Of a message a service received it can write a firehose line as long as *)
(* it knows the major version, and who knows it too reads the message back *)
(* from the line ("knowing major version schema is good enough to read     *)
(* firehose", validators/base.py:160).  Not so with ProtobufJSONValidator. *)
(***************************************************************************)
FirehoseKeepsMessages ==
    format # "protobufjson" =>
        /\ \A r \in received : \A c \in Loaded(r.service) :
            Knows(c, r.message) => SerializeFirehose(c, r.message) # {}
        /\ \A l \in firehose, s \in Services : \A c \in Loaded(s) :
            Knows(c, l) => \E m \in DeserializeFirehose(c, l) : m \in sent

(***************************************************************************)
(* A stored container is read back, as a message that was sent, by every   *)
(* service that knows its kind, "regardless of configured settings"        *)
(* (models.py:96).                                                         *)
(***************************************************************************)
ContainersReadable ==
    \A w \in stored, s \in Services : \A c \in Loaded(s) :
        Knows(c, w) => \E m \in DeserializeContainerized(c, w) : m \in sent
=============================================================================
