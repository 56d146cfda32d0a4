----------------------------- MODULE TraceExport -----------------------------
(***************************************************************************)
(* The settings of trace export on their way to the exporter: the operator *)
(* gives them to tools/build_aci_template.py, whose template               *)
(* check_aci_template.py reads again, or straight to a container; run.py   *)
(* divides its environment between node and driver; ccf/telemetry.py       *)
(* accepts or refuses it when the driver starts and sends batches of spans *)
(* to a collector that may answer with a redirect.  Four programs validate *)
(* the same settings, each with rules of its own.                          *)
(*                                                                         *)
(* An environment is a function on the variables that are set.  An         *)
(* endpoint is its scheme, host and path; "other" stands for everything    *)
(* else a URL can have wrong.  Headers are the pairs they decode to.  An   *)
(* attribute of a span is the kind of its key and whether its value has    *)
(* the type and range that go with the key.                                *)
(***************************************************************************)
EXTENDS Naturals, FiniteSets, Functions

CONSTANT MaxAttributes   \* of a span

ASSUME TraceAssumption == MaxAttributes \in Nat

VARIABLES given,     \* the environment of run.py, and where it comes from
          node_env,  \* of the CCF node
          driver,    \* the driver: its environment, and the exporter it has
          sent,      \* the batches that left it
          span       \* the attributes of the span handed to the exporter last

traceVars == <<given, node_env, driver, sent, span>>

Endpoints == [scheme : {"http", "https"}, host : {"loopback", "remote"},
              path : {"", "gateway", "traces", "gateway_traces", "other"}]
Headers == {"authorization", "forbidden", "malformed"}
Certificates == {"public", "private", "missing"}
Labels == {"three", "unknown"}

ForTraces == [endpoint |-> "traces_endpoint", headers |-> "traces_headers",
              certificate |-> "traces_certificate", protocol |-> "traces_protocol"]

\* Two environments in one; f's values come first.
Joined(f, g) == [x \in DOMAIN f \cup DOMAIN g |-> IF x \in DOMAIN f THEN f[x] ELSE g[x]]

\* The variable that counts: the one for traces, or else the general one.
Setting(env, name, default) ==
    IF ForTraces[name] \in DOMAIN env THEN env[ForTraces[name]]
    ELSE IF name \in DOMAIN env THEN env[name] ELSE default

-----------------------------------------------------------------------------
(* tools/build_aci_template.py and check_aci_template.py.                  *)

\* What the operator passes; the header in the secret file is meant for one
\* endpoint.
Requests == [endpoint : Endpoints, ca : Certificates, label : Labels,
             header : Headers, header_for : Endpoints]

\* validate_otel_endpoint: an HTTPS origin, or a gateway prefix under it.
ValidEndpoint(e) == e.scheme = "https" /\ e.path \in {"", "gateway"}

\* validate_otel_ca.
ValidCa(ca) == ca = "public"

\* otel_environment.
OtelEnvironment(endpoint, label) ==
    [endpoint |-> endpoint, protocol |-> "http/protobuf",
     certificate |-> "public", attributes |-> label]

\* load_otel_settings: the header it takes is "authorization", in the encoding
\* the exporter reads, and the secret names the endpoint.
LoadOtelSettings(r) ==
    /\ ValidEndpoint(r.endpoint) /\ r.label = "three"
    /\ ValidCa(r.ca)
    /\ r.header_for = r.endpoint /\ r.header = "authorization"

\* validate_otel, on the template: the environment has what otel_environment
\* would make of its endpoint and labels, and the header is a parameter.
ValidateOtel(env) ==
    /\ ValidEndpoint(env["endpoint"]) /\ env["attributes"] = "three"
    /\ Restrict(env, DOMAIN env \ {"headers"}) = OtelEnvironment(env["endpoint"], env["attributes"])
    /\ "headers" \in DOMAIN env

Template(r) == Joined(OtelEnvironment(r.endpoint, r.label), [headers |-> r.header])

-----------------------------------------------------------------------------
(* ccf/telemetry.py.                                                       *)

Appended(e) == [e EXCEPT !.path = CASE e.path = ""        -> "traces"
                                    [] e.path = "gateway" -> "gateway_traces"
                                    [] OTHER              -> "other"]
Loopback == [scheme |-> "http", host |-> "loopback", path |-> ""]

\* trace_endpoint: a URL for traces is taken as it is, a general one is extended.
TraceEndpoint(env) == IF "traces_endpoint" \in DOMAIN env THEN env["traces_endpoint"]
                      ELSE Appended(Setting(env, "endpoint", Loopback))

ValidTraceEndpoint(e) ==
    /\ e.path \in {"traces", "gateway_traces"}
    /\ e.scheme = "http" => e.host = "loopback"

\* configured_pairs and the headers no exporter may set.
ConfiguredPairs(env) == Setting(env, "headers", "none")

\* resource_attributes.
ResourceAttributes(env) == "attributes" \in DOMAIN env => env["attributes"] = "three"

\* Faulty variant: headers may go where the endpoint leads.
ExportConfiguration_AnyScheme(env) ==
    LET e == TraceEndpoint(env) IN
    /\ ValidTraceEndpoint(e)
    /\ Setting(env, "protocol", "http/protobuf") = "http/protobuf"
    /\ ConfiguredPairs(env) \in {"none", "authorization"}
    /\ Setting(env, "certificate", "none") \in {"none", "public"}

\* export_configuration: headers and a trust anchor of one's own need TLS.
ExportConfiguration(env) ==
    LET e == TraceEndpoint(env) IN
    /\ ValidTraceEndpoint(e)
    /\ Setting(env, "protocol", "http/protobuf") = "http/protobuf"
    /\ ConfiguredPairs(env) \in {"none", "authorization"}
    /\ Setting(env, "certificate", "none") \in {"none", "public"}
    /\ (ConfiguredPairs(env) # "none" \/ Setting(env, "certificate", "none") # "none") => e.scheme = "https"

Disabled(env) == "disabled" \in DOMAIN env

\* initialize: no exporter where it is disabled or the settings are refused; the
\* driver goes on either way.
Initialized(env) == ~Disabled(env) /\ ResourceAttributes(env) /\ ExportConfiguration(env)

\* Keys that the node and the driver may use, the node alone or the driver alone.
Attributes == [key : {"shared", "native", "driver", "other"}, fits : BOOLEAN]

AttributeMaps == {values \in SUBSET Attributes : Cardinality(values) <= MaxAttributes + 1}

\* _attributes: one that is not allowed refuses the span.
NativeAttributes(values) ==
    /\ Cardinality(values) <= MaxAttributes
    /\ \A a \in values : a.fits /\ a.key \in {"shared", "native"}

\* _driver_attributes: one that is not allowed is left out.
DriverAttributes(values) ==
    LET valid == {a \in values : a.fits /\ a.key \in {"shared", "driver"}}
    IN  {kept \in SUBSET valid : IF Cardinality(valid) <= MaxAttributes THEN kept = valid
                                                       ELSE Cardinality(kept) = MaxAttributes}

-----------------------------------------------------------------------------
NoEnv == [x \in {} |-> ""]

\* A container of one's own may be given anything.
Partly(name, values) == {NoEnv} \cup {[x \in {name} |-> v] : v \in values}
TracesUrls == {e \in Endpoints : e.path \in {"gateway", "traces"} /\ e.host = "remote"}
Direct == {Joined(Joined(Joined(a, b), Joined(c, d)), Joined(e, f)) :
             a \in Partly("endpoint", Endpoints), b \in Partly("traces_endpoint", TracesUrls),
             c \in Partly("headers", Headers), d \in Partly("traces_headers", {"authorization"}),
             e \in Partly("certificate", Certificates),
             f \in Partly("attributes", Labels) \cup Partly("protocol", {"grpc"}) \cup Partly("disabled", {"true"})}

TraceInit ==
    /\ given = [by |-> "none", env |-> NoEnv]
    /\ node_env = NoEnv
    /\ driver = [env |-> NoEnv, exporter |-> "none"]
    /\ sent = {} /\ span = {}

\* The template is built, checked and deployed; one that is refused is not.
DeployTemplate(r) ==
    /\ LoadOtelSettings(r) /\ ValidateOtel(Template(r))
    /\ given' = [by |-> "template", env |-> Template(r)]
    /\ UNCHANGED <<node_env, driver, sent, span>>

\* OTEL_DISABLED_ENVIRONMENT, when no setting is passed.
DeployDisabled ==
    /\ given' = [by |-> "disabled", env |-> [disabled |-> "true"]]
    /\ UNCHANGED <<node_env, driver, sent, span>>

RunContainerWith(env) ==
    /\ given' = [by |-> "operator", env |-> env]
    /\ UNCHANGED <<node_env, driver, sent, span>>

\* telemetry_environments: the node gets a socket and no setting of the exporter.
TelemetryEnvironments ==
    /\ given.by # "none" /\ driver.exporter = "none"
    /\ node_env' = IF Disabled(given.env) THEN NoEnv ELSE [socket |-> "spans.sock"]
    /\ driver' = [env |-> Joined(node_env', given.env), exporter |-> "starting"]
    /\ UNCHANGED <<given, sent, span>>

\* Telemetry.__init__ by way of initialize_diagnostics.
DriverInitializes ==
    /\ driver.exporter = "starting"
    /\ driver' = [driver EXCEPT !.exporter = IF Initialized(driver.env) THEN "on" ELSE "off"]
    /\ UNCHANGED <<given, node_env, sent, span>>

\* BoundedSession.post: to the configured endpoint only.  A redirect, an error or
\* a deadline fails the batch, and nothing is sent anywhere else.
PostBatch(url) ==
    /\ driver.exporter = "on" /\ url = TraceEndpoint(driver.env)
    /\ sent' = sent \cup {[to |-> url, headers |-> ConfiguredPairs(driver.env)]}
    /\ UNCHANGED <<given, node_env, driver, span>>

\* Telemetry.span ends.
DriverSpan(values) ==
    /\ driver.exporter = "on" /\ span' \in DriverAttributes(values)
    /\ UNCHANGED <<given, node_env, driver, sent>>

\* Telemetry.receive: a datagram on the socket the node writes its spans to.
NativeDatagram(values) ==
    /\ driver.exporter = "on" /\ NativeAttributes(values) /\ span' = values
    /\ UNCHANGED <<given, node_env, driver, sent>>

TraceNext ==
    \/ given.by = "none" /\ (\/ \E r \in Requests : DeployTemplate(r)
                           \/ DeployDisabled
                           \/ \E env \in Direct : RunContainerWith(env))
    \/ TelemetryEnvironments \/ DriverInitializes
    \/ \E url \in Endpoints : PostBatch(url)
    \/ \E values \in AttributeMaps : DriverSpan(values) \/ NativeDatagram(values)

TraceSpec == TraceInit /\ [][TraceNext]_traceVars

-----------------------------------------------------------------------------

\* The exporter's credentials stay with it: whoever supplied the settings, the
\* node never has them, and a batch carries them only over TLS, to the endpoint
\* they were configured with.  And the validators agree: what the builder and
\* the checker let pass, the driver's own check accepts, so that a reviewed
\* template never starts a driver without its exporter; a disabled one sends
\* nothing.  What is exported is bounded and typed: no span has an attribute
\* outside the list, from wherever it came.
TraceConfined ==
    /\ DOMAIN node_env \subseteq {"socket"}
    /\ \A b \in sent : /\ b.headers # "none" => b.to.scheme = "https"
                       /\ b.to.scheme = "http" => b.to.host = "loopback"
    /\ given.by = "template" => driver.exporter # "off"
    /\ given.by = "disabled" => sent = {}
    /\ Cardinality(span) <= MaxAttributes /\ \A a \in span : a.fits /\ a.key # "other"

=============================================================================
