------------------------------ MODULE Builder -------------------------------
(***************************************************************************)
(* The relationships that one span-metric record carries                   *)
(* (internal/builder): an emitter and the endpoint, topic or database it   *)
(* touches.                                                                *)
(*                                                                         *)
(* Text is taken apart as far as the rules look into it.  A path is a      *)
(* sequence of segments, <<>> the empty string and <<"">> the path "/";    *)
(* the slash in front of a route is added where it is missing, so it is    *)
(* left out.  A URL has a form: "bare" begins with a slash, "absolute" has *)
(* scheme and host, "relative" is anything else.  Parsing a URL unescapes  *)
(* its segments, one segment each, and refuses it if one is malformed.  A  *)
(* span name is a word, a path, a word and a path, or two words.           *)
(***************************************************************************)
EXTENDS Sequences, Integers

CONSTANTS Segment,      \* path segments
          Digits,       \* those that are numbers
          Placeholders, \* :id, {id}, <id> and the template itself
          Template,     \* {n}
          Unescape,     \* what the percent escapes of each stand for
          Malformed,    \* those with a broken escape
          NoAttr        \* the attribute is missing or empty

ASSUME TemplateAssumption == /\ Template \in Placeholders
                             /\ Digits \cap Placeholders = {}
                             /\ Digits \cup Placeholders \cup Malformed \subseteq Segment
                             /\ Unescape \in [Segment -> Segment]
(* Numbers and the template have no percent sign.                          *)
ASSUME EscapeAssumption == \A seg \in Digits \cup {Template} :
                             Unescape[seg] = seg /\ seg \notin Malformed

Paths == Seq(Segment)
URLs == [form : {"bare", "absolute", "relative"}, path : Paths, query : BOOLEAN]
ASSUME AttrAssumption == NoAttr \notin URLs

(* The attributes that are read, of the datapoint and of the resource.     *)
Series == {"span.kind", "http.request.method", "http.route", "url.full", "server.address",
           "server.port", "peer.service", "service.name", "db.system", "span.name"}
NoAttrs == [k \in Series |-> NoAttr]

-----------------------------------------------------------------------------
(* Paths and names.                                                        *)

Numbered(seg) == seg \in Digits

TemplatizePath(path) == [i \in DOMAIN path |-> IF Numbered(path[i]) THEN Template ELSE path[i]]

(* A planted error: placeholders stay as the framework writes them.        *)
NormalizeRouteDigitsOnly(path) == TemplatizePath(path)

NormalizeRoute(path) ==
  [i \in DOMAIN path |-> IF path[i] \in Placeholders \/ Numbered(path[i]) THEN Template
                                                                        ELSE path[i]]

Parses(url) == \A i \in DOMAIN url.path : url.path[i] \notin Malformed
Unescaped(path) == [i \in DOMAIN path |-> Unescape[path[i]]]

(* What cannot be parsed or has no host is left as it is.                  *)
TemplatizeURL(url) ==
  CASE url.form = "bare" -> [url EXCEPT !.path = TemplatizePath(@), !.query = FALSE]
    [] url.form = "absolute" /\ Parses(url) ->
         [url EXCEPT !.path = TemplatizePath(Unescaped(@)), !.query = FALSE]
    [] OTHER -> url

ExtractURLPath(url) == CASE url.form = "bare" -> url.path
                         [] url.form # "bare" /\ Parses(url) -> Unescaped(url.path)
                         [] OTHER -> <<>>

(* A planted error: a path is looked for at the start of the name only.    *)
TemplatizeSpanNameStart(name) ==
  IF name.word = NoAttr THEN [name EXCEPT !.path = TemplatizePath(@)] ELSE name

TemplatizeSpanName(name) == [name EXCEPT !.path = TemplatizePath(@)]

(* At ingest: the two attributes with numbers in them.                     *)
TemplatizeAttrs(attrs) ==
  [attrs EXCEPT !["url.full"] = IF @ = NoAttr THEN @ ELSE TemplatizeURL(@),
                !["span.name"] = IF @ = NoAttr THEN @ ELSE TemplatizeSpanName(@)]

(* The first word of a name that has a space in it.                        *)
TopicName(name) == IF name.path = <<>> /\ name.rest = NoAttr THEN NoAttr ELSE name.word

-----------------------------------------------------------------------------
(* The emitter of a resource, at most one: its container, else its pod.    *)
EmitterFor(r) ==
  IF r.namespace = NoAttr \/ r.pod = NoAttr THEN {}
  ELSE IF r.container = NoAttr THEN {<<"pod", r.namespace, r.pod>>}
  ELSE {<<"container", r.namespace, r.pod, r.container>>}

(* addRelationship: what is upserted and the two edges are those of the    *)
(* link.  The pair of edge kinds goes by its forward one.                  *)
LinkTo(emitter, kind, rel, action) ==
  [emitter |-> emitter, rel |-> rel, label |-> <<kind, action>>]

SpanKind(s) == IF s["span.kind"] = NoAttr THEN NoAttr ELSE s["span.kind"].kind

FirstOf(a, b) == IF a # NoAttr THEN a ELSE b

ServiceOf(r, s) == FirstOf(s["service.name"], r.service)
(* The port of an address is stripped.                                     *)
TargetOf(s) ==
  FirstOf(s["peer.service"],
          IF s["server.address"] = NoAttr THEN NoAttr ELSE s["server.address"].host)

Endpoint(emitter, kind, service, s, path) ==
  IF s["http.request.method"] = NoAttr \/ path = <<>> \/ service = NoAttr THEN {}
  ELSE {LinkTo(emitter, kind, <<"endpoint", service, s["http.request.method"],
                                NormalizeRoute(path)>>, NoAttr)}

EndpointLinks(emitter, r, s) ==
  CASE SpanKind(s) = "SERVER" /\ s["http.route"] # NoAttr ->
         Endpoint(emitter, "EXPOSES", ServiceOf(r, s), s, s["http.route"])
    [] SpanKind(s) = "CLIENT" /\ s["url.full"] # NoAttr ->
         Endpoint(emitter, "CALLS", TargetOf(s), s, ExtractURLPath(s["url.full"]))
    [] OTHER -> {}

TopicLinks(emitter, s) ==
  LET topic == IF s["span.name"] = NoAttr THEN NoAttr ELSE TopicName(s["span.name"])
      kinds == CASE SpanKind(s) = "PRODUCER" -> {"PUBLISHES"}
                 [] SpanKind(s) = "CONSUMER" -> {"CONSUMES"}
                 [] OTHER -> {}
  IN  IF topic = NoAttr THEN {}
      ELSE {LinkTo(emitter, kind, <<"topic", topic>>, NoAttr) : kind \in kinds}

(* The id is system, address and port, so that it does not tell a port of  *)
(* the address from one that follows it.                                   *)
DatabaseId(system, address, port) ==
  <<"database", system, address.host, SelectSeq(<<address.port, port>>, LAMBDA p : p # NoAttr)>>

DatabaseLinks(emitter, s) ==
  IF s["db.system"] = NoAttr \/ SpanKind(s) # "CLIENT" \/ s["server.address"] = NoAttr THEN {}
  ELSE {LinkTo(emitter, "QUERIES",
               DatabaseId(s["db.system"], s["server.address"], s["server.port"]),
               IF s["span.name"] = NoAttr THEN NoAttr ELSE TemplatizeSpanName(s["span.name"]))}

(* A record without an emitter carries nothing.                            *)
Derive(r, s) ==
  UNION {EndpointLinks(emitter, r, s) \cup TopicLinks(emitter, s) \cup DatabaseLinks(emitter, s)
           : emitter \in EmitterFor(r)}
=============================================================================
