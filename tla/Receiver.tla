------------------------------ MODULE Receiver ------------------------------
(***************************************************************************)
(* One OTLP request in graph-otel (internal/otlpreceiver/receiver.go,      *)
(* deriveAll): a walk over its resources, metrics and datapoints.  The     *)
(* attributes of a datapoint are read into one map that all datapoints     *)
(* share, templatized there, and derived from there into the request's own *)
(* set.  What GraphOtel exports, some set of links, is the outcome.        *)
(*                                                                         *)
(* The walk shares nothing with other requests; a step is one datapoint.   *)
(* Scopes only group metrics, so a resource has its metrics in a row.      *)
(***************************************************************************)
EXTENDS Builder, BatchWriteSet, FiniteSets

CONSTANTS Requests,     \* requests: sequences of resources
          Resources,    \* attributes of resources
          Datapoints,   \* attributes of datapoints
          MetricTypes,  \* the types that have datapoints
          UnknownType   \* any other

Metrics == [type : MetricTypes \cup {UnknownType}, points : Seq(Datapoints)]
Named(name) == /\ name = [word |-> name.word, path |-> name.path, rest |-> name.rest]
               /\ name.path \in Paths

ASSUME RequestAssumption ==
  /\ Requests \subseteq Seq([attrs : Resources, metrics : Seq(Metrics)])
  /\ \A s \in Datapoints :
       /\ s = [a \in Series |-> s[a]]
       /\ s["url.full"] \in URLs \cup {NoAttr}
       /\ s["http.route"] \in Paths \cup {NoAttr}
       /\ s["span.name"] # NoAttr => Named(s["span.name"])
       /\ \A r \in Resources : Derive(r, TemplatizeAttrs(s)) \subseteq Link

VARIABLES
  request,  \* the request
  i, k,     \* the resource and the metric the walk has come to
  point,    \* the datapoints of that metric that are done
  buf,      \* the map for attributes
  local,    \* the request-local set
  records   \* datapoints counted

vars == <<request, i, k, point, buf, local, records>>

Init ==
  /\ request \in Requests
  /\ i = 1 /\ k = 1 /\ point = 0
  /\ buf = NoAttrs
  /\ local = NoContents
  /\ records = 0

Resource == request[i]
Metric == Resource.metrics[k]

InMetric == i <= Len(request) /\ k <= Len(Resource.metrics)

(* Datapoints of an unknown metric type are not seen.                      *)
Points(metric) == IF metric.type \in MetricTypes THEN metric.points ELSE <<>>

FillStringMap(dst, in) == [a \in Series |-> IF in[a] # NoAttr THEN in[a] ELSE dst[a]]

(* A planted error: the map is not cleared between datapoints.             *)
ReadIntoKeeps(b, attrs) == TemplatizeAttrs(FillStringMap(b, attrs))

(* Clear, fill, templatize.                                                *)
ReadInto(b, attrs) == TemplatizeAttrs(FillStringMap([a \in Series |-> NoAttr], attrs))

(* A planted error: the emitter is upserted as well.                       *)
AddRelationshipsAndEmitter(s, links) ==
  [entities |-> s.entities \cup {l.rel : l \in links} \cup {l.emitter : l \in links},
   edges |-> s.edges \cup {Reverse(l) : l \in links} \cup {Forward(l) : l \in links}]

(* addRelationship for every link: Upsert and twice AddEdges.              *)
AddRelationships(s, links) ==
  [entities |-> s.entities \cup {l.rel : l \in links},
   edges |-> s.edges \cup {Reverse(l) : l \in links} \cup {Forward(l) : l \in links}]

Datapoint ==
  /\ InMetric /\ point < Len(Points(Metric))
  /\ point' = point + 1
  /\ buf' = ReadInto(buf, Points(Metric)[point'])
  /\ local' = AddRelationships(local, Derive(Resource.attrs, buf'))
  /\ UNCHANGED <<request, i, k, records>>

NextMetric ==
  /\ InMetric /\ point = Len(Points(Metric))
  /\ records' = records + point
  /\ k' = k + 1 /\ point' = 0
  /\ UNCHANGED <<request, i, buf, local>>

NextResource ==
  /\ i <= Len(request) /\ k > Len(Resource.metrics)
  /\ i' = i + 1 /\ k' = 1
  /\ UNCHANGED <<request, point, buf, local, records>>

Next == Datapoint \/ NextMetric \/ NextResource

Spec == Init /\ [][Next]_vars

-----------------------------------------------------------------------------
(* The datapoints that are done, each with its resource.                   *)
Done(r, m, p) == r < i \/ (r = i /\ (m < k \/ (m = k /\ p <= point)))
SeenIn(r, m) ==
  LET points == Points(request[r].metrics[m])
  IN  {[attrs |-> request[r].attrs, series |-> points[p]] :
         p \in {q \in DOMAIN points : Done(r, m, q)}}
Seen == UNION {UNION {SeenIn(r, m) : m \in DOMAIN request[r].metrics} : r \in DOMAIN request}

Alone(x) == Derive(x.attrs, TemplatizeAttrs(x.series))

(* The set holds relationship entities only, never a container or a pod    *)
(* (builder.go 3-8), and edges of the links that there are.                *)
TypeOK ==
  /\ i \in 1..Len(request) + 1 /\ k \in Nat /\ point \in Nat
  /\ DOMAIN buf = Series
  /\ local \in Contents
  /\ records \in Nat

(* Nothing of a datapoint leaks into the next through the shared map       *)
(* (receiver.go 86-118): at every moment the set is that of the links each *)
(* datapoint gives on its own, so their order does not matter and what     *)
(* GraphOtel takes for the outcome of a request is one.                    *)
DerivesEachAlone == local = DeriveAll(UNION {Alone(x) : x \in Seen})

(* A caller and a callee meet in one endpoint (endpoints.go 153-157): if   *)
(* somebody serves a route, and somebody calls a path of that service that *)
(* has numbers where the route has placeholders, there is an endpoint that *)
(* the one exposes and the other calls.  Elsewhere the two are the same,   *)
(* and have no escapes.                                                    *)
Fits(path, route) ==
  /\ Len(path) = Len(route) /\ path # <<>>
  /\ \A n \in DOMAIN path : \/ path[n] = route[n] /\ Unescape[path[n]] = path[n]
                               /\ path[n] \notin Malformed
                            \/ path[n] \in Digits /\ route[n] \in Placeholders

Serves(x) == /\ SpanKind(x.series) = "SERVER" /\ EmitterFor(x.attrs) # {}
             /\ x.series["http.route"] # NoAttr
             /\ ServiceOf(x.attrs, x.series) # NoAttr
CallsOf(y, x) == /\ SpanKind(y.series) = "CLIENT" /\ EmitterFor(y.attrs) # {}
                 /\ y.series["url.full"] # NoAttr
                 /\ Fits(y.series["url.full"].path, x.series["http.route"])
                 /\ y.series["http.request.method"] = x.series["http.request.method"]
                 /\ y.series["http.request.method"] # NoAttr
                 /\ TargetOf(y.series) = ServiceOf(x.attrs, x.series)

CallerMeetsCallee ==
  \A x, y \in Seen : Serves(x) /\ CallsOf(y, x) =>
    \E endpoint \in local.entities :
      /\ \A emitter \in EmitterFor(x.attrs) :
           Forward(LinkTo(emitter, "EXPOSES", endpoint, NoAttr)) \in local.edges
      /\ \A emitter \in EmitterFor(y.attrs) :
           Forward(LinkTo(emitter, "CALLS", endpoint, NoAttr)) \in local.edges

(* No two operations on a database and no two endpoints differ by a number *)
(* only, whatever form the name or URL has (templatize.go 44-47): the      *)
(* graph does not grow with the ids in requests.                           *)
SameButNumbers(p, q) ==
  /\ Len(p) = Len(q)
  /\ \A n \in DOMAIN p : p[n] = q[n] \/ {p[n], q[n]} \subseteq Digits \cup {Template}

AlikeNames(a, b) == /\ a # NoAttr /\ b # NoAttr
                    /\ a.word = b.word /\ a.rest = b.rest /\ SameButNumbers(a.path, b.path)

NumbersCollapse ==
  /\ \A d, e \in local.edges :
       d.from = e.from /\ d.to = e.to /\ d.label[1] = e.label[1]
         /\ AlikeNames(d.label[2], e.label[2]) => d = e
  /\ \A x, y \in {r \in local.entities : r[1] = "endpoint"} :
       x[2] = y[2] /\ x[3] = y[3] /\ SameButNumbers(x[4], y[4]) => x = y
=============================================================================
