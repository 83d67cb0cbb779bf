--------------------------- MODULE ReceiverProofs ---------------------------
(***************************************************************************)
(* Theorems about Receiver and the rules of Builder, for every request,    *)
(* any attributes and paths of any length.                                 *)
(***************************************************************************)
EXTENDS Receiver, TLAPS

-----------------------------------------------------------------------------
(* The walk.                                                               *)

LEMMA RequestFacts ==
  ASSUME NEW req \in Requests, NEW r \in DOMAIN req
  PROVE  /\ req \in Seq([attrs : Resources, metrics : Seq(Metrics)])
         /\ Len(req) \in Nat /\ DOMAIN req = 1..Len(req)
         /\ req[r].attrs \in Resources
         /\ req[r].metrics \in Seq(Metrics)
         /\ Len(req[r].metrics) \in Nat /\ DOMAIN req[r].metrics = 1..Len(req[r].metrics)
<1> DEFINE R == [attrs : Resources, metrics : Seq(Metrics)]
<1>1. req \in Seq(R)
  BY RequestAssumption
<1>2. req[r] \in R /\ Len(req) \in Nat /\ DOMAIN req = 1..Len(req)
  <2> HIDE DEF R
  <2> QED BY <1>1
<1> QED BY <1>1, <1>2

LEMMA PointsFacts ==
  ASSUME NEW metric \in Metrics
  PROVE  /\ Points(metric) \in Seq(Datapoints)
         /\ Len(Points(metric)) \in Nat /\ DOMAIN Points(metric) = 1..Len(Points(metric))
         /\ \A p \in DOMAIN Points(metric) : Points(metric)[p] \in Datapoints
<1>1. metric.points \in Seq(Datapoints)
  BY DEF Metrics
<1>2. Points(metric) \in Seq(Datapoints)
  BY <1>1 DEF Points
<1> QED BY <1>2

(* Where the walk is.  Between metrics no datapoint is done, and at the    *)
(* end of the request it is at the first metric of no resource.            *)
At(req, r, m, p) ==
  /\ req \in Requests
  /\ r \in 1..Len(req) + 1 /\ m \in Nat \ {0} /\ p \in Nat
  /\ r \in DOMAIN req => m \in 1..Len(req[r].metrics) + 1
  /\ IF r \in DOMAIN req /\ m \in DOMAIN req[r].metrics
     THEN p \in 0..Len(Points(req[r].metrics[m]))
     ELSE p = 0
WalkInv == At(request, i, k, point) /\ DOMAIN buf = Series /\ records \in Nat

LEMMA SeenIs ==
  ASSUME NEW x
  PROVE  x \in Seen <=> \E r \in DOMAIN request : \E m \in DOMAIN request[r].metrics :
                          \E p \in DOMAIN Points(request[r].metrics[m]) :
                            /\ Done(r, m, p)
                            /\ x = [attrs |-> request[r].attrs,
                                    series |-> Points(request[r].metrics[m])[p]]
BY DEF Seen, SeenIn

LEMMA SeenType ==
  ASSUME request \in Requests, NEW x \in Seen
  PROVE  x.attrs \in Resources /\ x.series \in Datapoints
<1>1. PICK r \in DOMAIN request : \E m \in DOMAIN request[r].metrics :
         \E p \in DOMAIN Points(request[r].metrics[m]) :
            /\ Done(r, m, p)
            /\ x = [attrs |-> request[r].attrs, series |-> Points(request[r].metrics[m])[p]]
  BY SeenIs
<1>2. PICK m \in DOMAIN request[r].metrics : \E p \in DOMAIN Points(request[r].metrics[m]) :
         x = [attrs |-> request[r].attrs, series |-> Points(request[r].metrics[m])[p]]
  BY <1>1
<1>3. request[r].attrs \in Resources /\ request[r].metrics[m] \in Metrics
  BY RequestFacts
<1>4. Points(request[r].metrics[m]) \in Seq(Datapoints)
  BY <1>3, PointsFacts
<1> QED BY <1>2, <1>3, <1>4

(* What the map holds after a datapoint does not depend on what it held.   *)
LEMMA ReadIntoIs ==
  ASSUME NEW s \in Datapoints, NEW b
  PROVE  ReadInto(b, s) = TemplatizeAttrs(s)
<1>1. s = [a \in Series |-> s[a]]
  BY RequestAssumption
<1>2. FillStringMap([a \in Series |-> NoAttr], s) = [a \in Series |-> s[a]]
  BY DEF FillStringMap
<1> QED BY <1>1, <1>2 DEF ReadInto

LEMMA AddRelationshipsIs ==
  ASSUME NEW A, NEW B
  PROVE  AddRelationships(DeriveAll(A), B) = DeriveAll(A \cup B)
<1>1. {l.rel : l \in A} \cup {l.rel : l \in B} = {l.rel : l \in A \cup B}
  OBVIOUS
<1>2. {Forward(l) : l \in A} \cup {Forward(l) : l \in B} = {Forward(l) : l \in A \cup B}
  OBVIOUS
<1>3. {Reverse(l) : l \in A} \cup {Reverse(l) : l \in B} = {Reverse(l) : l \in A \cup B}
  OBVIOUS
<1> QED BY <1>1, <1>2, <1>3 DEF AddRelationships, DeriveAll

LEMMA WalkInit == Init => WalkInv /\ DerivesEachAlone
<1> SUFFICES ASSUME Init PROVE WalkInv /\ DerivesEachAlone
  OBVIOUS
<1>1. At(request, i, k, point)
  <2>1. request \in Requests /\ Len(request) \in Nat
    BY RequestAssumption DEF Init
  <2>2. ASSUME i \in DOMAIN request
        PROVE  /\ Len(request[i].metrics) \in Nat
               /\ \A m \in DOMAIN request[i].metrics :
                    Len(Points(request[i].metrics[m])) \in Nat
    BY <2>1, <2>2, RequestFacts, PointsFacts
  <2> QED BY <2>1, <2>2 DEF Init, At
<1>2. Seen = {}
  <2>1. ASSUME NEW x \in Seen PROVE FALSE
    <3>1. PICK r \in DOMAIN request : \E m \in DOMAIN request[r].metrics :
             \E p \in DOMAIN Points(request[r].metrics[m]) : Done(r, m, p)
      BY SeenIs, <2>1
    <3>2. PICK m \in DOMAIN request[r].metrics :
             \E p \in DOMAIN Points(request[r].metrics[m]) : Done(r, m, p)
      BY <3>1
    <3>3. PICK p \in DOMAIN Points(request[r].metrics[m]) : Done(r, m, p)
      BY <3>2
    <3>4. r \in Nat \ {0} /\ m \in Nat \ {0} /\ p \in Nat \ {0}
      <4>1. request \in Requests
        BY <1>1 DEF At
      <4>2. r \in 1..Len(request) /\ Len(request) \in Nat
        BY <4>1, RequestFacts
      <4>3. m \in 1..Len(request[r].metrics) /\ Len(request[r].metrics) \in Nat
        BY <4>1, RequestFacts
      <4>4. p \in 1..Len(Points(request[r].metrics[m])) /\ Len(Points(request[r].metrics[m])) \in Nat
        BY <4>1, PointsFacts
      <4> QED BY <4>2, <4>3, <4>4
    <3> QED BY <3>3, <3>4 DEF Done, Init
  <2> QED BY <2>1
<1>3. DeriveAll({}) = NoContents
  BY DEF DeriveAll, NoContents
<1>4. UNION {Alone(x) : x \in Seen} = {}
  BY <1>2
<1>5. DerivesEachAlone
  BY <1>3, <1>4 DEF Init, DerivesEachAlone
<1> QED BY <1>1, <1>5 DEF WalkInv, Init, NoAttrs
LEMMA DatapointStep ==
  ASSUME WalkInv, DerivesEachAlone, Datapoint PROVE WalkInv' /\ DerivesEachAlone'
<1> DEFINE q == Points(Metric)[point']
           x == [attrs |-> Resource.attrs, series |-> q]
<1>1. /\ request \in Requests /\ Len(request) \in Nat /\ DOMAIN request = 1..Len(request)
      /\ i \in DOMAIN request /\ k \in Nat \ {0} /\ k <= Len(Resource.metrics)
      /\ point \in Nat /\ point < Len(Points(Metric)) /\ point' = point + 1
      /\ request' = request /\ i' = i /\ k' = k
  BY RequestFacts DEF WalkInv, At, Datapoint, InMetric, Resource, Metric
<1>2. /\ Resource.attrs \in Resources
      /\ Len(Resource.metrics) \in Nat /\ DOMAIN Resource.metrics = 1..Len(Resource.metrics)
      /\ k \in DOMAIN Resource.metrics /\ Metric \in Metrics
  <2>1. /\ Resource.attrs \in Resources /\ Resource.metrics \in Seq(Metrics)
        /\ Len(Resource.metrics) \in Nat /\ DOMAIN Resource.metrics = 1..Len(Resource.metrics)
    BY <1>1, RequestFacts DEF Resource
  <2> QED BY <1>1, <2>1 DEF Metric
<1>3. /\ Len(Points(Metric)) \in Nat /\ DOMAIN Points(Metric) = 1..Len(Points(Metric))
      /\ point' \in DOMAIN Points(Metric) /\ q \in Datapoints
  BY <1>1, <1>2, PointsFacts
<1>4. At(request, i, k, point)'
  BY <1>1, <1>2, <1>3 DEF At, Resource, Metric
<1>5. buf' = TemplatizeAttrs(q)
  BY <1>3, ReadIntoIs DEF Datapoint
<1>6. DOMAIN buf' = Series
  <2>1. DOMAIN q = Series
    BY <1>3, RequestAssumption
  <2> QED BY <1>5, <2>1 DEF TemplatizeAttrs
<1>7. Seen' = Seen \cup {x}
  <2>1. ASSUME NEW r, NEW m, NEW p, r \in DOMAIN request, m \in DOMAIN request[r].metrics,
               p \in DOMAIN Points(request[r].metrics[m])
        PROVE  Done(r, m, p)' <=> Done(r, m, p) \/ (r = i /\ m = k /\ p = point')
    <3>1. r \in Nat /\ m \in Nat /\ p \in Nat
      <4>1. r \in Nat /\ m \in Nat /\ request[r].metrics[m] \in Metrics
        BY <1>1, <2>1, RequestFacts
      <4> QED BY <4>1, <2>1, PointsFacts
    <3> QED BY <1>1, <3>1 DEF Done
  <2> HIDE DEF q
  <2>2. ASSUME NEW y, y \in Seen' PROVE y \in Seen \/ y = x
    <3>1. PICK r \in DOMAIN request : \E m \in DOMAIN request[r].metrics :
             \E p \in DOMAIN Points(request[r].metrics[m]) :
               /\ Done(r, m, p)'
               /\ y = [attrs |-> request[r].attrs, series |-> Points(request[r].metrics[m])[p]]
      BY <2>2, <1>1 DEF Seen, SeenIn
    <3>2. PICK m \in DOMAIN request[r].metrics :
             \E p \in DOMAIN Points(request[r].metrics[m]) :
               /\ Done(r, m, p)'
               /\ y = [attrs |-> request[r].attrs, series |-> Points(request[r].metrics[m])[p]]
      BY <3>1
    <3>3. PICK p \in DOMAIN Points(request[r].metrics[m]) :
               /\ Done(r, m, p)'
               /\ y = [attrs |-> request[r].attrs, series |-> Points(request[r].metrics[m])[p]]
      BY <3>2
    <3>4. CASE Done(r, m, p)
      BY <3>3, <3>4, SeenIs
    <3>5. CASE r = i /\ m = k /\ p = point'
      BY <3>3, <3>5 DEF q, Resource, Metric
    <3> QED BY <2>1, <3>3, <3>4, <3>5
  <2>3. ASSUME NEW y, y \in Seen PROVE y \in Seen'
    <3>1. PICK r \in DOMAIN request : \E m \in DOMAIN request[r].metrics :
             \E p \in DOMAIN Points(request[r].metrics[m]) :
               /\ Done(r, m, p)
               /\ y = [attrs |-> request[r].attrs, series |-> Points(request[r].metrics[m])[p]]
      BY <2>3, SeenIs
    <3>2. \E m \in DOMAIN request[r].metrics :
             \E p \in DOMAIN Points(request[r].metrics[m]) :
               /\ Done(r, m, p)'
               /\ y = [attrs |-> request[r].attrs, series |-> Points(request[r].metrics[m])[p]]
      BY <2>1, <3>1
    <3> QED BY <3>2, <1>1 DEF Seen, SeenIn
  <2>4. x \in Seen'
    <3>1. i < i' \/ (i = i' /\ (k < k' \/ (k = k' /\ point' <= point')))
      BY <1>1
    <3>2. \E p \in DOMAIN Points(request[i].metrics[k]) :
            /\ i < i' \/ (i = i' /\ (k < k' \/ (k = k' /\ p <= point')))
            /\ x = [attrs |-> request[i].attrs, series |-> Points(request[i].metrics[k])[p]]
      BY <3>1, <1>3 DEF q, Resource, Metric
    <3>3. k \in DOMAIN request[i].metrics
      BY <1>2 DEF Resource
    <3> QED BY <3>2, <3>3, <1>1 DEF Seen, SeenIn, Done
  <2> QED BY <2>2, <2>3, <2>4
<1>8. Alone(x) = Derive(Resource.attrs, buf')
  BY <1>5 DEF Alone
<1> DEFINE links == UNION {Alone(y) : y \in Seen}
<1> HIDE DEF x
<1>9. links' = links \cup Alone(x)
  BY <1>7 DEF Alone
<1> HIDE DEF links
<1>10. local = DeriveAll(links)
  BY DEF links, DerivesEachAlone
<1>11. local' = DeriveAll(links')
  BY <1>8, <1>9, <1>10, AddRelationshipsIs DEF Datapoint
<1>12. DerivesEachAlone'
  BY <1>11 DEF links, DerivesEachAlone
<1> QED BY <1>4, <1>6, <1>12 DEF WalkInv, Datapoint
(* A step that does no datapoint leaves what is seen and the set alone.    *)
LEMMA NothingSeen ==
  ASSUME DerivesEachAlone, request' = request, local' = local,
         \A r \in DOMAIN request : \A m \in DOMAIN request[r].metrics :
           \A p \in DOMAIN Points(request[r].metrics[m]) : Done(r, m, p)' <=> Done(r, m, p)
  PROVE  DerivesEachAlone'
<1>1. ASSUME NEW r \in DOMAIN request, NEW m \in DOMAIN request[r].metrics
      PROVE  SeenIn(r, m)' = SeenIn(r, m)
  BY <1>1 DEF SeenIn
<1>2. Seen' = Seen
  <2>1. ASSUME NEW r \in DOMAIN request
        PROVE  UNION {SeenIn(r, m)' : m \in DOMAIN request[r].metrics}
                 = UNION {SeenIn(r, m) : m \in DOMAIN request[r].metrics}
    BY <1>1
  <2> QED BY <2>1 DEF Seen
<1> DEFINE links == UNION {Alone(y) : y \in Seen}
<1>3. links' = links
  BY <1>2 DEF Alone
<1> HIDE DEF links
<1>4. local = DeriveAll(links)
  BY DEF links, DerivesEachAlone
<1>5. local' = DeriveAll(links')
  BY <1>3, <1>4
<1> QED BY <1>5 DEF links, DerivesEachAlone

LEMMA NextMetricStep ==
  ASSUME WalkInv, DerivesEachAlone, NextMetric PROVE WalkInv' /\ DerivesEachAlone'
<1>1. /\ request \in Requests /\ Len(request) \in Nat /\ DOMAIN request = 1..Len(request)
      /\ i \in DOMAIN request /\ k \in Nat \ {0} /\ k <= Len(Resource.metrics)
      /\ point \in Nat /\ point = Len(Points(Metric)) /\ point' = 0 /\ k' = k + 1
      /\ request' = request /\ i' = i /\ local' = local /\ buf' = buf
      /\ records' \in Nat
  BY RequestFacts DEF WalkInv, At, NextMetric, InMetric, Resource, Metric
<1>2. /\ Len(Resource.metrics) \in Nat /\ DOMAIN Resource.metrics = 1..Len(Resource.metrics)
      /\ k \in DOMAIN Resource.metrics /\ Metric \in Metrics
  <2>1. /\ Resource.metrics \in Seq(Metrics)
        /\ Len(Resource.metrics) \in Nat /\ DOMAIN Resource.metrics = 1..Len(Resource.metrics)
    BY <1>1, RequestFacts DEF Resource
  <2> QED BY <1>1, <2>1 DEF Metric
<1>3. At(request, i, k, point)'
  <2>1. \A m \in DOMAIN Resource.metrics : Len(Points(Resource.metrics[m])) \in Nat
    BY <1>1, RequestFacts, PointsFacts DEF Resource
  <2> QED BY <1>1, <1>2, <2>1 DEF At, Resource
<1>4. ASSUME NEW r \in DOMAIN request, NEW m \in DOMAIN request[r].metrics,
             NEW p \in DOMAIN Points(request[r].metrics[m])
      PROVE  Done(r, m, p)' <=> Done(r, m, p)
  <2>1. r \in Nat /\ m \in Nat /\ request[r].metrics[m] \in Metrics
    <3>1. /\ r \in 1..Len(request) /\ Len(request) \in Nat
          /\ request[r].metrics \in Seq(Metrics)
          /\ m \in 1..Len(request[r].metrics) /\ Len(request[r].metrics) \in Nat
      BY <1>1, RequestFacts
    <3> QED BY <3>1
  <2>2. p \in Nat \ {0}
    BY <2>1, PointsFacts
  <2>3. r = i /\ m = k => p <= point
    BY <1>1, <2>1, PointsFacts DEF Resource, Metric
  <2> QED BY <1>1, <2>1, <2>2, <2>3 DEF Done
<1>5. DerivesEachAlone'
  BY <1>1, <1>4, NothingSeen
<1> QED BY <1>1, <1>3, <1>5 DEF WalkInv

LEMMA NextResourceStep ==
  ASSUME WalkInv, DerivesEachAlone, NextResource PROVE WalkInv' /\ DerivesEachAlone'
<1>1. /\ request \in Requests /\ Len(request) \in Nat /\ DOMAIN request = 1..Len(request)
      /\ i \in DOMAIN request /\ i' = i + 1 /\ k \in Nat \ {0} /\ k > Len(Resource.metrics)
      /\ k' = 1 /\ point' = point
      /\ request' = request /\ local' = local /\ buf' = buf /\ records' = records
  BY RequestFacts DEF WalkInv, At, NextResource, Resource
<1>2. Len(Resource.metrics) \in Nat /\ DOMAIN Resource.metrics = 1..Len(Resource.metrics)
  BY <1>1, RequestFacts DEF Resource
<1>3. point = 0
  BY <1>1, <1>2 DEF WalkInv, At, Resource
<1>4. At(request, i, k, point)'
  <2>1. ASSUME i' \in DOMAIN request
        PROVE  /\ Len(request[i'].metrics) \in Nat
               /\ \A m \in DOMAIN request[i'].metrics :
                    Len(Points(request[i'].metrics[m])) \in Nat
    BY <1>1, <2>1, RequestFacts, PointsFacts
  <2> QED BY <1>1, <1>3, <2>1 DEF At
<1>5. ASSUME NEW r \in DOMAIN request, NEW m \in DOMAIN request[r].metrics,
             NEW p \in DOMAIN Points(request[r].metrics[m])
      PROVE  Done(r, m, p)' <=> Done(r, m, p)
  <2>1. r \in Nat /\ m \in Nat \ {0} /\ request[r].metrics[m] \in Metrics
    BY <1>1, RequestFacts
  <2>2. p \in Nat \ {0}
    BY <2>1, PointsFacts
  <2>3. r = i => m < k
    BY <1>1, <1>2, <2>1 DEF Resource
  <2> QED BY <1>1, <1>3, <2>1, <2>2, <2>3 DEF Done
<1>6. DerivesEachAlone'
  BY <1>1, <1>5, NothingSeen
<1> QED BY <1>1, <1>4, <1>6 DEF WalkInv

LEMMA WalkNext == WalkInv /\ DerivesEachAlone /\ [Next]_vars => WalkInv' /\ DerivesEachAlone'
<1> SUFFICES ASSUME WalkInv, DerivesEachAlone, [Next]_vars PROVE WalkInv' /\ DerivesEachAlone'
  OBVIOUS
<1>1. CASE Datapoint
  BY <1>1, DatapointStep
<1>2. CASE NextMetric
  BY <1>2, NextMetricStep
<1>3. CASE NextResource
  BY <1>3, NextResourceStep
<1>4. CASE UNCHANGED vars
  <2>1. ASSUME NEW r \in DOMAIN request, NEW m \in DOMAIN request[r].metrics,
               NEW p \in DOMAIN Points(request[r].metrics[m])
        PROVE  Done(r, m, p)' <=> Done(r, m, p)
    BY <1>4 DEF vars, Done
  <2>2. DerivesEachAlone'
    BY <1>4, <2>1, NothingSeen DEF vars
  <2> QED BY <1>4, <2>2 DEF vars, WalkInv, At
<1> QED BY <1>1, <1>2, <1>3, <1>4 DEF Next

(* Nothing of a datapoint leaks into another through the map they share:   *)
(* at every moment the set is that of the links each datapoint that is     *)
(* done gives on its own (receiver.go 86-118).                             *)
THEOREM EachAloneCorrect == Spec => []DerivesEachAlone
<1>1. Spec => [](WalkInv /\ DerivesEachAlone)
  BY WalkInit, WalkNext, PTL DEF Spec
<1> QED BY <1>1, PTL
LEMMA SeenLinks ==
  ASSUME WalkInv PROVE UNION {Alone(x) : x \in Seen} \subseteq Link
<1>1. ASSUME NEW x \in Seen PROVE Alone(x) \subseteq Link
  <2>1. x.attrs \in Resources /\ x.series \in Datapoints
    BY SeenType DEF WalkInv, At
  <2> QED BY <2>1, RequestAssumption DEF Alone
<1> QED BY <1>1

LEMMA DeriveAllType ==
  ASSUME NEW links \in SUBSET Link PROVE DeriveAll(links) \in Contents
<1>1. \A l \in links : l.rel \in Rel
  BY LinkAssumption
<1>2. \A l \in links : Forward(l) \in Edge /\ Reverse(l) \in Edge
  BY DEF Edge
<1> QED BY <1>1, <1>2 DEF DeriveAll, Contents

(* The set holds relationship entities only, never a container or a pod,   *)
(* and edges of links that there are (builder.go 3-8).                     *)
THEOREM TypeCorrect == Spec => []TypeOK
<1>1. WalkInv /\ DerivesEachAlone => TypeOK
  <2> SUFFICES ASSUME WalkInv, DerivesEachAlone PROVE TypeOK
    OBVIOUS
  <2>1. local \in Contents
    BY SeenLinks, DeriveAllType DEF DerivesEachAlone
  <2> QED BY <2>1 DEF WalkInv, At, TypeOK
<1>2. Spec => [](WalkInv /\ DerivesEachAlone)
  BY WalkInit, WalkNext, PTL DEF Spec
<1> QED BY <1>1, <1>2, PTL

-----------------------------------------------------------------------------
(* Paths.                                                                  *)

LEMMA ConstantFacts == /\ Template \in Placeholders /\ Template \notin Digits
                       /\ Template \in Segment
                       /\ Digits \subseteq Segment /\ Placeholders \subseteq Segment
                       /\ \A seg \in Segment : Unescape[seg] \in Segment
                       /\ Digits \cap Placeholders = {}
BY TemplateAssumption

LEMMA PathsEqual ==
  ASSUME NEW p \in Paths, NEW q \in Paths, Len(p) = Len(q), \A n \in DOMAIN p : p[n] = q[n]
  PROVE  p = q
BY DEF Paths

LEMMA PathOperators ==
  ASSUME NEW p \in Paths
  PROVE  /\ TemplatizePath(p) \in Paths /\ Len(TemplatizePath(p)) = Len(p)
         /\ NormalizeRoute(p) \in Paths /\ Len(NormalizeRoute(p)) = Len(p)
         /\ Unescaped(p) \in Paths /\ Len(Unescaped(p)) = Len(p)
         /\ DOMAIN p = 1..Len(p) /\ Len(p) \in Nat
         /\ \A n \in 1..Len(p) :
              /\ p[n] \in Segment
              /\ TemplatizePath(p)[n] = IF p[n] \in Digits THEN Template ELSE p[n]
              /\ NormalizeRoute(p)[n] = IF p[n] \in Placeholders \cup Digits THEN Template
                                                                             ELSE p[n]
              /\ Unescaped(p)[n] = Unescape[p[n]]
<1>1. DOMAIN p = 1..Len(p) /\ Len(p) \in Nat /\ \A n \in 1..Len(p) : p[n] \in Segment
  BY DEF Paths
<1>2. ASSUME NEW f, f \in [1..Len(p) -> Segment] PROVE f \in Paths /\ Len(f) = Len(p)
  BY <1>1, <1>2 DEF Paths
<1>3. TemplatizePath(p) \in [1..Len(p) -> Segment]
  BY <1>1, ConstantFacts DEF TemplatizePath
<1>4. NormalizeRoute(p) \in [1..Len(p) -> Segment]
  BY <1>1, ConstantFacts DEF NormalizeRoute
<1>5. Unescaped(p) \in [1..Len(p) -> Segment]
  BY <1>1, ConstantFacts DEF Unescaped
<1>6. \A n \in 1..Len(p) :
        /\ TemplatizePath(p)[n] = IF p[n] \in Digits THEN Template ELSE p[n]
        /\ NormalizeRoute(p)[n] = IF p[n] \in Placeholders \cup Digits THEN Template ELSE p[n]
        /\ Unescaped(p)[n] = Unescape[p[n]]
  BY <1>1 DEF TemplatizePath, NormalizeRoute, Unescaped, Numbered
<1> QED BY <1>1, <1>2, <1>3, <1>4, <1>5, <1>6

LEMMA NormalizedTemplate ==
  ASSUME NEW p \in Paths PROVE NormalizeRoute(TemplatizePath(p)) = NormalizeRoute(p)
<1> DEFINE q == TemplatizePath(p)
<1>1. q \in Paths /\ Len(q) = Len(p) /\ Len(p) \in Nat
  BY PathOperators
<1>2. \A n \in 1..Len(p) : q[n] = IF p[n] \in Digits THEN Template ELSE p[n]
  BY PathOperators
<1> HIDE DEF q
<1>3. /\ NormalizeRoute(q) \in Paths /\ Len(NormalizeRoute(q)) = Len(p)
      /\ \A n \in 1..Len(p) : NormalizeRoute(q)[n] = IF q[n] \in Placeholders \cup Digits
                                                     THEN Template ELSE q[n]
  BY <1>1, PathOperators
<1>4. /\ NormalizeRoute(p) \in Paths /\ Len(NormalizeRoute(p)) = Len(p)
      /\ \A n \in 1..Len(p) : NormalizeRoute(p)[n] = IF p[n] \in Placeholders \cup Digits
                                                     THEN Template ELSE p[n]
  BY PathOperators
<1>5. DOMAIN NormalizeRoute(q) = 1..Len(p)
  BY <1>3, PathOperators
<1>6. ASSUME NEW n \in 1..Len(p) PROVE NormalizeRoute(q)[n] = NormalizeRoute(p)[n]
  BY <1>2, <1>3, <1>4, ConstantFacts
<1>7. NormalizeRoute(q) = NormalizeRoute(p)
  BY <1>3, <1>4, <1>5, <1>6, PathsEqual
<1> QED BY <1>7 DEF q

(* Unescaping does nothing to a path that fits a route, templatized or     *)
(* not, and the two normalize to the same.                                 *)
LEMMA FittingPath ==
  ASSUME NEW p \in Paths, NEW route \in Paths, Fits(p, route)
  PROVE  /\ Unescaped(p) = p /\ Unescaped(TemplatizePath(p)) = TemplatizePath(p)
         /\ \A n \in DOMAIN p : p[n] \notin Malformed /\ TemplatizePath(p)[n] \notin Malformed
         /\ NormalizeRoute(p) = NormalizeRoute(route)
<1> DEFINE q == TemplatizePath(p)
<1>1. /\ q \in Paths /\ Len(q) = Len(p) /\ Len(p) \in Nat
      /\ DOMAIN p = 1..Len(p) /\ DOMAIN q = 1..Len(p) /\ Len(route) = Len(p)
  <2>1. q \in Paths /\ Len(q) = Len(p) /\ Len(p) \in Nat /\ DOMAIN p = 1..Len(p)
    BY PathOperators
  <2>2. DOMAIN q = 1..Len(q)
    BY <2>1, PathOperators
  <2> QED BY <2>1, <2>2 DEF Fits
<1>2. \A n \in 1..Len(p) : q[n] = IF p[n] \in Digits THEN Template ELSE p[n]
  BY PathOperators
<1> HIDE DEF q
<1>3. ASSUME NEW n \in 1..Len(p)
      PROVE  /\ Unescape[p[n]] = p[n] /\ p[n] \notin Malformed
             /\ Unescape[q[n]] = q[n] /\ q[n] \notin Malformed
  BY <1>1, <1>2, EscapeAssumption DEF Fits
<1>4. Unescaped(p) = p
  <2>1. /\ Unescaped(p) \in Paths /\ Len(Unescaped(p)) = Len(p)
        /\ \A n \in 1..Len(p) : Unescaped(p)[n] = Unescape[p[n]]
    BY PathOperators
  <2> QED BY <2>1, <1>1, <1>3, PathsEqual
<1>5. Unescaped(q) = q
  <2>1. /\ Unescaped(q) \in Paths /\ Len(Unescaped(q)) = Len(q)
        /\ \A n \in 1..Len(q) : Unescaped(q)[n] = Unescape[q[n]]
    BY <1>1, PathOperators
  <2> QED BY <2>1, <1>1, <1>3, PathsEqual
<1>6. NormalizeRoute(p) = NormalizeRoute(route)
  <2>1. /\ NormalizeRoute(p) \in Paths /\ Len(NormalizeRoute(p)) = Len(p)
        /\ \A n \in 1..Len(p) : NormalizeRoute(p)[n] = IF p[n] \in Placeholders \cup Digits
                                                       THEN Template ELSE p[n]
    BY PathOperators
  <2>2. /\ NormalizeRoute(route) \in Paths /\ Len(NormalizeRoute(route)) = Len(p)
        /\ \A n \in 1..Len(p) : NormalizeRoute(route)[n] =
             IF route[n] \in Placeholders \cup Digits THEN Template ELSE route[n]
    BY <1>1, PathOperators
  <2>3. ASSUME NEW n \in 1..Len(p) PROVE NormalizeRoute(p)[n] = NormalizeRoute(route)[n]
    BY <1>1, <2>1, <2>2 DEF Fits
  <2>4. DOMAIN NormalizeRoute(p) = 1..Len(p)
    BY <2>1, PathOperators
  <2> QED BY <2>1, <2>2, <2>3, <2>4, PathsEqual
<1> QED BY <1>1, <1>3, <1>4, <1>5, <1>6 DEF q

(* The path of a templatized URL is the one the callee's route has.        *)
LEMMA FittingURL ==
  ASSUME NEW url \in URLs, NEW route \in Paths, Fits(url.path, route)
  PROVE  /\ TemplatizeURL(url) \in URLs
         /\ ExtractURLPath(TemplatizeURL(url)) # <<>>
         /\ NormalizeRoute(ExtractURLPath(TemplatizeURL(url))) = NormalizeRoute(route)
<1> DEFINE p == url.path
           q == TemplatizePath(p)
<1>1. p \in Paths /\ url.form \in {"bare", "absolute", "relative"} /\ p # <<>>
  BY DEF URLs, Fits
<1>2. /\ q \in Paths /\ Len(q) = Len(p) /\ NormalizeRoute(q) = NormalizeRoute(p)
      /\ DOMAIN q = DOMAIN p
  <2>1. q \in Paths /\ Len(q) = Len(p)
    BY <1>1, PathOperators
  <2> QED BY <2>1, <1>1, PathOperators, NormalizedTemplate
<1>3. /\ Unescaped(p) = p /\ Unescaped(q) = q
      /\ \A n \in DOMAIN p : p[n] \notin Malformed /\ q[n] \notin Malformed
      /\ NormalizeRoute(p) = NormalizeRoute(route)
  BY <1>1, FittingPath
<1>4. q # <<>>
  BY <1>1, <1>2 DEF Paths
<1> HIDE DEF q
<1>5. Parses(url)
  BY <1>3 DEF Parses
<1>6. CASE url.form = "relative"
  <2>1. TemplatizeURL(url) = url
    BY <1>6 DEF TemplatizeURL
  <2>2. ExtractURLPath(url) = p
    BY <1>3, <1>5, <1>6 DEF ExtractURLPath
  <2> QED BY <1>1, <1>3, <2>1, <2>2
<1>7. CASE url.form # "relative"
  <2> DEFINE new == [url EXCEPT !.path = q, !.query = FALSE]
  <2>1. TemplatizeURL(url) = new
    BY <1>1, <1>3, <1>5, <1>7 DEF TemplatizeURL, q
  <2>2. new \in URLs /\ new.path = q /\ new.form = url.form
    BY <1>2 DEF URLs
  <2> HIDE DEF new
  <2>3. Parses(new)
    BY <1>2, <1>3, <2>2 DEF Parses
  <2>4. ExtractURLPath(new) = q
    BY <1>3, <2>2, <2>3 DEF ExtractURLPath
  <2> QED BY <1>2, <1>3, <1>4, <2>1, <2>2, <2>4
<1> QED BY <1>6, <1>7
-----------------------------------------------------------------------------
(* Endpoints and names.                                                    *)

LEMMA Templatized ==
  ASSUME NEW s \in Datapoints
  PROVE  /\ \A a \in Series \ {"url.full", "span.name"} : TemplatizeAttrs(s)[a] = s[a]
         /\ TemplatizeAttrs(s)["url.full"] =
              IF s["url.full"] = NoAttr THEN NoAttr ELSE TemplatizeURL(s["url.full"])
         /\ TemplatizeAttrs(s)["span.name"] =
              IF s["span.name"] = NoAttr THEN NoAttr ELSE TemplatizeSpanName(s["span.name"])
<1>1. DOMAIN s = Series /\ s = [a \in Series |-> s[a]]
  BY RequestAssumption
<1>2. "url.full" \in Series /\ "span.name" \in Series
  BY DEF Series
<1> QED BY <1>1, <1>2 DEF TemplatizeAttrs

LEMMA TemplatizedSame ==
  ASSUME NEW s \in Datapoints, NEW r
  PROVE  LET t == TemplatizeAttrs(s)
         IN  /\ SpanKind(t) = SpanKind(s) /\ ServiceOf(r, t) = ServiceOf(r, s)
             /\ TargetOf(t) = TargetOf(s)
             /\ t["http.request.method"] = s["http.request.method"]
             /\ t["http.route"] = s["http.route"]
<1>1. \A a \in {"span.kind", "service.name", "peer.service", "server.address",
                "http.request.method", "http.route"} : TemplatizeAttrs(s)[a] = s[a]
  BY Templatized DEF Series
<1> QED BY <1>1 DEF SpanKind, ServiceOf, TargetOf

EndpointId(service, s, path) ==
  <<"endpoint", service, s["http.request.method"], NormalizeRoute(path)>>

(* What somebody who serves a route gives.                                 *)
LEMMA ServerLink ==
  ASSUME NEW x, x.series \in Datapoints, Serves(x),
         x.series["http.request.method"] # NoAttr, x.series["http.route"] # <<>>,
         NEW emitter \in EmitterFor(x.attrs)
  PROVE  LinkTo(emitter, "EXPOSES",
                EndpointId(ServiceOf(x.attrs, x.series), x.series, x.series["http.route"]),
                NoAttr) \in Alone(x)
<1> DEFINE t == TemplatizeAttrs(x.series)
<1>1. /\ SpanKind(t) = "SERVER" /\ ServiceOf(x.attrs, t) = ServiceOf(x.attrs, x.series)
      /\ t["http.request.method"] = x.series["http.request.method"]
      /\ t["http.route"] = x.series["http.route"]
  BY TemplatizedSame DEF Serves
<1> HIDE DEF t
<1>2. EndpointLinks(emitter, x.attrs, t) =
        {LinkTo(emitter, "EXPOSES",
                EndpointId(ServiceOf(x.attrs, x.series), x.series, x.series["http.route"]),
                NoAttr)}
  BY <1>1 DEF EndpointLinks, Endpoint, EndpointId, Serves
<1>3. EndpointLinks(emitter, x.attrs, t) \subseteq Derive(x.attrs, t)
  BY DEF Derive
<1> QED BY <1>2, <1>3 DEF t, Alone

(* What somebody who calls it gives.                                       *)
LEMMA ClientLink ==
  ASSUME NEW x, NEW y, x.series \in Datapoints, y.series \in Datapoints,
         Serves(x), CallsOf(y, x),
         NEW emitter \in EmitterFor(y.attrs)
  PROVE  LinkTo(emitter, "CALLS",
                EndpointId(ServiceOf(x.attrs, x.series), x.series, x.series["http.route"]),
                NoAttr) \in Alone(y)
<1> DEFINE t == TemplatizeAttrs(y.series)
           url == y.series["url.full"]
           route == x.series["http.route"]
           path == ExtractURLPath(TemplatizeURL(url))
<1>1. url \in URLs /\ route \in Paths /\ Fits(url.path, route)
  BY RequestAssumption DEF Serves, CallsOf
<1>2. TemplatizeURL(url) \in URLs /\ path # <<>> /\ NormalizeRoute(path) = NormalizeRoute(route)
  BY <1>1, FittingURL
<1>3. t["url.full"] = TemplatizeURL(url) /\ t["url.full"] # NoAttr
  BY <1>2, Templatized, AttrAssumption DEF CallsOf
<1>4. /\ SpanKind(t) = "CLIENT" /\ TargetOf(t) = ServiceOf(x.attrs, x.series)
      /\ TargetOf(t) # NoAttr
      /\ t["http.request.method"] = x.series["http.request.method"]
      /\ t["http.request.method"] # NoAttr
  BY TemplatizedSame DEF CallsOf, Serves
<1> HIDE DEF t
<1>5. EndpointLinks(emitter, y.attrs, t) = Endpoint(emitter, "CALLS", TargetOf(t), t, path)
  BY <1>3, <1>4 DEF EndpointLinks
<1> HIDE DEF path, route
<1>6. Endpoint(emitter, "CALLS", TargetOf(t), t, path) =
        {LinkTo(emitter, "CALLS", EndpointId(ServiceOf(x.attrs, x.series), x.series, route),
                NoAttr)}
  BY <1>2, <1>4 DEF Endpoint, EndpointId
<1>7. EndpointLinks(emitter, y.attrs, t) \subseteq Derive(y.attrs, t)
  BY DEF Derive
<1> QED BY <1>5, <1>6, <1>7 DEF t, route, Alone

(* A caller and a callee meet in one endpoint, whatever form the URL has,  *)
(* and whether the route is written with numbers or with placeholders      *)
(* (endpoints.go 153-157).                                                 *)
THEOREM MeetCorrect == Spec => []CallerMeetsCallee
<1>1. ASSUME WalkInv, DerivesEachAlone PROVE CallerMeetsCallee
  <2> SUFFICES ASSUME NEW x \in Seen, NEW y \in Seen, Serves(x), CallsOf(y, x)
               PROVE  \E endpoint \in local.entities :
                        /\ \A emitter \in EmitterFor(x.attrs) :
                             Forward(LinkTo(emitter, "EXPOSES", endpoint, NoAttr)) \in local.edges
                        /\ \A emitter \in EmitterFor(y.attrs) :
                             Forward(LinkTo(emitter, "CALLS", endpoint, NoAttr)) \in local.edges
    BY DEF CallerMeetsCallee
  <2> DEFINE links == UNION {Alone(z) : z \in Seen}
             endpoint == EndpointId(ServiceOf(x.attrs, x.series), x.series,
                                    x.series["http.route"])
  <2>1. x.series \in Datapoints /\ y.series \in Datapoints
    BY <1>1, SeenType DEF WalkInv, At
  <2>2. Alone(x) \subseteq links /\ Alone(y) \subseteq links /\ local = DeriveAll(links)
    BY <1>1 DEF DerivesEachAlone
  <2>3. x.series["http.request.method"] # NoAttr /\ x.series["http.route"] # <<>>
    <3>1. x.series["http.route"] \in Paths
      BY <2>1, RequestAssumption DEF Serves
    <3>2. y.series["url.full"] \in URLs
      BY <2>1, RequestAssumption DEF CallsOf
    <3> QED BY <3>1, <3>2 DEF CallsOf, Fits, URLs, Paths
  <2> HIDE DEF links, endpoint
  <2>4. ASSUME NEW emitter \in EmitterFor(x.attrs)
        PROVE  LinkTo(emitter, "EXPOSES", endpoint, NoAttr) \in links
    BY <2>1, <2>2, <2>3, ServerLink DEF endpoint
  <2>5. ASSUME NEW emitter \in EmitterFor(y.attrs)
        PROVE  LinkTo(emitter, "CALLS", endpoint, NoAttr) \in links
    BY <2>1, <2>2, ClientLink DEF endpoint
  <2>6. endpoint \in local.entities
    <3>1. PICK emitter : emitter \in EmitterFor(x.attrs)
      BY DEF Serves
    <3>2. LinkTo(emitter, "EXPOSES", endpoint, NoAttr).rel = endpoint
      BY DEF LinkTo
    <3> QED BY <2>2, <2>4, <3>1, <3>2 DEF DeriveAll
  <2>7. \A l \in links : Forward(l) \in local.edges
    BY <2>2 DEF DeriveAll
  <2> QED BY <2>4, <2>5, <2>6, <2>7
<1>2. Spec => [](WalkInv /\ DerivesEachAlone)
  BY WalkInit, WalkNext, PTL DEF Spec
<1> QED BY <1>1, <1>2, PTL

(* What a link can say: an action is no name or a templatized one, and an  *)
(* endpoint has a path without numbers.                                    *)
Templates(name) == Named(name) /\ \A n \in DOMAIN name.path : name.path[n] \notin Digits
Normal(path) == path \in Paths /\ \A n \in DOMAIN path : path[n] \notin Digits

Shaped(l, kind, rel, action) ==
  /\ l.label = <<kind, action>> /\ l.rel = rel
  /\ action # NoAttr => Templates(action)
  /\ rel[1] = "endpoint" =>
       \E service, method, path : Normal(path) /\ rel = <<"endpoint", service, method, path>>
Shape(l) == \E kind, rel, action : Shaped(l, kind, rel, action)

LEMMA NormalizedIsNormal ==
  ASSUME NEW p \in Paths PROVE Normal(NormalizeRoute(p))
<1> DEFINE q == NormalizeRoute(p)
<1>1. /\ q \in Paths /\ Len(q) = Len(p) /\ DOMAIN p = 1..Len(p)
      /\ \A n \in 1..Len(p) : q[n] = IF p[n] \in Placeholders \cup Digits THEN Template ELSE p[n]
  BY PathOperators
<1> HIDE DEF q
<1>2. DOMAIN q = 1..Len(p)
  BY <1>1, PathOperators
<1>3. Normal(q)
  BY <1>1, <1>2, ConstantFacts DEF Normal
<1> QED BY <1>3 DEF q

LEMMA NameTemplates ==
  ASSUME NEW name, Named(name) PROVE Templates(TemplatizeSpanName(name))
<1> DEFINE q == TemplatizePath(name.path)
           new == TemplatizeSpanName(name)
<1>1. /\ q \in Paths /\ DOMAIN q = 1..Len(name.path)
      /\ \A n \in 1..Len(name.path) :
           q[n] = IF name.path[n] \in Digits THEN Template ELSE name.path[n]
  <2>1. q \in Paths /\ Len(q) = Len(name.path)
    BY PathOperators DEF Named
  <2>2. DOMAIN q = 1..Len(q)
    BY <2>1, PathOperators
  <2> QED BY <2>1, <2>2, PathOperators DEF Named
<1> HIDE DEF q
<1>2. new = [word |-> name.word, path |-> q, rest |-> name.rest]
  <2> DEFINE w == name.word
             p == name.path
             r == name.rest
  <2>1. name = [word |-> w, path |-> p, rest |-> r]
    BY DEF Named
  <2> HIDE DEF w, p, r
  <2>2. [name EXCEPT !.path = q] = [word |-> w, path |-> q, rest |-> r]
    BY <2>1
  <2>3. new = [name EXCEPT !.path = q]
    BY DEF TemplatizeSpanName, q
  <2> QED BY <2>2, <2>3 DEF w, r
<1> HIDE DEF new
<1>3. Templates(new)
  BY <1>1, <1>2, ConstantFacts DEF Templates, Named
<1> QED BY <1>3 DEF new

LEMMA URLPaths ==
  ASSUME NEW url \in URLs
  PROVE  TemplatizeURL(url) \in URLs /\ ExtractURLPath(url) \in Paths
<1>1. url.path \in Paths /\ url.form \in {"bare", "absolute", "relative"}
  BY DEF URLs
<1>2. \A p \in Paths : [url EXCEPT !.path = p, !.query = FALSE] \in URLs
  BY DEF URLs
<1>3. TemplatizePath(url.path) \in Paths /\ Unescaped(url.path) \in Paths
  BY <1>1, PathOperators
<1>4. TemplatizePath(Unescaped(url.path)) \in Paths
  BY <1>3, PathOperators
<1>5. TemplatizeURL(url) \in URLs
  <2>1. CASE url.form = "bare"
    BY <1>2, <1>3, <2>1 DEF TemplatizeURL
  <2>2. CASE url.form = "absolute" /\ Parses(url)
    BY <1>2, <1>4, <2>2 DEF TemplatizeURL
  <2>3. CASE url.form # "bare" /\ ~(url.form = "absolute" /\ Parses(url))
    BY <2>3 DEF TemplatizeURL
  <2> QED BY <2>1, <2>2, <2>3
<1>6. <<>> \in Paths
  BY DEF Paths
<1>7. ExtractURLPath(url) \in Paths
  <2>1. CASE url.form = "bare"
    BY <1>1, <2>1 DEF ExtractURLPath
  <2>2. CASE url.form # "bare" /\ Parses(url)
    BY <1>3, <2>2 DEF ExtractURLPath
  <2>3. CASE url.form # "bare" /\ ~Parses(url)
    BY <1>6, <2>3 DEF ExtractURLPath
  <2> QED BY <2>1, <2>2, <2>3
<1> QED BY <1>5, <1>7

LEMMA LinkShape ==
  ASSUME NEW emitter, NEW kind, NEW rel, NEW action,
         action # NoAttr => Templates(action),
         rel[1] = "endpoint" =>
           \E service, method, path : Normal(path) /\ rel = <<"endpoint", service, method, path>>
  PROVE  Shape(LinkTo(emitter, kind, rel, action))
<1>1. Shaped(LinkTo(emitter, kind, rel, action), kind, rel, action)
  BY DEF Shaped, LinkTo
<1> QED BY <1>1 DEF Shape

LEMMA EndpointShape ==
  ASSUME NEW emitter, NEW kind, NEW service, NEW s, NEW path \in Paths,
         NEW l \in Endpoint(emitter, kind, service, s, path)
  PROVE  Shape(l)
<1> DEFINE rel == EndpointId(service, s, path)
<1>1. l = LinkTo(emitter, kind, rel, NoAttr)
  BY DEF Endpoint, EndpointId
<1>2. Normal(NormalizeRoute(path))
  BY NormalizedIsNormal
<1>3. \E sv, method, p : Normal(p) /\ rel = <<"endpoint", sv, method, p>>
  BY <1>2 DEF EndpointId
<1> HIDE DEF rel
<1> QED BY <1>1, <1>3, LinkShape

LEMMA DatapointShape ==
  ASSUME NEW r, NEW s \in Datapoints, NEW l \in Derive(r, TemplatizeAttrs(s))
  PROVE  Shape(l)
<1> DEFINE t == TemplatizeAttrs(s)
<1>1. /\ t["http.route"] \in Paths \cup {NoAttr}
      /\ t["url.full"] \in URLs \cup {NoAttr}
      /\ t["span.name"] # NoAttr => Named(t["span.name"])
  <2>1. /\ s["http.route"] \in Paths \cup {NoAttr}
        /\ s["url.full"] \in URLs \cup {NoAttr}
        /\ s["span.name"] # NoAttr => Named(s["span.name"])
    BY RequestAssumption
  <2>2. t["http.route"] = s["http.route"]
    BY TemplatizedSame
  <2>3. t["url.full"] = IF s["url.full"] = NoAttr THEN NoAttr ELSE TemplatizeURL(s["url.full"])
    BY Templatized
  <2>4. t["span.name"] =
          IF s["span.name"] = NoAttr THEN NoAttr ELSE TemplatizeSpanName(s["span.name"])
    BY Templatized
  <2> HIDE DEF t
  <2>5. s["url.full"] # NoAttr => TemplatizeURL(s["url.full"]) \in URLs
    BY <2>1, URLPaths
  <2>6. s["span.name"] # NoAttr => Named(TemplatizeSpanName(s["span.name"]))
    BY <2>1, NameTemplates DEF Templates
  <2> QED BY <2>1, <2>2, <2>3, <2>4, <2>5, <2>6
<1> HIDE DEF t
<1>2. PICK emitter \in EmitterFor(r) :
        l \in EndpointLinks(emitter, r, t) \cup TopicLinks(emitter, t) \cup DatabaseLinks(emitter, t)
  BY DEF Derive, t
<1>3. ASSUME l \in EndpointLinks(emitter, r, t) PROVE Shape(l)
  <2>1. CASE SpanKind(t) = "SERVER" /\ t["http.route"] # NoAttr
    <3>1. l \in Endpoint(emitter, "EXPOSES", ServiceOf(r, t), t, t["http.route"])
      BY <1>3, <2>1 DEF EndpointLinks
    <3> QED BY <1>1, <2>1, <3>1, EndpointShape
  <2>2. CASE SpanKind(t) = "CLIENT" /\ t["url.full"] # NoAttr
    <3>1. l \in Endpoint(emitter, "CALLS", TargetOf(t), t, ExtractURLPath(t["url.full"]))
      BY <1>3, <2>2 DEF EndpointLinks
    <3>2. ExtractURLPath(t["url.full"]) \in Paths
      BY <1>1, <2>2, URLPaths
    <3> QED BY <3>1, <3>2, EndpointShape
  <2>3. CASE /\ ~(SpanKind(t) = "SERVER" /\ t["http.route"] # NoAttr)
             /\ ~(SpanKind(t) = "CLIENT" /\ t["url.full"] # NoAttr)
    BY <1>3, <2>3 DEF EndpointLinks
  <2> QED BY <2>1, <2>2, <2>3
<1>4. ASSUME l \in TopicLinks(emitter, t) PROVE Shape(l)
  <2>1. PICK kind, topic : l = LinkTo(emitter, kind, <<"topic", topic>>, NoAttr)
    BY <1>4 DEF TopicLinks
  <2> QED BY <2>1, LinkShape
<1>5. ASSUME l \in DatabaseLinks(emitter, t) PROVE Shape(l)
  <2> DEFINE rel == DatabaseId(t["db.system"], t["server.address"], t["server.port"])
             action == IF t["span.name"] = NoAttr THEN NoAttr
                       ELSE TemplatizeSpanName(t["span.name"])
  <2>1. l = LinkTo(emitter, "QUERIES", rel, action)
    BY <1>5 DEF DatabaseLinks
  <2>2. rel[1] = "database"
    BY DEF DatabaseId
  <2>3. action # NoAttr => Templates(action)
    BY <1>1, NameTemplates
  <2> HIDE DEF rel, action
  <2> QED BY <2>1, <2>2, <2>3, LinkShape
<1> QED BY <1>2, <1>3, <1>4, <1>5

(* Two paths without numbers are the same if they differ by numbers only.  *)
LEMMA SamePaths ==
  ASSUME NEW p \in Paths, NEW q \in Paths, SameButNumbers(p, q),
         \A n \in DOMAIN p : p[n] \notin Digits, \A n \in DOMAIN q : q[n] \notin Digits
  PROVE  p = q
<1>1. Len(p) = Len(q) /\ DOMAIN p = DOMAIN q
  BY DEF SameButNumbers, Paths
<1>2. ASSUME NEW n \in DOMAIN p PROVE p[n] = q[n]
  BY <1>1 DEF SameButNumbers
<1> QED BY <1>1, <1>2, PathsEqual

LEMMA CollapsedEdges ==
  ASSUME NEW links, \A l \in links : Shape(l),
         NEW d \in DeriveAll(links).edges, NEW e \in DeriveAll(links).edges,
         d.from = e.from, d.to = e.to, d.label[1] = e.label[1],
         AlikeNames(d.label[2], e.label[2])
  PROVE  d = e
<1> DEFINE a == d.label[2]
           b == e.label[2]
<1>1. ASSUME NEW x \in DeriveAll(links).edges
      PROVE  /\ x = [from |-> x.from, to |-> x.to, label |-> x.label]
             /\ \E kind, action : /\ x.label = <<kind, action>>
                                  /\ action # NoAttr => Templates(action)
  <2>1. PICK l \in links : x = Forward(l) \/ x = Reverse(l)
    BY DEF DeriveAll
  <2>2. x.label = l.label
    BY <2>1 DEF Forward, Reverse
  <2>3. x = [from |-> x.from, to |-> x.to, label |-> x.label]
    BY <2>1 DEF Forward, Reverse
  <2> QED BY <2>2, <2>3 DEF Shape, Shaped
<1>2. PICK k1, a1 : d.label = <<k1, a1>> /\ (a1 # NoAttr => Templates(a1))
  BY <1>1
<1>3. PICK k2, a2 : e.label = <<k2, a2>> /\ (a2 # NoAttr => Templates(a2))
  BY <1>1
<1>4. k1 = k2 /\ AlikeNames(a1, a2)
  BY <1>2, <1>3
<1>5. Templates(a1) /\ Templates(a2)
  BY <1>2, <1>3, <1>4 DEF AlikeNames
<1>6. a1.path = a2.path
  BY <1>4, <1>5, SamePaths DEF Templates, Named, AlikeNames
<1>7. a1 = a2
  <2> DEFINE w == a1.word
             p == a1.path
             r == a1.rest
  <2>1. a1 = [word |-> w, path |-> p, rest |-> r]
    BY <1>5 DEF Templates, Named
  <2>2. a2 = [word |-> a2.word, path |-> a2.path, rest |-> a2.rest]
    BY <1>5 DEF Templates, Named
  <2>3. a2.word = w /\ a2.path = p /\ a2.rest = r
    BY <1>4, <1>6 DEF AlikeNames
  <2> HIDE DEF w, p, r
  <2> QED BY <2>1, <2>2, <2>3
<1>8. d.label = e.label
  BY <1>2, <1>3, <1>4, <1>7
<1> QED BY <1>1, <1>8

LEMMA CollapsedEndpoints ==
  ASSUME NEW links, \A l \in links : Shape(l),
         NEW x \in DeriveAll(links).entities, NEW y \in DeriveAll(links).entities,
         x[1] = "endpoint", y[1] = "endpoint",
         x[2] = y[2], x[3] = y[3], SameButNumbers(x[4], y[4])
  PROVE  x = y
<1>1. ASSUME NEW z \in DeriveAll(links).entities, z[1] = "endpoint"
      PROVE  Normal(z[4]) /\ z = <<"endpoint", z[2], z[3], z[4]>>
  <2>1. PICK l \in links : z = l.rel
    BY DEF DeriveAll
  <2>2. PICK service, method, path :
          Normal(path) /\ z = <<"endpoint", service, method, path>>
    BY <1>1, <2>1 DEF Shape, Shaped
  <2> QED BY <2>2
<1>2. x[4] = y[4]
  BY <1>1, SamePaths DEF Normal
<1> QED BY <1>1, <1>2

(* No two operations on a database and no two endpoints differ by a number *)
(* only (templatize.go 44-47): the graph does not grow with the ids in     *)
(* requests, however long their paths.                                     *)
THEOREM CollapseCorrect == Spec => []NumbersCollapse
<1>1. ASSUME WalkInv, DerivesEachAlone PROVE NumbersCollapse
  <2> DEFINE links == UNION {Alone(z) : z \in Seen}
  <2>1. ASSUME NEW l \in links PROVE Shape(l)
    <3>1. PICK z \in Seen : l \in Alone(z)
      BY <2>1
    <3>2. z.series \in Datapoints
      BY <1>1, SeenType DEF WalkInv, At
    <3> QED BY <3>1, <3>2, DatapointShape DEF Alone
  <2>2. local = DeriveAll(links)
    BY <1>1 DEF DerivesEachAlone
  <2> HIDE DEF links
  <2>3. \A d, e \in local.edges :
          d.from = e.from /\ d.to = e.to /\ d.label[1] = e.label[1]
            /\ AlikeNames(d.label[2], e.label[2]) => d = e
    BY <2>1, <2>2, CollapsedEdges
  <2>4. \A x, y \in {r \in local.entities : r[1] = "endpoint"} :
          x[2] = y[2] /\ x[3] = y[3] /\ SameButNumbers(x[4], y[4]) => x = y
    BY <2>1, <2>2, CollapsedEndpoints
  <2> QED BY <2>3, <2>4 DEF NumbersCollapse
<1>2. Spec => [](WalkInv /\ DerivesEachAlone)
  BY WalkInit, WalkNext, PTL DEF Spec
<1> QED BY <1>1, <1>2, PTL
(* What a request hands to GraphOtel is what GraphOtel takes for it: the   *)
(* entities and edges of some set of links (receiver.go 63-72).            *)
Outcome == \E links \in SUBSET Link : local = DeriveAll(links)

THEOREM OutcomeCorrect == Spec => []Outcome
<1>1. WalkInv /\ DerivesEachAlone => Outcome
  BY SeenLinks DEF DerivesEachAlone, Outcome
<1>2. Spec => [](WalkInv /\ DerivesEachAlone)
  BY WalkInit, WalkNext, PTL DEF Spec
<1> QED BY <1>1, <1>2, PTL
=============================================================================
