----------------------------- MODULE MCReceiver -----------------------------
(* Instances of Receiver for TLC: two resources, datapoints of every kind  *)
(* of span, in requests of up to three datapoints.                         *)
EXTENDS Receiver, TLC

CONSTANTS ns, auth, shop, app, web, mysql, get, post, publish, select

MCSegment == {"", "orders", "7", "8", "{n}", ":id", "100%25", "100%"}
MCUnescape == [s \in MCSegment |-> IF s = "100%25" THEN "100%" ELSE s]

Attrs(pairs) == [a \in Series |-> IF \E p \in pairs : p[1] = a
                                  THEN (CHOOSE p \in pairs : p[1] = a)[2] ELSE NoAttr]
Kind(kind) == <<"span.kind", [kind |-> kind]>>
Url(form, path) == <<"url.full", [form |-> form, path |-> path, query |-> TRUE]>>
Name(word, path, rest) == <<"span.name", [word |-> word, path |-> path, rest |-> rest]>>
Address(host, port) == <<"server.address", [host |-> host, port |-> port]>>
Method == <<"http.request.method", get>>

Server(route) == Attrs({Kind("SERVER"), Method, <<"http.route", route>>})
Client(form, path) == Attrs({Kind("CLIENT"), Method, Url(form, path), Address(shop, 80)})
Query(word, path, rest) == Attrs({Kind("CLIENT"), <<"db.system", mysql>>, Address(web, NoAttr),
                                  <<"server.port", 3306>>, Name(word, path, rest)})
Message(kind) == Attrs({Kind(kind), Name(publish, <<>>, post)})

MCPoints ==
  {Server(<<"orders", ":id">>), Server(<<"">>), Server(<<"orders">>),
   Attrs({Kind("SERVER"), Method, <<"http.route", <<"orders">>>>, <<"service.name", auth>>}),
   Client("absolute", <<"orders", "7">>), Client("bare", <<"orders", "8">>),
   Client("relative", <<"orders", "8">>), Client("absolute", <<>>), Client("absolute", <<"">>),
   Client("absolute", <<"orders", "100%25">>),
   Attrs({Kind("CLIENT"), Method, Url("absolute", <<"orders", "7">>), <<"peer.service", auth>>}),
   Attrs({Kind("CLIENT"), Url("absolute", <<"orders">>)}),
   Query(get, <<"orders", "7">>, NoAttr), Query(get, <<"orders", "8">>, NoAttr),
   Query(NoAttr, <<"orders", "7">>, NoAttr), Query(select, <<>>, auth), Query(select, <<>>, NoAttr),
   Message("PRODUCER"), Message("CONSUMER"),
   Attrs({Kind("PRODUCER"), Name(publish, <<>>, NoAttr)}), NoAttrs}

App == [namespace |-> ns, pod |-> shop, container |-> app, service |-> shop]
Pod == [namespace |-> ns, pod |-> auth, container |-> NoAttr, service |-> NoAttr]
Nowhere == [namespace |-> NoAttr, pod |-> auth, container |-> app, service |-> shop]

OneMetric(type, points) == <<[type |-> type, points |-> points]>>
Of(resource, metrics) == [attrs |-> resource, metrics |-> metrics]

MCRequests ==
  {<<Of(App, OneMetric("sum", <<p, q>>)), Of(Pod, OneMetric("histogram", <<r>>))>> :
     p, q, r \in MCPoints}
  \cup {<<Of(Nowhere, OneMetric("sum", <<p>>)), Of(App, OneMetric("none", <<p>>) \o
          OneMetric("gauge", <<>>))>> : p \in MCPoints}

MCResources == {App, Pod, Nowhere}

MCLink == UNION {Derive(r, TemplatizeAttrs(p)) : r \in {App, Pod}, p \in MCPoints}
MCEmitter == {l.emitter : l \in MCLink}
MCRel == {l.rel : l \in MCLink}
MCLabel == {l.label : l \in MCLink}
=============================================================================
