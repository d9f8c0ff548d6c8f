------------------------------ MODULE MCClient ------------------------------
(***************************************************************************)
(* The client with the API this repository ships, and what holds of that   *)
(* API: its methods are the ones the generator would write.                *)
(***************************************************************************)
EXTENDS Client, GenerateApis, TLC

CONSTANTS root, child1, child2

\* The children are alike.
Symmetry == Permutations({child1, child2})

\* A method with two urls, two verbs and a body, and one with a part of two spellings.
MCProbe == {countApi, tasksGetApi}

\* Every part the caller gives is in the path: it is taken out of the querystring, so else it
\* would be ignored.  nodes.stats may be given an index_metric without the metric it limits,
\* which its url does not provide for.
PartsInPath ==
  IsSent /\ Truthy(last.args) =>
    \A part \in NamesOf(last.method) \cap PartNames :
      Given(last.args, part) =>
        \/ \E k \in DOMAIN last.request.path : last.request.path[k].name = part
        \/ last.method = nodesStatsApi /\ part = ":index_metric" /\ ~Given(last.args, ":metric")

\* What the methods send, and who sends it.
Templates ==
  UNION {UNION {{<<verb, url.path, m>> : verb \in url.methods} : url \in UrlsOf(m)} : m \in Methods}

\* What Elasticsearch is asked for identifies the method that was called: no other method sends
\* this verb to a path of this form.
OneApi ==
  IsSent /\ last.args.method = "absent" =>
    \A t \in Templates :
      t[1] = last.request.verb /\ t[2] = last.url.path => t[3] = last.method

\* A method refuses a call exactly when the checks that its urls call for do, tries the urls
\* with more parts first, and passes a body on exactly if one of its verbs may have one.
AsGenerated ==
  last.of = "api" =>
    /\ last.refused = GenRefuses(last.method, last.args)
    /\ SortedPaths(last.method.urls)
    /\ last.request.body = Body([body |-> GenBody(last.method)], last.args)
=============================================================================
