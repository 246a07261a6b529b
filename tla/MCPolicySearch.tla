--------------------------- MODULE MCPolicySearch ---------------------------
(* Two searches that are asked for the weather, one of them also for what  *)
(* has no intent of its own.  The services are down, have nothing, or have *)
(* three documents, two of which are alike but for their address.          *)
EXTENDS PolicySearch

CONSTANTS s1, s2

Two == {s1, s2}

Entry(title, url, site, reliability) ==
  [title |-> title, snippet |-> {"in town"}, url |-> url, site |-> site, provider |-> "web",
   freshness |-> "live", published |-> "none", reliability |-> reliability]

Three == << Entry({"report"}, "u1", "example.com", 60), Entry({"report"}, "u2", "example.com", 60),
            Entry({"coffee", "news"}, "u3", "ico.org", 50) >>

MCReplies == {Down, Reply(<<>>), Reply(Three)}
MCQueries == [s \in Two |-> IF s = s1 THEN {{"weather"}, {}} ELSE {{"weather"}}]
=============================================================================
