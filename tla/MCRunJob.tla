------------------------------- MODULE MCRunJob -------------------------------
(***************************************************************************)
(* Values for RunJob's constants: the policies of config/policy.yaml and   *)
(* of auth-proxy for the two roles, cut down to the tools the commands use *)
(* and some they must not.                                                 *)
(***************************************************************************)
EXTENDS RunJob

JQuants == {"jq.get_listed_info", "jq.get_daily_quotes", "jq.get_statements"}

Yaml ==
  [role \in {"ai_it_topic_runner", "stock_researcher"} |->
     IF role = "stock_researcher"
       THEN [allow |-> JQuants \cup {Search},
             deny |-> {"x.create_post", "document.write_markdown"}]
       ELSE [allow |-> {Search, Summarize, Commit, "document.write_markdown"},
             deny |-> {"x.create_post"}]]

\* auth-proxy's table knows nothing of claude.summarize_signals.
DevEngine ==
  [role \in {"ai_it_topic_runner", "stock_researcher"} |->
     IF role = "stock_researcher"
       THEN Yaml["stock_researcher"]
       ELSE [allow |-> {Search, Commit, "document.write_markdown"},
             deny |-> {"x.create_post"} \cup JQuants]]

\* A repository that takes daily digests, and one that does not.
Notes ==
  [repo \in {"ai-it-research-notes", "weekly-notes"} |->
     IF repo = "weekly-notes" THEN [allowed |-> {"weekly"}, denied |-> {"daily"}]
                              ELSE [allowed |-> {"daily", "weekly"}, denied |-> {}]]

\* Jobs for either, for one the policy does not name, and with output.repo left
\* empty.
JobTargets == {[repo |-> repo, path |-> "daily"] :
                 repo \in {"ai-it-research-notes", "weekly-notes", "unknown", Nothing}}
=============================================================================
