------------------------------- MODULE MCXMcp -------------------------------
(* Values for XMcp's constants.  Role "digest" may call the tool "search"  *)
(* and is denied "quotes", which an allow pattern of it also matches;      *)
(* role "unknown" has no policy; the tool "post" is not mounted.           *)
EXTENDS XMcp, TLC

CONSTANTS t1, t2, r1, r2

ToolsVal  == {"search", "quotes", "post"}
MountVal  == {"search", "quotes"}
AllowVal  == [r \in {"digest"} |-> {"search", "quotes", "post"}]
DenyVal   == [r \in {"digest"} |-> {"quotes"}]
Perms     == Permutations({t1, t2}) \cup Permutations({r1, r2})
=============================================================================
