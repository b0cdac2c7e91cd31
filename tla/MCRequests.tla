----------------------------- MODULE MCRequests -----------------------------
EXTENDS Requests, TLC

Row(kind, w, u) == [kind |-> kind, workspace |-> w, owner |-> u]

(* Of every kind a row for everybody it can belong to, and rows without a  *)
(* workspace where the column is nullable (audit_logs, csp_reports).       *)
MCRows ==
  {Row(kind, w, Nobody) : kind \in {"workspace", "open"}, w \in Workspaces \cup {Nobody}}
    \cup {Row("personal", w, u) : w \in Workspaces, u \in Users}
    \cup {Row("user", Nobody, u) : u \in Users}
    \cup {Row("member", w, Nobody) : w \in Workspaces}

Sym == UNION {Permutations(S) : S \in {Users, Workspaces, Sessions, Requests, Connections}}
=============================================================================
