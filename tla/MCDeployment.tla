------------------------------ MODULE MCDeployment ------------------------------
(***************************************************************************)
(* The two containers of docker-compose.yml, one of them also by its other *)
(* names, and a managed database with a pooled and a direct endpoint.      *)
(***************************************************************************)
EXTENDS Deployment

Url(h, p, n, t, b) == [host |-> h, port |-> p, name |-> n, text |-> t, blank |-> b]

MCUrls ==
  {Url("localhost", 5433, "preempt", 0, "none"),
   Url("localhost", 5433, "preempt", 1, "none"),       \* another role
   Url("localhost", 5433, "preempt", 0, "behind"),
   Url("localhost", 5433, "preempt", 1, "before"),
   Url("127.0.0.1", 5433, "preempt", 0, "none"),
   Url("localhost", 5434, "preempt_test", 0, "none"),
   Url("pooler", 0, "preempt", 0, "none"),
   Url("direct", 5432, "preempt", 0, "none")}

MCServer ==
  [host \in {"localhost", "127.0.0.1", "pooler", "direct"} |->
     IF host \in {"pooler", "direct"} THEN "neon" ELSE "laptop"]
MCLoopback == {"localhost", "127.0.0.1"}
MCMentionPooler == {url \in MCUrls : url.host = "pooler"}
================================================================================
