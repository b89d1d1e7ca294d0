------------------------------ MODULE MCReports ------------------------------
(* One host, or two that are two targets or the same one; every kind of response.  *)
EXTENDS Reports

Apart == [h1 |-> "h1", h2 |-> "h2"]
Alone == [h1 |-> "h1"]
OneTarget == [h1 |-> "10.0.0.1", h2 |-> "10.0.0.1"]

ConstJobs ==
  LET Job(response, script, node_id, is_not_db, facts, ip) ==
        [response |-> response, playbook_script |-> script, node_id |-> node_id,
         is_not_db |-> is_not_db, facts |-> facts, ip |-> ip]
  IN {Job("sync", FALSE, FALSE, FALSE, FALSE, OneTarget),
      Job("async", FALSE, FALSE, TRUE, TRUE, Apart),
      Job("async", FALSE, FALSE, TRUE, FALSE, OneTarget),
      Job("async_playbook", TRUE, FALSE, FALSE, FALSE, OneTarget),
      Job("async_playbook", FALSE, TRUE, FALSE, FALSE, Apart),
      Job("async_playbook", FALSE, FALSE, TRUE, TRUE, Alone)}
=============================================================================
