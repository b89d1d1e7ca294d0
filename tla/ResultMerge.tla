----------------------------- MODULE ResultMerge -----------------------------
(***************************************************************************)
(* The results of a job's tasks made into the results of its report:       *)
(* intergrate_messages_by_host (common/utils.py), check_result             *)
(* (common/rabbitmq_handler.py) and _instead_failed_message                *)
(* (callback_plugins/result_rabbitMQ.py).  Operators only.                 *)
(*                                                                         *)
(* A result has the host, the task, whether it was a success, whether the  *)
(* task was skipped ("no", "yes" or, of a loop, "all" or "some" items),    *)
(* the cost, which is the time from the start of the job to the end of the *)
(* task, and the text of its message.                                      *)
(***************************************************************************)
EXTENDS Integers, SequencesExt

(* The task itself was skipped, or every item of its loop. *)
IsSkipped(result) == result.skipped \in {"yes", "all"}

IndicesOf(host, results) == {i \in DOMAIN results : results[i].host = host}

(* Indices in the order of their places, which are 1, 2 and so on. *)
InOrder(place) == [k \in 1..Cardinality(DOMAIN place) |-> CHOOSE i \in DOMAIN place : place[i] = k]

FirstOf(host, results) == Min(IndicesOf(host, results))

FirstResults(results) == {i \in DOMAIN results : i = FirstOf(results[i].host, results)}

(* The hosts in the order of their first results. *)
HostsOf(results) ==
  LET firsts == FirstResults(results)
      ordered == InOrder([i \in firsts |-> Cardinality({j \in firsts : j <= i})])
  IN [k \in DOMAIN ordered |-> results[ordered[k]].host]

EarlierOf(i, results) == {j \in IndicesOf(results[i].host, results) : j < i}

(* Mutant: a task has its own cost when the one before is worked out. *)
OwnCostForward(i, results) ==
  LET own[j \in DOMAIN results] ==
        IF EarlierOf(j, results) = {} THEN results[j].cost
        ELSE results[j].cost - own[Max(EarlierOf(j, results))]
  IN [results[i] EXCEPT !.cost = own[i]]

(* The cost of a task of a host is the time since its task before. *)
OwnCost(i, results) ==
  IF EarlierOf(i, results) = {} THEN results[i]
  ELSE [results[i] EXCEPT !.cost = @ - results[Max(EarlierOf(i, results))].cost]

(* Results are grouped by host, and those of a host are in their order. *)
NotAfter(j, i, results) ==
  LET first(k) == FirstOf(results[k].host, results)
  IN first(j) < first(i) \/ (first(j) = first(i) /\ j <= i)

(* All results of a playbook script, host by host. *)
AllResults(results) ==
  LET ordered == InOrder([i \in DOMAIN results |-> Cardinality({j \in DOMAIN results : NotAfter(j, i, results)})])
  IN [k \in DOMAIN ordered |-> OwnCost(ordered[k], results)]

(* cost_dict: of a failed task its own cost, of any other the greatest so far. *)
HostCost(host, results) ==
  FoldLeft(LAMBDA cost, result :
             IF result.host = host /\ (cost = 0 \/ ~result.success \/ cost < result.cost) THEN result.cost ELSE cost,
           0, results)

FailuresOf(host, results) == {i \in IndicesOf(host, results) : ~IsSkipped(results[i]) /\ ~results[i].success}

(* Mutant: the last result of a host stands for it, failed or not. *)
ChosenLast(host, results) == Max(IndicesOf(host, results))

(* min_index_dict, max_index_dict: the first failed task, or the last one. *)
Chosen(host, results) ==
  IF FailuresOf(host, results) # {} THEN Min(FailuresOf(host, results)) ELSE Max(IndicesOf(host, results))

OneResultPerHost(results) ==
  LET hosts == HostsOf(results)
  IN [k \in DOMAIN hosts |->
        [results[Chosen(hosts[k], results)] EXCEPT !.cost = HostCost(hosts[k], results)]]

intergrate_messages_by_host(results, playbook_script) ==
  IF playbook_script THEN AllResults(results) ELSE OneResultPerHost(results)

(* message["skipped"] of a loop is not set, whatever its items were. *)
check_result(results) == \A i \in DOMAIN results : results[i].skipped = "yes" \/ results[i].success

(* Mutant: every result gets the text of the last failure. *)
InsteadEverywhere(results, failed_msg) ==
  IF failed_msg = <<>> THEN results ELSE [i \in DOMAIN results |-> [results[i] EXCEPT !.msg = failed_msg]]

(* result[0]["message"]["msg"] = self.failed_msg, whose result it may be. *)
instead_failed_message(results, failed_msg) ==
  IF failed_msg = <<>> \/ results = <<>> THEN results ELSE [results EXCEPT ![1].msg = failed_msg]
=============================================================================
