------------------------------ MODULE MCWorker ------------------------------
(* Instances of Worker for TLC. *)
EXTENDS Worker, TLC

CONSTANTS r1, r2, r3, r4, r5

Host == Dict({"host"})
Ping == Dict({"name", "args"})

Submit(q) == [queue |-> Text(q, {}), targets |-> List(<<Host>>), module |-> Ping]

(* Two requests for one queue, one of them synchronous; one without hosts; *)
(* one without targets; a scan of one target.                                    *)
Bodies ==
  r1 :> Submit("a") @@ r2 :> (Submit("a") @@ [response |-> Text("sync", {})])
  @@ r3 :> [queue |-> Text("c", {}), targets |-> List(<<>>), module |-> Ping]
  @@ r4 :> [queue |-> Text("d", {}), module |-> Ping]
  @@ r5 :> [queue |-> Text("f", {}), targets |-> Host]
AllRequests == {r1, r2, r3, r4, r5}

(* The white list is empty, the black list has 1.3. *)
Ips == [r \in AllRequests |-> IF r = r3 THEN <<1, 3>> ELSE <<1, 1>>]
White == <<>>
Black == <<<<Star, Number(3)>>>>

=============================================================================
