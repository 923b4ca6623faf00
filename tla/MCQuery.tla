-------------------------------- MODULE MCQuery --------------------------------
(***************************************************************************)
(* The query Lambda with its times as deployed: polls for 50 s, every      *)
(* second, 60 s in all; a call of Athena takes up to 2 s.  Results have up *)
(* to 5 pages of two items: three fit into the time, five do not.          *)
(***************************************************************************)
EXTENDS QueryLambda

Event(env, t, args, sql) == [env |-> env, template |-> t, args |-> args, sql |-> sql]

MCRequests ==
  { Event(FALSE, "none", <<>>, "read"),
    Event(TRUE, "none", <<>>, "none"),
    Event(TRUE, "none", <<>>, "write"),
    Event(TRUE, "unknown", <<>>, "none"),
    Event(TRUE, "list_runs", [limit |-> "odd"], "none"),
    Event(TRUE, "summarize_run", <<>>, "none"),
    Event(TRUE, "failed_calls", [run_id |-> "good", limit |-> "bad"], "none"),
    Event(TRUE, "field_disagreement",
          [run_a |-> "good", run_b |-> "good", field |-> "bad"], "none"),
    Event(TRUE, "compare_concurrency", [test_name |-> "good"], "none") }
==============================================================================
