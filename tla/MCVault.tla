------------------------------ MODULE MCVault -------------------------------
(* Instances of Vault for TLC.                                               *)
EXTENDS Vault, TLC

CONSTANTS k1, k2

(* Production as .env.example describes it, with keys. *)
MCFirstEnv ==
    [app |-> "production", pii |-> k1, index |-> k1, code |-> k1,
     db |-> "dsn", origins |-> "site", turnstile |-> "", secret |-> "secret"]

(* Slips of every kind and their repair; only the verification key rotates. *)
MCEdits ==
    {<<"app", "">>, <<"app", "staging">>, <<"app", "production">>,
     <<"pii", "CHANGE_ME">>, <<"pii", "too short">>, <<"pii", k1>>,
     <<"index", "">>, <<"index", "no base64">>, <<"index", k1>>,
     <<"code", k1>>, <<"code", k2>>, <<"code", "">>,
     <<"origins", " , ">>, <<"turnstile", "false">>, <<"turnstile", "yes">>, <<"secret", "">>, <<"db", "">>}

(* No instance and no id is special; every property is one of states or steps. *)
VaultSymmetry == Permutations(Instances) \cup Permutations(Ids)
=============================================================================
