--------------------------- MODULE MCProveRequest ---------------------------
(* Instances of ProveRequest for TLC. *)
EXTENDS ProveRequest

CONSTANTS h1, p1, p2

MCBindings == [c \in {"10007", "10008"} |-> "x509_google"]

MCProjects == {<<1, 0, 0, 0, 0>>, <<1, 0, 0, 0, 7>>}

Plain   == <<1, 0, 0, 0, 7>>
Spells  == <<4, 9, 4, 8, 4, 8, 4, 8, 4, 8>>
Padded  == <<3, 2, 4, 9, 4, 8, 4, 8, 4, 8, 5, 5>>
Odd     == <<1, 0, 0, 0, 7, 4, 9>>
Unknown == <<4, 9, 4, 8>>

ZkLogin(via, op, circuit, content, id) ==
    [via |-> via, op |-> op, hash |-> h1, sealed |-> FALSE, prover |-> "circom",
     circuit |-> circuit, task |-> "zklogin", provider |-> "google", content |-> content, id |-> id]

Tigas(via, op, prover, circuit, content) ==
    [ZkLogin(via, op, circuit, content, Spells) EXCEPT !.prover = prover, !.task = "tiga"]

Sealed(r) == [r EXCEPT !.sealed = TRUE]

(* One request for every route, prover and answer. *)
Wide ==
    {ZkLogin("http1", "prove", "10001", "google", Plain),
     ZkLogin("http1", "prove_nosha256", "10001", "google", Plain),
     ZkLogin("http1", "prove_nosha256_with_witness", "10001", "google", Padded),
     ZkLogin("http1", "prove_nosha256_offchain", "10007", "x509_google", Spells),
     ZkLogin("http1", "prove_offchain", "10001", "google", Plain),
     ZkLogin("grpc1", "prove", "10001", "google", Plain),
     ZkLogin("grpc1", "prove_nosha256", "10008", "google", Plain),
     ZkLogin("grpc1", "prove_nosha256_with_witness", "10001", "google", Odd),
     ZkLogin("grpc1", "prove_nosha256_offchain", "10001", "junk", Plain),
     ZkLogin("http2", "prove_v2", "10001", "google", Unknown),
     Sealed(ZkLogin("grpc2", "prove_v2", "10007", "x509_google", Spells)),
     [ZkLogin("http2", "prove_v2", "10001", "google", Plain) EXCEPT !.provider = "telegram"],
     [ZkLogin("http2", "prove_v2", "10001", "google", Plain) EXCEPT !.task = "other"],
     Tigas("http1", "prove_nosha256", "private", "10005", "data"),
     Tigas("http1", "prove_nosha256", "circom", "10010", "modules"),
     Tigas("http1", "prove_nosha256", "circom", "10001", "junk"),
     Tigas("http2", "prove_v2", "private", "10005", "modules"),
     Tigas("http2", "prove_v2", "private", "10006", "data"),
     Tigas("grpc2", "prove_v2", "private", "10010", "modules"),
     Tigas("http2", "prove_v2", "private", "10001", "data"),
     Tigas("http2", "prove_v2", "other", "10005", "data")}

Update(via, content) ==
    [ZkLogin(via, "verifier", "none", content, <<>>) EXCEPT !.sealed = TRUE]

Updating == {Update("http1", "verifiers"), Update("grpc1", "verifiers"), Update("http1", "empty")}

(* Its rival for the hash. *)
Few ==
    {Sealed(ZkLogin("http1", "prove_nosha256", "10001", "google", Plain)),
     Tigas("grpc2", "prove_v2", "private", "10005", "data")}

MCRequest == Wide \cup Updating \cup Few

MCAsks == [p \in {p1, p2} |-> IF p = p1 THEN Wide \cup Updating ELSE Few]
=============================================================================
