------------------------------- MODULE MCApi -------------------------------
(***************************************************************************)
(* ApiSystem for TLC: two clients behind two proxies, and two tuples of    *)
(* credentials. Bounded keeps the parts small.                             *)
(***************************************************************************)
EXTENDS ApiSystem, TLC

CONSTANTS c1, c2, p1, p2, t1, t2

Content(t, fits, canonical, large) ==
    [tuple |-> t, fits |-> fits, canonical |-> canonical, large |-> large]

\* The payload of the first tuple, a pretty-printed copy of it, a payload of the second
\* tuple whose claims do not fit, and one over the limit.
Payload == Content(t1, TRUE, TRUE, FALSE)
Pretty == Content(t1, TRUE, FALSE, FALSE)
Misfit == Content(t2, FALSE, TRUE, FALSE)
Large == Content(t1, TRUE, TRUE, TRUE)

MCContents == {Payload, Pretty, Misfit, Large}

\* The contents and the kinds of URI that a state is about.
ContentsSeen ==
    {disk, printed.digest, passed.file, passed.uri.digest, cred.uri.digest, command.given,
     command.seen.uri.digest, fetch.body}
KindsSeen == {printed.kind, passed.uri.kind, cred.uri.kind, command.seen.uri.kind}
TuplesSeen == {passed.tuple, cred.tuple, command.tuple}

\* Payloads that are not fetched: no URI that only a fetch tells apart, no content that
\* is refused before it is judged.
Sent == command.mode # "resolve" /\ "https" \notin KindsSeen /\ Large \notin ContentsSeen

\* Payloads that are fetched: one tuple, and no file is checked.
Fetched ==
    /\ command.mode = "resolve" \/ command.pc \in {"idle", "exited"}
    /\ passed = V!NoPass /\ t2 \notin TuplesSeen /\ Misfit \notin ContentsSeen

\* The limiter with three addresses; a request under way adds two time units and a hit
\* less than the limiter alone.
Bounded ==
    /\ part = "limiter" => \A i \in DOMAIN log : log[i].key[2] \notin Proxies
    /\ part = "gateway" => tick <= 1 /\ Len(log) <= 3
    /\ part = "payloads" => Sent \/ Fetched

MCApiSpec == ApiInit /\ [][ApiNext /\ UNCHANGED part /\ Bounded']_allVars

\* The clients are interchangeable, and so are the proxies.
Symmetry == Permutations(Clients) \cup Permutations(Proxies)

=============================================================================
