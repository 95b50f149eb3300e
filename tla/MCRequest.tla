------------------------------ MODULE MCRequest ------------------------------
(***************************************************************************)
(* Model-checking instance of Request: the constants as small sets.        *)
(***************************************************************************)
EXTENDS Request, TLC

\* Two sub-request methods: a read (structural dedup) and the one that uses
\* the SRC_REQ marker.
MCSubMethods == {"eth_call", "eth_sendTransaction"}

\* Params strings "", "1" and "12": each a prefix of the next.
MCParamStrs == {<<>>, <<"1">>, <<"1", "2">>}

MCEthCall == {"eth_call"}

MCOneParamStr == {<<"1">>}

\* Params strings "" and "1".
MCTwoParamStrs == {<<>>, <<"1">>}

MCMsgs == {<<"a">>}

\* A message that ends with the bytes of an account.
MCMsgsOverlap == {<<"a">>, <<"a", "b">>}

MCAccounts == {<<>>, <<"b">>}

MCOneAccount == {<<"b">>}

\* No SIGN plugin: every signature goes to the remote signer.
MCNoSigners == <<>>

\* A request signer for account b registered before a pk signer for c.
MCSigners == <<[fn |-> "req", account |-> <<"b">>], [fn |-> "pk", account |-> <<"c">>]>>

MCThreeAccounts == {<<>>, <<"b">>, <<"d">>}

\* Deliveries of a sign child's answer: the 65-byte signature in one chunk;
\* 64 bytes (no v); a transport error.
MCDeliveries == {<<[err |-> FALSE, data |-> <<"r", "s", "v">>]>>,
                 <<[err |-> FALSE, data |-> <<"r", "s">>]>>,
                 <<[err |-> TRUE, data |-> <<"e">>]>>}

\* The same, and the signature in two chunks and an error after part of it
\* (a transfer broken off after the first chunk).
MCChunkedDeliveries ==
  MCDeliveries \cup {<<[err |-> FALSE, data |-> <<"r">>], [err |-> FALSE, data |-> <<"s", "v">>]>>,
                    <<[err |-> FALSE, data |-> <<"r">>], [err |-> TRUE, data |-> <<"e">>]>>}

MCSymmetry == Permutations(Ctx)

\* The state without the history variable last, which no action reads.
MCView == <<state, request, required, cache, response, error, pending, owner>>
=============================================================================
