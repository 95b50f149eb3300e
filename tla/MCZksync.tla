------------------------------ MODULE MCZksync ------------------------------
(* Instances of Zksync for TLC: five heap buffers, mainnet and one other    *)
(* chain, and the zksync configuration objects config_set is handed.       *)
EXTENDS Zksync

CONSTANTS i1, i2, i3, i4, i5, goerli

MCIds == {i1, i2, i3, i4, i5}
MCChains == {MAINNET, goerli}

\* Objects with any of the owned fields; musig_pub_keys (well-formed or
\* not) and musig_urls with one key group size `n`.
InputsWith(keyCounts, urlCounts) ==
  [provider : BOOLEAN, account : BOOLEAN, main : BOOLEAN,
   signer : {"none", "contract", "other"}, musig : {"absent", "bad", "ok"},
   nkeys : keyCounts, hasUrls : BOOLEAN, nurls : urlCounts, create2 : BOOLEAN,
   sync : {"none"}]
  \cup
  \* objects that only carry a sync_key seed, one of two
  [provider : {FALSE}, account : {FALSE}, main : {FALSE}, signer : {"none"},
   musig : {"absent"}, nkeys : {1}, hasUrls : {FALSE}, nurls : {1},
   create2 : {FALSE}, sync : {"s1", "s2"}]

\* One group size: as many urls as keys in every object that has them.
MCInputsFixed == InputsWith({1}, {1})
\* Group sizes that change from one configuration to the next.
MCInputsVarying == InputsWith({1, 2}, {1, 2})

=============================================================================
