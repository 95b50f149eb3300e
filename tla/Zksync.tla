------------------------------- MODULE Zksync -------------------------------
(***************************************************************************)
(* The configuration and ownership side of the zksync payment plugin      *)
(* (src/c/src/pay/zksync/zksync.c): config_set, config_free (TERM), the    *)
(* prefix dispatch of zksync_rpc with ensure_provider, and the client's    *)
(* chain.  Heap buffers are ids of a finite set; a buffer is unused, live  *)
(* or freed.  The configuration holds buffer ids (or NULL) for the fields  *)
(* that own memory.  Cryptography, token resolution and the zksync server  *)
(* calls are not modelled: they neither allocate nor free config fields.   *)
(***************************************************************************)
EXTENDS Naturals, FiniteSets, Sequences, SequencesExt, RpcHandle

CONSTANTS
  Ids,          \* heap buffer ids
  NULL,
  Chains,       \* chain ids the client can be configured for
  MAINNET,      \* CHAIN_ID_MAINNET
  ConfigInputs  \* the zksync configuration objects handed to config_set

VARIABLES
  conf,    \* zksync_config_t, or NULL after TERM
  live,    \* allocated, not yet freed buffers
  freed,   \* freed buffers
  faults,  \* undefined behaviour met: "badfree" (free of a non-live id), "oob"
  chain,   \* client->chain.chain_id
  answer   \* what the last rpc answered locally ("verify", "pubkey"), or NoAnswer

vars == <<conf, live, freed, faults, chain, answer>>

NoAnswer == [method |-> "none"]

\* Keys, as the cryptography (zkcrypto, outside src/) relates them: the
\* sync key made from a seed, the public key of a sync key, the aggregate
\* of musig keys.  NoKey is the all-zero buffer.
NoKey == <<>>
SyncKeyOf(seed) == <<"sk", seed>>
Pub(k) == <<"pub", k>>
Agg(keys) == <<"agg", keys>>
\* The sync key zk_helper derives from a signature of the account.
DerivedKey == SyncKeyOf("signature")

\* A world is the state config_set and config_free work on, step by step.
World == [c |-> conf, live |-> live, freed |-> freed, f |-> faults]

Fresh(w) == CHOOSE i \in Ids : i \notin w.live \cup w.freed
HasFresh(w, n) == Cardinality(Ids \ (w.live \cup w.freed)) >= n

\* _malloc / _strdupn into field `fld`: the old pointer is overwritten.
AllocInto(w, fld) ==
  LET i == Fresh(w)
  IN  [w EXCEPT !.c = [@ EXCEPT ![fld] = i], !.live = @ \cup {i}]

\* _free(p): p must be live; _free(NULL) does nothing.
FreeId(w, p) ==
  IF p = NULL THEN w
  ELSE IF p \in w.live THEN [w EXCEPT !.live = @ \ {p}, !.freed = @ \cup {p}]
  ELSE [w EXCEPT !.f = @ \cup {"badfree"}]

Min2(a, b) == IF a < b THEN a ELSE b

\* musig_pub_keys.len / 32
KeyCount(w) == IF w.c.keys = NULL THEN 0 ELSE w.c.nkeys

\* for (i = 0; i < musig_pub_keys.len / 32; i++) _free(musig_urls[i]): the
\* array has Len(urls) slots, and a slot past its end is read out of bounds.
FreeUrlEntries(w) ==
  LET n  == KeyCount(w)
      w1 == IF n > Len(w.c.urls) THEN [w EXCEPT !.f = @ \cup {"oob"}] ELSE w
  IN  FoldLeft(LAMBDA acc, i : FreeId(acc, w.c.urls[i]), w1,
               [i \in 1..Min2(n, Len(w.c.urls)) |-> i])

-----------------------------------------------------------------------------
(***************************************************************************)
(* config_set, one field of the "zksync" object after the other.  `in` is  *)
(* the object: which fields it has and, for musig_pub_keys and musig_urls, *)
(* how many 32-byte keys and how many urls.                                *)
(***************************************************************************)
\* provider_url, account and main_contract: a new buffer replaces the old
\* pointer; account and main_contract only with exactly 20 bytes.
SetOwned(w, fld, present) == IF present THEN AllocInto(w, fld) ELSE w

\* sync_key: zkcrypto_pk_from_seed makes the sync key, and the public key
\* is computed from it at once (and hashed; the hash is left out).
\* Variant: the cached public key is left as it was.
SetSyncKeyKeepPub(w, in) ==
  IF in.sync = "none" THEN w
  ELSE [w EXCEPT !.c.syncKey = SyncKeyOf(in.sync)]

SetSyncKey(w, in) ==
  IF in.sync = "none" THEN w
  ELSE [w EXCEPT !.c.syncKey = SyncKeyOf(in.sync), !.c.pubKey = Pub(SyncKeyOf(in.sync))]

\* "contract" and "create2" name their sign type; any other string is PK.
get_sign_type(t) == IF t \in {"contract", "create2"} THEN t ELSE "pk"

\* signer_type, or PK when it is absent and none was set before.
SetSignType(w, in) ==
  IF in.signer # "none" THEN [w EXCEPT !.c.sign_type = get_sign_type(in.signer)]
  ELSE IF w.c.sign_type = "none" THEN [w EXCEPT !.c.sign_type = "pk"]
  ELSE w

\* Variant: the old keys are freed before the type and length are checked.
SetMusigKeysFreeFirst(w, in) ==
  LET w1 == IF in.musig # "absent" THEN FreeId(w, w.c.keys) ELSE w
  IN  IF in.musig = "ok"
      THEN [AllocInto(w1, "keys") EXCEPT !.c.nkeys = in.nkeys]
      ELSE w1

\* musig_pub_keys: only bytes of a multiple of 32 replace the old keys.
SetMusigKeys(w, in) ==
  IF in.musig = "ok"
  THEN [AllocInto(FreeId(w, w.c.keys), "keys") EXCEPT !.c.nkeys = in.nkeys]
  ELSE w

\* musig_urls: free the old urls (counted by the keys), then calloc an
\* array of the new length and _strdupn every url into it.
SetMusigUrls(w, in) ==
  IF ~in.hasUrls THEN w
  ELSE
    LET w1 == IF w.c.urlsArr = NULL THEN w
              ELSE FreeId(FreeUrlEntries(w), w.c.urlsArr)
        w2 == AllocInto(w1, "urlsArr")
        slot(acc, i) ==
          LET id == Fresh(acc)
          IN  [acc EXCEPT !.c.urls = Append(@, id), !.live = @ \cup {id}]
    IN  FoldLeft(slot, [w2 EXCEPT !.c.urls = <<>>],
                 [i \in 1..in.nurls |-> i])

\* create2: forces the CREATE2 sign type; the struct is allocated once.
SetCreate2(w, in) ==
  IF ~in.create2 THEN w
  ELSE LET w1 == [w EXCEPT !.c.sign_type = "create2"]
       IN  IF w.c.create2 = NULL THEN AllocInto(w1, "create2") ELSE w1

Needed(w, in) ==
  (IF in.provider THEN 1 ELSE 0) + (IF in.account THEN 1 ELSE 0)
    + (IF in.main THEN 1 ELSE 0) + (IF in.musig = "ok" THEN 1 ELSE 0)
    + (IF in.hasUrls THEN 1 + in.nurls ELSE 0)
    + (IF in.create2 /\ w.c.create2 = NULL THEN 1 ELSE 0)

ConfigSetWorld(w, in) ==
  LET w1 == SetOwned(w, "provider", in.provider)
      w3 == SetOwned(SetSyncKey(SetOwned(w1, "account", in.account), in), "main", in.main)
  IN  SetCreate2(SetMusigUrls(SetMusigKeys(SetSignType(w3, in), in), in), in)

\* Writes a world back into the variables.
Store(w) == /\ conf' = w.c /\ live' = w.live /\ freed' = w.freed /\ faults' = w.f

config_set(in) ==
  /\ conf # NULL
  /\ HasFresh(World, Needed(World, in))
  /\ Store(ConfigSetWorld(World, in))
  /\ UNCHANGED <<chain, answer>>

(***************************************************************************)
(* config_free (PLGN_ACT_TERM): the urls (counted by the keys) and their   *)
(* array, then every other owned buffer; the config itself is gone.        *)
(***************************************************************************)
config_free ==
  /\ conf # NULL
  /\ LET w1 == IF conf.urlsArr = NULL THEN World
               ELSE FreeId(FreeUrlEntries(World), conf.urlsArr)
         w2 == FoldLeft(LAMBDA acc, p : FreeId(acc, p), w1,
                 <<conf.provider, conf.main, conf.account, conf.create2, conf.keys>>)
     IN  Store([w2 EXCEPT !.c = NULL])
  /\ UNCHANGED <<chain, answer>>

(***************************************************************************)
(* zksync_rpc.  A method without the prefix zksync_ or zk_ is ignored      *)
(* (IN3_EIGNORE, no state change, not an action).  Otherwise               *)
(* ensure_provider runs first: with no provider_url the client's chain     *)
(* must be mainnet, for which the default url is _strdupn'd into the       *)
(* config and kept; any other chain fails with "no provider_url in         *)
(* config" and changes nothing here.  Whether the method is then answered  *)
(* locally (the TRY_RPC list) or sent to the provider (the fallback), the  *)
(* config's owned buffers stay as they are.                                *)
(***************************************************************************)
ensure_provider(w) ==
  IF w.c.provider # NULL THEN w
  ELSE AllocInto(w, "provider")

\* zksync_get_sync_key (zk_helper, outside src/): the configured sync key;
\* without one, the key derived from a signature of the account, or a
\* failure (NoKey).
SyncKeyChoices(c) == IF c.syncKey # NoKey THEN {c.syncKey} ELSE {DerivedKey, NoKey}

\* zksync_get_pubkey with the sync key k zksync_get_sync_key gives: the
\* aggregate of the musig keys when there are any, else the cached public
\* key, else the public key of k, which is then cached.  The new config
\* and the key answered (NoKey when TRY returns the failure).
zksync_get_pubkey(c, k) ==
  CASE c.keys # NULL    -> [c |-> c, key |-> Agg(c.keys)]
    [] c.pubKey # NoKey -> [c |-> c, key |-> c.pubKey]
    [] k = NoKey        -> [c |-> c, key |-> NoKey]
    [] OTHER            -> [c |-> [c EXCEPT !.pubKey = Pub(k)], key |-> Pub(k)]

\* The methods are "verify", answered with the 0 or 1 the zkcrypto check
\* returns through in3_rpc_handle_with_int, "pubkey", and any other one.
\* A pubkey answer records the sync key and musig keys of the config it
\* was computed from.
zksync_rpc(method, v) ==
  LET w == ensure_provider(World)
  IN
  /\ conf # NULL
  /\ conf.provider # NULL \/ chain = MAINNET
  /\ HasFresh(World, IF conf.provider = NULL THEN 1 ELSE 0)
  /\ \/ /\ method = "verify"
        /\ Store(w)
        /\ answer' = [method |-> "verify", value |-> v, digits |-> in3_rpc_handle_with_int(v)]
     \/ /\ method = "pubkey"
        /\ \E k \in SyncKeyChoices(w.c) :
             LET r == zksync_get_pubkey(w.c, k)
             IN  /\ Store([w EXCEPT !.c = r.c])
                 /\ answer' = IF r.key = NoKey THEN NoAnswer
                              ELSE [method |-> "pubkey", key |-> r.key,
                                    sync |-> w.c.syncKey, musig |-> w.c.keys]
     \/ /\ method = "other"
        /\ Store(w)
        /\ answer' = NoAnswer
  /\ UNCHANGED chain

\* in3_configure with "chainId": the client switches to another chain.
SetChain(ch) ==
  /\ conf # NULL /\ ch # chain
  /\ chain' = ch
  /\ UNCHANGED <<conf, live, freed, faults, answer>>

-----------------------------------------------------------------------------
\* in3_register_zksync: a zeroed config with version 1 (the version is data
\* no property reads and is left out).
Init ==
  /\ conf = [provider |-> NULL, account |-> NULL, main |-> NULL,
             sign_type |-> "none", keys |-> NULL, nkeys |-> 0,
             urlsArr |-> NULL, urls |-> <<>>, create2 |-> NULL,
             syncKey |-> NoKey, pubKey |-> NoKey]
  /\ live = {} /\ freed = {} /\ faults = {}
  /\ chain \in Chains
  /\ answer = NoAnswer

Next ==
  \/ \E in \in ConfigInputs : config_set(in)
  \/ config_free
  \/ \E method \in {"verify", "pubkey", "other"}, v \in {0, 1} : zksync_rpc(method, v)
  \/ \E ch \in Chains : SetChain(ch)

Spec == Init /\ [][Next]_vars

-----------------------------------------------------------------------------
Fields(c) == {c.provider, c.account, c.main, c.keys, c.urlsArr, c.create2}
               \cup ToSet(c.urls)
Owned == IF conf = NULL THEN {} ELSE Fields(conf) \ {NULL}

SyncKeys == {DerivedKey} \cup {SyncKeyOf(in.sync) : in \in {x \in ConfigInputs : x.sync # "none"}}

TypeOK ==
  /\ live \subseteq Ids /\ freed \subseteq Ids /\ live \cap freed = {}
  /\ faults \subseteq {"badfree", "oob"}
  /\ chain \in Chains
  /\ answer \in {NoAnswer} \cup [method : {"verify"}, value : {0, 1}, digits : Seq(0..15)]
                       \cup [method : {"pubkey"}, key : {Pub(k) : k \in SyncKeys} \cup {Agg(i) : i \in Ids},
                              sync : SyncKeys \cup {NoKey}, musig : Ids \cup {NULL}]

(* No field of the config points at freed memory: config_set frees the    *)
(* old musig keys and urls only when it stores new ones in their place.    *)
NoDanglingField == Owned \subseteq live

(* Nothing is freed twice or freed without having been allocated, across   *)
(* any sequence of config_set calls and the final config_free.             *)
FreesOnlyLive == "badfree" \notin faults

(* The url loops of config_set and config_free never read past the end of  *)
(* the musig_urls array they walk.                                         *)
UrlsFreedInBounds == "oob" \notin faults

(* Every buffer the plugin allocated is still reachable from its config,   *)
(* and after TERM none is left: config_set never drops the only pointer    *)
(* to a buffer, and config_free frees them all.                            *)
NoLeak == live \subseteq Owned

(* The integer zksync "verify" answers with is written as a JSON-RPC      *)
(* quantity by in3_rpc_handle_with_int: its hex digits with no leading     *)
(* zero, "0x0" for zero (b_optimize_len keeps one byte, one '0' digit is   *)
(* skipped).                                                               *)
IntAnswerIsQuantity ==
  answer.method = "verify" => answer.digits = QuantityDigits(answer.value)

(* The public key zksync "pubkey" answers belongs to the configuration it  *)
(* was asked of: the aggregate of the musig keys when there are any, else  *)
(* the public key of the configured sync key.  zksync_get_pubkey prefers   *)
(* its cached pub_key to the sync key, so this holds only if every         *)
(* config_set that replaces the sync key replaces the cached key too.      *)
PubkeyOfCurrentKeys ==
  answer.method = "pubkey" =>
    /\ answer.musig # NULL => answer.key = Agg(answer.musig)
    /\ answer.musig = NULL /\ answer.sync # NoKey => answer.key = Pub(answer.sync)

=============================================================================
