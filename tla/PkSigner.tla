------------------------------ MODULE PkSigner ------------------------------
(***************************************************************************)
(* Key management of the pk signer (src/c/src/signer/pk-signer/signer.c):  *)
(* the C API that registers signers, the configuration keys "key" and "pk" *)
(* and the RPCs in3_addRawKey, in3_addJsonKey and in3_addMnemonic of the   *)
(* pk_rpc plugin, all of which end in add_key.  The client's plugin list   *)
(* is kept as the sequence of registered signers; a signer is a record of  *)
(* its handler (eth_sign_pk or eth_sign_req), the account get_address      *)
(* derived from its key, whether that key was a full 32-byte key, and how  *)
(* it was registered.                                                      *)
(***************************************************************************)
EXTENDS Naturals, Sequences, SequencesExt

CONSTANTS
  Accounts,   \* accounts of 32-byte keys (get_address is injective on them)
  Garbage,    \* the account derived from 32 bytes read past a short buffer
  MaxSigners, \* bound on the length of the plugin list
  MaxPaths    \* bound on the derivation paths of one in3_addMnemonic

VARIABLES
  signers,    \* the SIGN plugins of client->plugins, in registration order
  rpc,        \* is the pk_rpc plugin registered (eth_register_pk_signer)
  reply       \* the last call (C API, config or RPC): its name, success, the
              \* addresses it returned and the list length before it

vars == <<signers, rpc, reply>>

\* A key blob handed in by a caller: 32 bytes of some account's key, or a
\* buffer of another length.
Blobs == [len : {32}, acct : Accounts] \cup [len : {0, 20}, acct : {Garbage}]

Signer(fn, acct, sound, via) == [fn |-> fn, acct |-> acct, sound |-> sound, via |-> via]

PkAccounts(s) == {s[i].acct : i \in {j \in DOMAIN s : s[j].fn = "pk"}}

(***************************************************************************)
(* add_key: walk every plugin with SIGN_ACCOUNT and SIGN (the eth_sign_pk  *)
(* signers), compare the account it reports with the new key's address    *)
(* and give up on a match; otherwise eth_set_pk_signer appends a signer.   *)
(* AddKey gives the new list; Added tells whether add_key returned true.   *)
(***************************************************************************)
AddKey(s, b) ==
  IF b.acct \in PkAccounts(s) THEN s
  ELSE Append(s, Signer("pk", b.acct, b.len = 32, "add_key"))

Added(s, b) == Len(AddKey(s, b)) > Len(s)

\* add_key over a sequence of keys in order, as the loops of the "pk"
\* configuration and of in3_addMnemonic do.
AddKeys(s, bs) == FoldLeft(AddKey, s, bs)

Reply(op, ok, accts) == [op |-> op, ok |-> ok, accts |-> accts, from |-> Len(signers)]

Fits(bs) == Len(signers) + Len(bs) <= MaxSigners

-----------------------------------------------------------------------------
(***************************************************************************)
(* C API.  eth_set_pk_signer registers an eth_sign_pk signer without any   *)
(* duplicate check; eth_set_pk_signer_hex does so for a 64-digit hex key   *)
(* and silently ignores any other length; eth_set_request_signer          *)
(* registers an eth_sign_req signer; eth_register_pk_signer adds pk_rpc.   *)
(***************************************************************************)
eth_set_pk_signer(b) ==
  /\ b.len = 32 /\ Fits(<<b>>)
  /\ signers' = Append(signers, Signer("pk", b.acct, TRUE, "api"))
  /\ reply' = Reply("api", TRUE, <<>>)
  /\ UNCHANGED rpc

eth_set_pk_signer_hex(b) ==
  IF b.len = 32 THEN eth_set_pk_signer(b)
  ELSE /\ reply' = Reply("api", FALSE, <<>>)
       /\ UNCHANGED <<signers, rpc>>

eth_set_request_signer(b) ==
  /\ Fits(<<b>>)
  /\ signers' = Append(signers, Signer("req", b.acct, TRUE, "api"))
  /\ reply' = Reply("api", TRUE, <<>>)
  /\ UNCHANGED rpc

eth_register_pk_signer ==
  /\ ~rpc
  /\ rpc' = TRUE
  /\ reply' = Reply("api", TRUE, <<>>)
  /\ UNCHANGED signers

(***************************************************************************)
(* pk_rpc, PLGN_ACT_CONFIG_SET.  "key": a 32-byte key becomes the request  *)
(* signer, another length is rejected.  "pk": each key of the array goes   *)
(* through add_key in order until the first one of the wrong length, which *)
(* rejects the configuration after the earlier keys were already added.    *)
(***************************************************************************)
ConfigKey(b) ==
  /\ rpc /\ Fits(<<b>>)
  /\ IF b.len = 32
     THEN /\ signers' = Append(signers, Signer("req", b.acct, TRUE, "config"))
          /\ reply' = Reply("config", TRUE, <<>>)
     ELSE /\ reply' = Reply("config", FALSE, <<>>)
          /\ UNCHANGED signers
  /\ UNCHANGED rpc

ConfigPk(bs) ==
  LET bad  == SelectInSeq(bs, LAMBDA b : b.len # 32)
      good == IF bad = 0 THEN bs ELSE SubSeq(bs, 1, bad - 1)
  IN  /\ rpc /\ Fits(good)
      /\ signers' = AddKeys(signers, good)
      /\ reply' = Reply("config", bad = 0, <<>>)
      /\ UNCHANGED rpc

(***************************************************************************)
(* eth_accounts, answered by pk_rpc: PLGN_ACT_SIGN_ACCOUNT is fanned out to *)
(* every plugin that declares it, and the accounts each reports are listed *)
(* in registration order.  eth_sign_pk reports the one account of its key; *)
(* eth_sign_req does not declare the action.                               *)
(***************************************************************************)
SignAccounts(s) == IF s.fn = "pk" THEN <<s.acct>> ELSE <<>>

eth_accounts ==
  /\ rpc
  /\ reply' = Reply("eth_accounts", TRUE,
                    FoldLeft(LAMBDA acc, s : acc \o SignAccounts(s), <<>>, signers))
  /\ UNCHANGED <<signers, rpc>>

(***************************************************************************)
(* pk_rpc, PLGN_ACT_RPC_HANDLE.                                            *)
(* in3_addRawKey: the parameter must be exactly 32 bytes; the reply is the *)
(* key's address whether or not add_key registered it.                     *)
(***************************************************************************)
in3_addRawKey(b) ==
  /\ rpc /\ Fits(<<b>>)
  /\ IF b.len = 32
     THEN /\ signers' = AddKey(signers, b)
          /\ reply' = Reply("in3_addRawKey", TRUE, <<b.acct>>)
     ELSE /\ reply' = Reply("in3_addRawKey", FALSE, <<>>)
          /\ UNCHANGED signers
  /\ UNCHANGED rpc

(* in3_addJsonKey, once its in3_decryptKey sub-request has an answer (the  *)
(* resolver itself is modelled in Request): `res` is the decrypted key.    *)
(* The check rejects a key only when it has no data and a length other     *)
(* than 32; a key with data and another length is passed on to             *)
(* get_address and add_key, which read 32 bytes from it.                   *)
in3_addJsonKey(res) ==
  /\ rpc /\ Fits(<<res>>)
  /\ \/ /\ ~(res.len = 0 /\ res.len # 32)
        /\ signers' = AddKey(signers, res)
        /\ reply' = Reply("in3_addJsonKey", TRUE, <<res.acct>>)
     \/ /\ res.len = 0 /\ res.len # 32
        /\ reply' = Reply("in3_addJsonKey", FALSE, <<>>)
        /\ UNCHANGED signers
  /\ UNCHANGED rpc

\* The in3_decryptKey sub-request failed: TRY_FINAL returns its error.
in3_addJsonKeyFailed ==
  /\ rpc
  /\ reply' = Reply("in3_addJsonKey", FALSE, <<>>)
  /\ UNCHANGED <<signers, rpc>>

(* in3_addMnemonic: `keys` are the keys bip32 derives for the paths.  Each *)
(* goes through add_key; the reply lists the addresses add_key registered. *)
\* Variant: every derived address is listed, new or not.
AddMnemonicListAll(keys) ==
  /\ signers' = AddKeys(signers, keys)
  /\ reply' = Reply("in3_addMnemonic", TRUE, [i \in DOMAIN keys |-> keys[i].acct])

AddMnemonic(keys) ==
  LET before(i) == AddKeys(signers, SubSeq(keys, 1, i - 1))
      new       == SelectSeq([i \in DOMAIN keys |-> i], LAMBDA i : Added(before(i), keys[i]))
  IN  /\ signers' = AddKeys(signers, keys)
      /\ reply' = Reply("in3_addMnemonic", TRUE, [j \in DOMAIN new |-> keys[new[j]].acct])

in3_addMnemonic(keys) ==
  /\ rpc /\ Fits(keys)
  /\ AddMnemonic(keys)
  /\ UNCHANGED rpc

\* mnemonic_verify rejects the mnemonic, or bip32 fails.
in3_addMnemonicFailed ==
  /\ rpc
  /\ reply' = Reply("in3_addMnemonic", FALSE, <<>>)
  /\ UNCHANGED <<signers, rpc>>

-----------------------------------------------------------------------------
Good == {b \in Blobs : b.len = 32}

Init ==
  /\ signers = <<>>
  /\ rpc = FALSE
  /\ reply = [op |-> "none", ok |-> TRUE, accts |-> <<>>, from |-> 0]

Next ==
  \/ \E b \in Blobs : eth_set_pk_signer_hex(b) \/ eth_set_request_signer(b)
  \/ eth_register_pk_signer
  \/ \E b \in Blobs : ConfigKey(b) \/ in3_addRawKey(b)
  \/ \E bs \in BoundedSeq(Blobs, 2) : ConfigPk(bs)
  \/ \E res \in Blobs : in3_addJsonKey(res)
  \/ in3_addJsonKeyFailed
  \/ \E keys \in BoundedSeq(Good, MaxPaths) \ {<<>>} : in3_addMnemonic(keys)
  \/ in3_addMnemonicFailed
  \/ eth_accounts

Spec == Init /\ [][Next]_vars

-----------------------------------------------------------------------------
TypeOK ==
  /\ signers \in Seq([fn : {"pk", "req"}, acct : Accounts \cup {Garbage},
                      sound : BOOLEAN, via : {"api", "config", "add_key"}])
  /\ Len(signers) <= MaxSigners
  /\ rpc \in BOOLEAN
  /\ reply \in [op : {"none", "api", "config", "in3_addRawKey", "in3_addJsonKey",
                      "in3_addMnemonic", "eth_accounts"},
                ok : BOOLEAN, accts : Seq(Accounts \cup {Garbage}), from : 0..MaxSigners]

(* in3_addMnemonic replies with exactly the accounts it registered, in     *)
(* order: the reply is the tail the call appended to the signers, with     *)
(* keys already held and keys derived twice in one call left out.          *)
MnemonicRepliesNewAccounts ==
  reply.op = "in3_addMnemonic" /\ reply.ok =>
    reply.accts = [i \in 1..(Len(signers) - reply.from) |-> signers[reply.from + i].acct]

(* Every signer that an RPC or configuration call registers holds a full   *)
(* 32-byte key (the "invalid key" check of in3_addJsonKey).                *)
RegisteredKeysAreSound ==
  \A i \in DOMAIN signers : signers[i].sound

=============================================================================
