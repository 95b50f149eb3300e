------------------------------- MODULE Request -------------------------------
(***************************************************************************)
(* The request context engine of src/c/src/core/client/request.c: context  *)
(* creation (req_new), the sub-request resolver                           *)
(* (req_send_sub_request_internal), the signing sub-protocol              *)
(* (req_require_signature, req_send_sign_request) and error propagation   *)
(* (req_set_error_intern), driven by an external poll loop and transport. *)
(*                                                                         *)
(* Every context lives in a slot of Ctx.  The "required" pointer of a      *)
(* context is the single link of the list of contexts it waits on: a new  *)
(* child is put at the head of its creator's list and links to the old    *)
(* head, so the list a context walks also holds its siblings created      *)
(* before it and their descendants.                                       *)
(***************************************************************************)
EXTENDS Naturals, FiniteSets, Sequences, SequencesExt, Cache

CONSTANTS
  Ctx,          \* context slots; their number stands for the 0xFFFF cap on client->pending
  NULL,         \* the null pointer
  SubMethods,   \* methods a handler asks for through req_send_sub_request
  ParamStrs,    \* the params strings handed to it, as tuples of characters
  Metas,        \* its in3 argument: 0 for NULL, else the chainId the object carries
  RootChains,   \* in3.chainId of the requests the driver creates (0: none given)
  DefaultChain, \* client->chain.id
  Msgs,         \* messages to sign, as tuples of bytes
  Accounts,     \* `from` accounts, as tuples of bytes (<<>>: no account given)
  Digests,      \* digest types asked for: subset of {"raw","hash","prefix","btc"}
  Signers,      \* the SIGN plugins in registration order: [fn |-> "pk"|"req", account |-> a]
  MaxRoots,     \* bound: root requests the driver keeps open at the same time
  RootForms,    \* what parse_json makes of a root's text: "call" (an object or
                \* a batch), "unparsable" or "scalar" (neither object nor array)
  Deliveries    \* what the transport hands a sign child: sequences of chunks
                \* [err |-> BOOLEAN, data |-> a sequence of Parts]

ASSUME DefaultChain \notin {0}
ASSUME Digests \subseteq {"raw", "hash", "prefix", "btc"}
ASSUME RootForms \subseteq {"call", "unparsable", "scalar"}

VARIABLES
  state,     \* free | exec (handler runs) | wait (sent, awaiting response) | ok | error
  request,   \* requests[0] of the context: [method, params, in3]
  required,  \* the required pointer
  cache,     \* the cache entry list
  response,  \* the answer of a call, or the raw response of a sign child
  error,     \* ctx->error as the sequence of its ':'-separated parts
  pending,   \* client->pending
  owner,     \* history: the context whose handler created this one (NULL for a root)
  last       \* history: the outcome of the last resolver or signing call

vars == <<state, request, required, cache, response, error, pending, owner, last>>

PendingLimit == Cardinality(Ctx)

NoReq == [method |-> "none", params |-> <<>>, in3 |-> 0]

RootRequest(ch) == [method |-> "root", params |-> <<>>, in3 |-> ch]

SubRequestOf(m, ps, meta) == [method |-> m, params |-> ps, in3 |-> meta]

\* method_for_sigtype
SignMethod == [raw |-> "sign_ec_raw", hash |-> "sign_ec_hash",
               prefix |-> "sign_ec_prefix", btc |-> "sign_ec_btc"]
SignMethods == {SignMethod[d] : d \in DOMAIN SignMethod}
DigestOf(m) == CHOOSE d \in DOMAIN SignMethod : SignMethod[d] = m

\* The params of the sign call, "[message,from,pl_type,curve_type,meta]";
\* the three constant trailing parts are left out.
SignParams(msg, from) == msg \o <<",">> \o from
SignRequestOf(d, msg, from) ==
  [method |-> SignMethod[d], params |-> SignParams(msg, from), in3 |-> 0]

\* A signature: message, digest type and the account whose key made it.
Sig(msg, d, by) == [msg |-> msg, digest |-> d, by |-> by]

Call(op, c, want, ret, from, got) ==
  [op |-> op, ctx |-> c, want |-> want, ret |-> ret, from |-> from, got |-> got]
NoCall == Call("none", NULL, NULL, "none", NULL, NULL)

\* A response slot: NoResponse before the transport answered; for a call,
\* whether the parsed response has a result field.
NoResponse == [state |-> "none", data |-> <<>>]
CallAnswer(hasResult) == [state |-> "ok", data |-> IF hasResult THEN <<"result">> ELSE <<"error">>]

Alive == {c \in Ctx : state[c] # "free"}
IsSign(c) == request[c].method \in SignMethods
ChainId(c) == ChainIdOf(cache[c], DefaultChain)

\* The list walked from p->required.
RECURSIVE ChainFrom(_, _)
ChainFrom(x, n) ==
  IF x = NULL \/ n = 0 THEN <<>> ELSE <<x>> \o ChainFrom(required[x], n - 1)
Chain(p) == ChainFrom(required[p], PendingLimit)

-----------------------------------------------------------------------------
(***************************************************************************)
(* Context creation: req_new sets the state to waiting, counts the context *)
(* in client->pending and records a chainId given in requests[0].in3.      *)
(***************************************************************************)
NewCache(r) == SetChainId(<<>>, r.in3, DefaultChain)

\* req_set_error_intern with a message: the message is put in front of the
\* error the context already carries and the context is in error.
SetError(c, msg) ==
  /\ error' = [error EXCEPT ![c] = msg \o @]
  /\ state' = [state EXCEPT ![c] = "error"]

\* The driver creates a root context (req_new from the application).  The
\* context is allocated and counted in every case.  Text parse_json cannot
\* read gets "Error parsing the JSON-request!", then in front of it the
\* parser's own message when parse_json_error has one; a scalar gets "The
\* Request is not a valid structure!".  Both return before requests and
\* the chainId are set.
CreateRoot(c, ch, form) ==
  /\ state[c] = "free"
  /\ pending < PendingLimit
  /\ Cardinality({x \in Alive : owner[x] = NULL}) < MaxRoots
  /\ pending' = pending + 1
  /\ \/ /\ form = "call"
        /\ state' = [state EXCEPT ![c] = "exec"]
        /\ request' = [request EXCEPT ![c] = RootRequest(ch)]
        /\ cache' = [cache EXCEPT ![c] = NewCache(RootRequest(ch))]
        /\ UNCHANGED error
     \/ /\ form = "unparsable"
        /\ \E parserMsg \in {<<>>, <<"json error">>} :
             SetError(c, parserMsg \o <<"Error parsing the JSON-request!">>)
        /\ UNCHANGED <<request, cache>>
     \/ /\ form = "scalar"
        /\ SetError(c, <<"The Request is not a valid structure!">>)
        /\ UNCHANGED <<request, cache>>
  /\ UNCHANGED <<required, response, owner, last>>

-----------------------------------------------------------------------------
(***************************************************************************)
(* The sub-request resolver.                                               *)
(***************************************************************************)

\* A child matches when (marker mode) one of its SRC_REQ entries holds the
\* exact request, or when its method is the same and its params string
\* agrees with the asked one on its own length (strncmp over p.len - 2).
\* Variant: a child matches only when its params are a strict prefix.
MatchesStrict(x, r, useCache) ==
  \/ /\ useCache
     /\ \E e \in ToSet(cache[x]) : SRC_REQ \in e.props /\ e.val = r
  \/ /\ request[x].method = r.method
     /\ IsStrictPrefix(request[x].params, r.params)

Matches(x, r, useCache) ==
  \/ /\ useCache
     /\ \E e \in ToSet(cache[x]) : SRC_REQ \in e.props /\ e.val = r
  \/ /\ request[x].method = r.method
     /\ IsPrefix(request[x].params, r.params)

FirstMatch(p, r, useCache) ==
  LET ch == Chain(p)
      i  == SelectInSeq(ch, LAMBDA x : Matches(x, r, useCache))
  IN  IF i = 0 THEN NULL ELSE ch[i]

\* A matching child is found: its state decides the answer.
Harvest(p, r, c) ==
  \/ /\ state[c] = "error"
     /\ SetError(p, error[c])
     /\ last' = Call("sub", p, r, "error", c, NULL)
     /\ UNCHANGED <<request, required, cache, response, pending, owner>>
  \/ /\ state[c] = "ok" /\ response[c] = CallAnswer(TRUE)
     /\ last' = Call("sub", p, r, "ok", c, request[c])
     /\ UNCHANGED <<state, request, required, cache, response, error, pending, owner>>
  \/ /\ state[c] = "ok" /\ response[c] # CallAnswer(TRUE)
     /\ SetError(p, <<"error executing provider call">>)
     /\ last' = Call("sub", p, r, "error", c, NULL)
     /\ UNCHANGED <<request, required, cache, response, pending, owner>>
  \/ /\ state[c] \in {"exec", "wait"}
     /\ last' = Call("sub", p, r, "waiting", c, NULL)
     /\ UNCHANGED <<state, request, required, cache, response, error, pending, owner>>

\* No match: a child is created (req_new, which counts it in
\* client->pending), inherits the parent's INHERIT entries, gets the SRC_REQ
\* marker in marker mode and is put at the head of the parent's list
\* (req_add_required).  `links` and `count` are the new required pointers
\* and pending counter.
SpawnWith(p, r, c, useCache, links, count) ==
  LET inherited == Inherit(NewCache(r), cache[p])
  IN
  /\ state' = [state EXCEPT ![c] = "exec"]
  /\ request' = [request EXCEPT ![c] = r]
  /\ cache' = [cache EXCEPT ![c] = IF useCache
                                   THEN CacheAdd(inherited, Entry(NoKey, r, {SRC_REQ}))
                                   ELSE inherited]
  /\ required' = links
  /\ owner' = [owner EXCEPT ![c] = p]
  /\ pending' = count
  /\ last' = Call("sub", p, r, "waiting", c, NULL)
  /\ UNCHANGED <<response, error>>

\* Variant: the child takes over the parent's list but is not made its head.
SpawnSharedTail(p, r, c, useCache) ==
  SpawnWith(p, r, c, useCache, [required EXCEPT ![c] = required[p]], pending + 1)

\* Variant: the child becomes the head and the old list is dropped.
SpawnOverwriteHead(p, r, c, useCache) ==
  SpawnWith(p, r, c, useCache, [required EXCEPT ![p] = c], pending + 1)

\* Variant: the child is not counted in client->pending.
SpawnNoPendingCount(p, r, c, useCache) ==
  SpawnWith(p, r, c, useCache, [required EXCEPT ![c] = required[p], ![p] = c], pending)

Spawn(p, r, c, useCache) ==
  SpawnWith(p, r, c, useCache, [required EXCEPT ![c] = required[p], ![p] = c], pending + 1)

\* req_send_sub_request_internal; useCache selects the SRC_REQ marker.
SubRequest(p, m, ps, meta, useCache) ==
  LET r        == SubRequestOf(m, ps, meta)
      found    == FirstMatch(p, r, useCache)
  IN
  /\ state[p] = "exec"
  /\ ~IsSign(p)
  /\ \/ found # NULL /\ Harvest(p, r, found)
     \/ /\ found = NULL
        /\ pending = PendingLimit
        /\ SetError(p, <<"Invalid request!">>)
        /\ last' = Call("sub", p, r, "error", NULL, NULL)
        /\ UNCHANGED <<request, required, cache, response, pending, owner>>
     \/ /\ found = NULL
        /\ pending < PendingLimit
        /\ \E c \in Ctx \ Alive : Spawn(p, r, c, useCache)

\* The marker is used for eth_sendTransaction only ...
req_send_sub_request(p, m, ps, meta) ==
  SubRequest(p, m, ps, meta, m = "eth_sendTransaction")

\* ... or for every method.
req_send_id_sub_request(p, m, ps, meta) == SubRequest(p, m, ps, meta, TRUE)

-----------------------------------------------------------------------------
(***************************************************************************)
(* The signing sub-protocol.                                               *)
(***************************************************************************)

\* The SIGN handlers of src/c/src/signer/pk-signer/signer.c.  A non-empty
\* account stands for a 20-byte one.  eth_sign_pk signs any digest type for
\* its own account or when no 20-byte account is asked for; eth_sign_req
\* only for its own account and only raw or hash digests.
\* sign_with_pk: the raw, prefix, hash and btc digests are signed; any
\* other type gives NULL_BYTES, which eth_sign_pk reports as ENOTSUP.
sign_with_pk(d) == IF d \in {"raw", "prefix", "hash", "btc"} THEN "ok" ELSE "notsup"

\* Variant: eth_sign_pk without its account check.
eth_sign_pk_any_account(s, from, d) == "ok"

eth_sign_pk(s, from, d) ==
  IF from # <<>> /\ from # s.account THEN "ignore" ELSE sign_with_pk(d)

eth_sign_req(s, from, d) ==
  IF from = <<>> \/ from # s.account THEN "ignore"
  ELSE IF d \in {"raw", "hash"} THEN "ok" ELSE "notsup"

\* The action_fn of the registered signer plugin.
SignHandler(s, from, d) ==
  IF s.fn = "pk" THEN eth_sign_pk(s, from, d) ELSE eth_sign_req(s, from, d)

\* in3_plugin_execute_first_or_none: the first handler that does not ignore
\* the action decides; 0 when all ignore it or none is registered.
FirstSigner(from, d) ==
  SelectInSeq(Signers, LAMBDA s : SignHandler(s, from, d) # "ignore")

\* req_find_required: the first context of the list with this exact request.
FindRequired(c, r) ==
  LET ch == Chain(c)
      i  == SelectInSeq(ch, LAMBDA x : request[x] = r)
  IN  IF i = 0 THEN NULL ELSE ch[i]

\* The signature a remote signer returns for sign child s.
RemoteSig(s) ==
  LET mf == CHOOSE mf \in Msgs \X Accounts :
              SignParams(mf[1], mf[2]) = request[s].params
  IN  Sig(mf[1], DigestOf(request[s].method), mf[2])

(***************************************************************************)
(* The raw response of a sign child.  Its bytes are parts: r and s (32     *)
(* bytes each) and v (1 byte) of the remote signer's signature, and e, the *)
(* text of a transport error.                                              *)
(***************************************************************************)
PartSize == [r |-> 32, s |-> 32, v |-> 1, e |-> 20]
Parts == DOMAIN PartSize
RemoteBytes == <<"r", "s", "v">>
PayloadLen(data) == FoldLeft(LAMBDA n, p : n + PartSize[p], 0, data)

\* raw_response as in3_send_ctx allocates it: state IN3_OK, no data.
EmptyRaw == [state |-> "ok", data |-> <<>>]

\* Variant: the data received before an error chunk is kept.
in3_ctx_add_response_keep(raw, chunk) ==
  [state |-> IF chunk.err THEN "err" ELSE "ok", data |-> raw.data \o chunk.data]

\* in3_ctx_add_response for one chunk: an error chunk after OK data drops
\* that data; the state becomes the chunk's; the chunk's bytes are appended.
in3_ctx_add_response(raw, chunk) ==
  [state |-> IF chunk.err THEN "err" ELSE "ok",
   data  |-> (IF raw.state = "ok" /\ chunk.err THEN <<>> ELSE raw.data) \o chunk.data]

\* The raw response once the transport made all its calls for the request.
RawOf(cs) == FoldLeft(in3_ctx_add_response, EmptyRaw, cs)

\* What the caller gets when the payload taken for a signature is not the
\* remote signer's 65 bytes.
Garbled == Sig(<<>>, "none", <<>>)
SigFromPayload(s) == IF response[s].data = RemoteBytes THEN RemoteSig(s) ELSE Garbled

\* req_remove_required(c, s, false): unlink s from the list walked from c
\* and free it alone.
RemoveRequired(c, s) ==
  LET pred == CHOOSE q \in {c} \cup ToSet(Chain(c)) : required[q] = s
  IN  required' = [required EXCEPT ![pred] = required[s], ![s] = NULL]

\* The free at the end of req_remove_required: the slot is released and
\* client->pending lowered.
FreeSignChild(s) ==
  /\ state' = [state EXCEPT ![s] = "free"]
  /\ request' = [request EXCEPT ![s] = NoReq]
  /\ response' = [response EXCEPT ![s] = NoResponse]
  /\ owner' = [owner EXCEPT ![s] = NULL]
  /\ pending' = pending - 1

\* req_send_sign_request once no plugin signed: look for the sign child,
\* harvest it, or create it.
SendSignRequest(c, msg, from, d, key) ==
  LET want == [msg |-> msg, from |-> from, digest |-> d]
      sr   == SignRequestOf(d, msg, from)
      s    == FindRequired(c, sr)
  IN
  \/ /\ s # NULL
     /\ state[s] = "error"
     /\ SetError(c, error[s])
     /\ last' = Call("sign", c, want, "error", s, NULL)
     /\ UNCHANGED <<request, required, cache, response, pending, owner>>
  \/ /\ s # NULL
     /\ state[s] \in {"exec", "wait"}
     /\ last' = Call("sign", c, want, "waiting", s, NULL)
     /\ UNCHANGED <<state, request, required, cache, response, error, pending, owner>>
  \/ /\ s # NULL
     /\ state[s] = "ok"
     /\ response[s].state = "ok" /\ PayloadLen(response[s].data) > 64
     /\ RemoveRequired(c, s)
     /\ FreeSignChild(s)
     /\ cache' = [cache EXCEPT ![c] = CacheAdd(@, Entry(key, SigFromPayload(s), {})), ![s] = <<>>]
     /\ last' = Call("sign", c, want, "ok", s, SigFromPayload(s))
     /\ UNCHANGED <<error>>
  \/ /\ s # NULL
     /\ state[s] = "ok" /\ response[s].state = "err"
     /\ SetError(c, response[s].data)
     /\ last' = Call("sign", c, want, "error", s, NULL)
     /\ UNCHANGED <<request, required, cache, response, pending, owner>>
  \/ /\ s # NULL
     /\ state[s] = "ok"
     /\ response[s].state = "ok" /\ PayloadLen(response[s].data) <= 64
     /\ SetError(c, <<"no data to sign">>)
     /\ last' = Call("sign", c, want, "error", s, NULL)
     /\ UNCHANGED <<request, required, cache, response, pending, owner>>
  \/ /\ s = NULL
     /\ pending = PendingLimit
     /\ last' = Call("sign", c, want, "econfig", NULL, NULL)
     /\ UNCHANGED <<state, request, required, cache, response, error, pending, owner>>
  \/ /\ s = NULL
     /\ pending < PendingLimit
     /\ \E n \in Ctx \ Alive :
          /\ state' = [state EXCEPT ![n] = "exec"]
          /\ request' = [request EXCEPT ![n] = sr]
          /\ cache' = [cache EXCEPT ![n] = NewCache(sr)]
          /\ required' = [required EXCEPT ![n] = required[c], ![c] = n]
          /\ owner' = [owner EXCEPT ![n] = c]
          /\ pending' = pending + 1
          /\ last' = Call("sign", c, want, "waiting", n, NULL)
          /\ UNCHANGED <<response, error>>

\* req_require_signature: the cache under message || from, then the SIGN
\* plugins, then the remote signer.
RequireSignature(c, msg, from, d) ==
  LET key  == msg \o from
      want == [msg |-> msg, from |-> from, digest |-> d]
      i    == FirstSigner(from, d)
  IN
  /\ state[c] = "exec"
  /\ ~IsSign(c)
  /\ \/ /\ CacheHas(cache[c], key)
        /\ last' = Call("sign", c, want, "ok", NULL, CacheValue(cache[c], key))
        /\ UNCHANGED <<state, request, required, cache, response, error, pending, owner>>
     \/ /\ ~CacheHas(cache[c], key)
        /\ i # 0
        /\ SignHandler(Signers[i], from, d) = "ok"
        /\ cache' = [cache EXCEPT ![c] = CacheAdd(@, Entry(key, Sig(msg, d, Signers[i].account), {}))]
        /\ last' = Call("sign", c, want, "ok", NULL, Sig(msg, d, Signers[i].account))
        /\ UNCHANGED <<state, request, required, response, error, pending, owner>>
     \/ /\ ~CacheHas(cache[c], key)
        /\ i # 0
        /\ SignHandler(Signers[i], from, d) = "notsup"
        /\ last' = Call("sign", c, want, "notsup", NULL, NULL)
        /\ UNCHANGED <<state, request, required, cache, response, error, pending, owner>>
     \/ /\ ~CacheHas(cache[c], key)
        /\ i = 0
        /\ SendSignRequest(c, msg, from, d, key)

-----------------------------------------------------------------------------
(***************************************************************************)
(* The driver and the transport (outside this file): a context is sent,    *)
(* answered or failed, and a finished root is freed with every context of  *)
(* its list.                                                               *)
(***************************************************************************)
\* in3_req_state: a context waits while a context of its required list
\* is still executing or waiting for its answer.
RequiredPending(c) == \E d \in ToSet(Chain(c)) : state[d] \in {"exec", "wait"}

\* The driver sends a context only when in3_req_state no longer reports it
\* waiting on its required list.
Send(c) ==
  /\ state[c] = "exec"
  /\ ~RequiredPending(c)
  /\ state' = [state EXCEPT ![c] = "wait"]
  /\ UNCHANGED <<request, required, cache, response, error, pending, owner, last>>

\* The transport's answer.  A call gets a response that has a result or
\* not (parsing it is outside src/); a sign child gets a raw response: all
\* in3_ctx_add_response calls of one delivery are made before the driver
\* advances the context again (spec 5: single-threaded poll loop).
Outcomes(c) ==
  IF IsSign(c) THEN {RawOf(cs) : cs \in Deliveries} ELSE {CallAnswer(TRUE), CallAnswer(FALSE)}

Respond(c) ==
  /\ state[c] = "wait"
  /\ \/ \E o \in Outcomes(c) :
          /\ state' = [state EXCEPT ![c] = "ok"]
          /\ response' = [response EXCEPT ![c] = o]
          /\ UNCHANGED error
     \/ /\ SetError(c, <<"network error">>)
        /\ UNCHANGED response
  /\ UNCHANGED <<request, required, cache, pending, owner, last>>

Drop(f, S, v) == [x \in DOMAIN f |-> IF x \in S THEN v ELSE f[x]]

FreeRoot(r) ==
  LET S == {r} \cup ToSet(Chain(r))
  IN
  /\ state[r] \in {"ok", "error"}
  /\ owner[r] = NULL
  /\ state' = Drop(state, S, "free")
  /\ request' = Drop(request, S, NoReq)
  /\ required' = Drop(required, S, NULL)
  /\ cache' = Drop(cache, S, <<>>)
  /\ response' = Drop(response, S, NoResponse)
  /\ error' = Drop(error, S, <<>>)
  /\ owner' = Drop(owner, S, NULL)
  /\ pending' = pending - Cardinality(S)
  /\ UNCHANGED last

-----------------------------------------------------------------------------
Init ==
  /\ state = [c \in Ctx |-> "free"]
  /\ request = [c \in Ctx |-> NoReq]
  /\ required = [c \in Ctx |-> NULL]
  /\ cache = [c \in Ctx |-> <<>>]
  /\ response = [c \in Ctx |-> NoResponse]
  /\ error = [c \in Ctx |-> <<>>]
  /\ pending = 0
  /\ owner = [c \in Ctx |-> NULL]
  /\ last = NoCall

Next ==
  \/ \E c \in Ctx, ch \in RootChains, form \in RootForms : CreateRoot(c, ch, form)
  \/ \E p \in Ctx, m \in SubMethods, ps \in ParamStrs, meta \in Metas :
       \/ req_send_sub_request(p, m, ps, meta)
       \/ req_send_id_sub_request(p, m, ps, meta)
  \/ \E c \in Ctx, msg \in Msgs, from \in Accounts, d \in Digests :
       RequireSignature(c, msg, from, d)
  \/ \E c \in Ctx : Send(c)
  \/ \E c \in Ctx : Respond(c)
  \/ \E c \in Ctx : FreeRoot(c)

Spec == Init /\ [][Next]_vars

(***************************************************************************)
(* Fairness.  The transport answers or fails every request it is given     *)
(* (in3_send_req with its timeout), the executor sends every context that  *)
(* needs a response once its required list is done (spec 2: the driver     *)
(* drives every child to completion), and the application frees every     *)
(* finished root (in3_client_rpc calls req_free on every exit).  Creating  *)
(* roots, sub-requests and signatures is up to the application and is not  *)
(* fair.                                                                    *)
(***************************************************************************)
Fairness ==
  \A c \in Ctx : WF_vars(Send(c)) /\ WF_vars(Respond(c)) /\ WF_vars(FreeRoot(c))

FairSpec == Spec /\ Fairness

-----------------------------------------------------------------------------
(***************************************************************************)
(* Properties.                                                             *)
(***************************************************************************)
Requests == {NoReq} \cup {RootRequest(ch) : ch \in RootChains}
            \cup {SubRequestOf(m, ps, meta) : m \in SubMethods, ps \in ParamStrs, meta \in Metas}
            \cup {SignRequestOf(d, msg, from) : d \in Digests, msg \in Msgs, from \in Accounts}

TypeOK ==
  /\ state \in [Ctx -> {"free", "exec", "wait", "ok", "error"}]
  /\ request \in [Ctx -> Requests]
  /\ required \in [Ctx -> Ctx \cup {NULL}]
  /\ cache \in [Ctx -> Seq([key : Seq(STRING), val : Nat \cup Requests \cup
                           {Sig(m, d, a) : m \in Msgs, d \in Digests, a \in Accounts \cup {s.account : s \in ToSet(Signers)}}
                           \cup {Garbled},
                           props : SUBSET Props])]
  /\ response \in [Ctx -> {NoResponse, CallAnswer(TRUE), CallAnswer(FALSE)}
                          \cup [state : {"ok", "err"}, data : Seq(Parts)]]
  /\ error \in [Ctx -> Seq(STRING)]
  /\ pending \in 0..PendingLimit
  /\ owner \in [Ctx -> Ctx \cup {NULL}]

(* The required lists stay well formed through creation, removal of a      *)
(* harvested sign child (req_remove_required) and req_free: a live         *)
(* context never points at a freed slot, no list runs into a cycle, and no *)
(* context is linked from two places, so freeing one list never frees a    *)
(* context another list still reaches.                                     *)
RequiredListsWellFormed ==
  /\ \A c \in Alive : required[c] \in Alive \cup {NULL}
  /\ \A c \in Alive : c \notin ToSet(Chain(c))
  /\ \A x, y \in Alive : x # y /\ required[x] # NULL => required[x] # required[y]

(* Every live child is reachable from the list of a live root, so req_free *)
(* of the root releases it: harvesting and freeing never leak a context.   *)
NoLeakedContext ==
  \A c \in Alive : owner[c] # NULL =>
    \E r \in Alive : owner[r] = NULL /\ c \in ToSet(Chain(r))

(* client->pending, raised by req_new and lowered by every free, counts    *)
(* exactly the live contexts, so the 0xFFFF refusal of req_new is reached  *)
(* only when that many contexts really exist.                              *)
PendingCountsLiveContexts == pending = Cardinality(Alive)

(* Sub-request dedup (spec 4.2): however often a parent is re-driven, no   *)
(* two live children created by the same parent carry the same request,    *)
(* for resolver children and sign children alike.                          *)
NoDuplicateChildOfParent ==
  \A x, y \in Alive :
    x # y /\ owner[x] = owner[y] /\ owner[x] # NULL => request[x] # request[y]

(* The resolver answers a parent with a result only from a child that was  *)
(* asked exactly the same request (spec 4.2 matching: byte-equal params).  *)
ResolvedFromMatchingChild ==
  last.op = "sub" /\ last.ret = "ok" => last.got = last.want

(* req_require_signature returns a signature over the asked message with   *)
(* the asked digest type, made by the asked account when one is given.     *)
SignatureMatchesRequest ==
  last.op = "sign" /\ last.ret = "ok" =>
    /\ last.got.msg = last.want.msg
    /\ last.got.digest = last.want.digest
    /\ last.want.from # <<>> => last.got.by = last.want.from


(* Spec 4.5: a sign child that completed in an error state has its error   *)
(* propagated verbatim.  in3_ctx_add_response drops the payload received  *)
(* before an error chunk, so whatever mix of OK and error chunks the       *)
(* transport delivers, no context's error message carries bytes of a      *)
(* partly received signature.                                              *)
NoPayloadInErrorText ==
  \A c \in Ctx : \A i \in DOMAIN error[c] : error[c][i] \notin {"r", "s", "v"}

(* Every failure a resolver call (req_send_sub_request,                    *)
(* req_require_signature) reports to its caller is also recorded on the    *)
(* calling context, in its state and an error message, as spec 4.1 and 8  *)
(* require of a refused creation at the pending limit (ResourceExhausted,  *)
(* "not a silent drop").                                                    *)
ErrorReturnsAreRecorded ==
  last.op \in {"sub", "sign"} /\ last.ret \notin {"ok", "waiting"}
    => state[last.ctx] = "error" /\ error[last.ctx] # <<>>

(* A sub-request runs on the chain its in3 argument names, else on the     *)
(* effective chain of the parent that created it (spec 8, cache            *)
(* inheritance).                                                           *)
SubRequestRunsOnIntendedChain ==
  \A c \in Alive :
    owner[c] # NULL /\ ~IsSign(c) =>
      ChainId(c) = IF request[c].in3 # 0 THEN request[c].in3 ELSE ChainId(owner[c])



=============================================================================
