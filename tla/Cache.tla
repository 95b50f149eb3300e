-------------------------------- MODULE Cache --------------------------------
(***************************************************************************)
(* The cache layer attached to every request context                      *)
(* (src/c/src/core/client/request.c).  A cache is a sequence of entries,   *)
(* most recently added first; an entry is a record of a key (a byte       *)
(* string, <<>> for an unkeyed property-only entry), a value and a set of  *)
(* property flags.  The ownership flag MUST_FREE only decides who frees a  *)
(* buffer and is not modelled.  This module has no variables: it gives the *)
(* cache operations as operators for the request engine.                  *)
(***************************************************************************)
EXTENDS Sequences, SequencesExt

\* The property flags of a cache entry (CACHE_PROP_*).
INHERIT  == "INHERIT"
CHAIN_ID == "CHAIN_ID"
SRC_REQ  == "SRC_REQ"
Props    == {INHERIT, CHAIN_ID, SRC_REQ}

\* NULL_BYTES: the key of a property-only entry.
NoKey == <<>>

Entry(k, v, p) == [key |-> k, val |-> v, props |-> p]

(***************************************************************************)
(* in3_cache_add_entry: the new entry becomes the head of the list.        *)
(***************************************************************************)
CacheAdd(c, e) == <<e>> \o c

(***************************************************************************)
(* in3_cache_get_entry: linear scan, first entry whose key equals k.       *)
(* Unkeyed entries are property-only and never match a key.               *)
(***************************************************************************)
KeyIndex(c, k) == SelectInSeq(c, LAMBDA e : e.key # NoKey /\ e.key = k)

CacheHas(c, k) == KeyIndex(c, k) # 0

CacheValue(c, k) == c[KeyIndex(c, k)].val

(***************************************************************************)
(* in3_chain_id: the value of the first CHAIN_ID entry, else the client    *)
(* default.                                                                *)
(***************************************************************************)
ChainIdOf(c, default) ==
  LET i == SelectInSeq(c, LAMBDA e : CHAIN_ID \in e.props)
  IN  IF i = 0 THEN default ELSE c[i].val

(***************************************************************************)
(* in3_set_chain_id: adds a CHAIN_ID|INHERIT entry unless the id is 0 or   *)
(* already the effective chain of the cache.                               *)
(***************************************************************************)
SetChainId(c, id, default) ==
  IF id = 0 \/ ChainIdOf(c, default) = id
  THEN c
  ELSE CacheAdd(c, Entry(NoKey, id, {CHAIN_ID, INHERIT}))

(***************************************************************************)
(* The inheritance loop of req_send_sub_request_internal: walk the         *)
(* parent's cache from its head and add every INHERIT entry to the child's *)
(* cache.  Each add puts the copy at the head of the child's list, so the  *)
(* copies end up in reverse order, in front of the child's own entries.    *)
(***************************************************************************)
Inherit(child, parent) ==
  FoldLeft(LAMBDA acc, e : IF INHERIT \in e.props THEN CacheAdd(acc, e) ELSE acc,
           child, parent)

=============================================================================
