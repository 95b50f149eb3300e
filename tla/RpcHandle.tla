------------------------------ MODULE RpcHandle ------------------------------
(***************************************************************************)
(* in3_rpc_handle_with_int (src/c/src/core/client/request.c), the helper  *)
(* through which an RPC handler answers with an integer (zksync's         *)
(* "verify").  The uint64 is written as 8 big-endian bytes, leading zero  *)
(* bytes are dropped down to one byte, the bytes are hex-encoded and one  *)
(* leading zero digit is skipped.  The JSON quoting and the "0x" prefix    *)
(* are constant text and left out: the result is the sequence of hex      *)
(* digits (as numbers 0..15) that follows "0x".                           *)
(***************************************************************************)
EXTENDS Naturals, Sequences

\* long_to_bytes: the n low bytes of v, most significant first.
RECURSIVE long_to_bytes(_, _)
long_to_bytes(v, n) ==
  IF n = 0 THEN <<>> ELSE long_to_bytes(v \div 256, n - 1) \o <<v % 256>>

\* b_optimize_len: leading zero bytes are dropped while more than one is left.
RECURSIVE b_optimize_len(_)
b_optimize_len(b) ==
  IF Len(b) > 1 /\ Head(b) = 0 THEN b_optimize_len(Tail(b)) ELSE b

\* bytes_to_hex: two digits per byte, high nibble first.
bytes_to_hex(b) ==
  [i \in 1..2 * Len(b) |-> IF i % 2 = 1 THEN b[(i + 1) \div 2] \div 16
                                        ELSE b[i \div 2] % 16]

\* Variant: the leading zero digit is kept.
in3_rpc_handle_with_int_keep0(v) == bytes_to_hex(b_optimize_len(long_to_bytes(v, 8)))

\* The digits written after "0x": if (s[3] == '0') s++.
in3_rpc_handle_with_int(v) ==
  LET s == bytes_to_hex(b_optimize_len(long_to_bytes(v, 8)))
  IN  IF s # <<>> /\ Head(s) = 0 THEN Tail(s) ELSE s

\* The hex digits of v without leading zeros, "0" for zero: the JSON-RPC
\* encoding of a quantity.
RECURSIVE QuantityDigits(_)
QuantityDigits(v) ==
  IF v < 16 THEN <<v>> ELSE QuantityDigits(v \div 16) \o <<v % 16>>

=============================================================================
