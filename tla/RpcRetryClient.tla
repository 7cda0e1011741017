--------------------------- MODULE RpcRetryClient ---------------------------
(***************************************************************************)
(* common/utils/rpc-retry-client.ts as its callers see it: how long a call *)
(* may take at most.  No caller passes fallback urls, so a call is         *)
(* callWithRetry() on its one url.                                         *)
(***************************************************************************)
EXTENDS Integers

\* maxRetries requests, each timed out by executeRpcCall(), with delays between
\* them that double from retryDelay.
CallDuration(maxRetries, retryDelay, timeout) ==
  maxRetries * timeout + retryDelay * (2 ^ (maxRetries - 1) - 1)
=============================================================================
