------------------------------ MODULE AwsRetry ------------------------------
(***************************************************************************)
(* The retry policy every AWS call of the repository's own producers goes  *)
(* through (src/common/retry.py).  The errors a call can raise are reduced *)
(* to the kinds the policy and its callers tell apart.                     *)
(***************************************************************************)
EXTENDS Naturals

(* Errors `is_retryable_aws_error` accepts: botocore's connection errors   *)
(* and the six throttling or service-side codes.                           *)
RetryableErrors == {"ConnectionError", "Throttling", "InternalError"}

(* Errors it refuses.  ReadTimeoutError is not a botocore ConnectionError, *)
(* and ProvisionedThroughputExceededException is not one of the codes.     *)
FatalErrors ==
  {"ReadTimeoutError", "ProvisionedThroughputExceededException", "AccessDenied"}

AwsErrors == RetryableErrors \cup FatalErrors

(* Errors after which the caller does not know whether the service did     *)
(* what it was asked.                                                      *)
AmbiguousErrors == {"ConnectionError", "InternalError", "ReadTimeoutError"}

(* Mutant of GivesUp: one attempt too many.                                *)
GivesUpLate(error, attempt, retries) ==
  error \notin RetryableErrors \/ attempt > retries

(* retry(): whether an error of the given attempt leaves the loop.         *)
GivesUp(error, attempt, retries) ==
  error \notin RetryableErrors \/ attempt = retries

=============================================================================
