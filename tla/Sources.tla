------------------------------- MODULE Sources -------------------------------
(***************************************************************************)
(* One call to a source: what provider_worker.py, a subprocess, makes of   *)
(* the response, and what providers.fetch_one makes of the worker.  Of an  *)
(* Operation, only its status and its retry_after matter to the caller.    *)
(***************************************************************************)
EXTENDS Integers

CONSTANTS
    Library,     \* sources asked through yfinance, which hides HTTP from the worker
    Official,    \* sources that answer with one file of closing prices
    Headers,     \* waits that a Retry-After header asks for, also into the past
    Longest,     \* the longest wait that is believed (86400 s)
    None

ASSUME SourceAssumption ==
    /\ Headers \subseteq Int
    /\ Longest \in Nat
    /\ Library \cap Official = {}
    /\ None \notin Int

Min(x, y) == IF x < y THEN x ELSE y
Max(x, y) == IF x < y THEN y ELSE x

-----------------------------------------------------------------------------
(* Responses *)

\* HTTP answers other than 200, with a readable Retry-After or none.
Codes == {429, 404, 500, 403}
Refusals == [kind : {"refused"}, code : Codes, header : Headers \cup {None}]

\* An exception, by what main() can tell of it.
Exceptions == [kind : {"raised"}, error : {"ratelimit", "timeout", "value", "other"}]

\* What may be wrong with a payload; what a source cannot get wrong counts as none.
Defects == {"not_json", "schema", "no_row", "symbol", "asset_type", "timezone", "currency",
            "price", "timestamp", "delay", "date", "not_closed"}
Payloads == [kind : {"payload"}, defect : Defects \cup {None}]

\* What a source may answer; the worker may also outlive its time, die, or find no
\* key for a source that wants one.
Responses(provider) ==
    Payloads \cup Exceptions \cup {[kind |-> "late"], [kind |-> "died"]}
        \cup (IF provider \in Library THEN {} ELSE Refusals)
        \cup (IF provider \in Library \cup Official THEN {} ELSE {[kind |-> "no_key"]})

-----------------------------------------------------------------------------
(* The worker *)

\* Mutant: the header is passed on as it is read.
retry_after_unclamped(header) == header

\* retry_after: a time in the past asks for no wait, and none is too long.
retry_after(header) == IF header = None THEN None ELSE Max(0, Min(header, Longest))

Worker(status, wait) == [status |-> status, retry_after |-> wait]

\* fetch: the status of an HTTP answer.
Refused(code) ==
    CASE code = 429  -> "rate_limited"
      [] code = 404  -> "unsupported_symbol"
      [] code >= 500 -> "network_error"
      [] OTHER       -> "provider_error"

\* main: an exception is only classified.
Raised(error) ==
    CASE error = "ratelimit" -> "rate_limited"
      [] error = "timeout"   -> "timeout"
      [] error = "value"     -> "invalid_payload"
      [] OTHER               -> "network_error"

\* fetch, for a payload: the worker itself looks at its form, and for the row of
\* the instrument in an official file.
Extracted(provider, defect) ==
    CASE defect \in {"not_json", "schema"} /\ provider \notin Library  -> "invalid_payload"
      [] defect = "no_row" /\ provider \in Official -> "unsupported_symbol"
      [] OTHER -> "success"

worker(provider, r) ==
    CASE r.kind = "refused" -> Worker(Refused(r.code), retry_after(r.header))
      [] r.kind = "raised"  -> Worker(Raised(r.error), None)
      [] r.kind = "no_key"  -> Worker("provider_error", None)
      [] OTHER              -> Worker(Extracted(provider, r.defect), None)

-----------------------------------------------------------------------------
(* The caller *)

\* normalize: what it refuses of each kind of source.
Checked(provider) ==
    CASE provider \in Library  -> {"symbol", "asset_type", "timezone", "currency", "price",
                                   "timestamp", "delay"}
      [] provider \in Official -> {"symbol", "price", "date", "not_closed"}
      [] OTHER                 -> {"price", "timestamp"}

\* fetch_one: the worker is bounded by its time, and its success is believed only
\* when the payload can be normalized.
fetch_one(provider, r) ==
    CASE r.kind = "late" -> Worker("timeout", None)
      [] r.kind = "died" -> Worker("provider_error", None)
      [] r.kind = "payload" /\ worker(provider, r).status = "success"
           -> Worker(IF r.defect \in Checked(provider) THEN "invalid_payload" ELSE "success", None)
      [] OTHER -> worker(provider, r)
=============================================================================
