---------------------------- MODULE ModelClient ----------------------------
(***************************************************************************)
(* NvidiaClient (app/nvidia_client.py) as its callers see it: what a post  *)
(* to the model's API may end in, how a failure is classified, and which   *)
(* failures are worth another try.  A failure is a record of the status    *)
(* code (0 if there was no answer), the words that _classify_error looks   *)
(* for in the type's name and in the message, and whether it is one of     *)
(* httpx's TimeoutException and NetworkError.                              *)
(***************************************************************************)
EXTENDS Naturals

TypeWords == {"timeout", "parse", "response", "lookup", "empty", "network", "connect"}
Phrases == {"unauthorized", "rate_limit", "timeout", "not_found", "payload",
            "invalid", "empty"}
Codes == 0..599
Failures == [status : Codes, type : SUBSET TypeWords, said : SUBSET Phrases,
             transport : BOOLEAN]

(* _classify_error: the first rule that fits.  "lookup" stands for the     *)
(* names keyerror, indexerror, attributeerror and typeerror.               *)
Classify(f) ==
    IF      f.status \in {401, 403} \/ "unauthorized" \in f.said THEN "unauthorized"
    ELSE IF f.status = 429 \/ "rate_limit" \in f.said    THEN "rate_limit"
    ELSE IF "timeout" \in f.type \cup f.said             THEN "timeout"
    ELSE IF f.status = 404 \/ "not_found" \in f.said     THEN "model_unavailable"
    ELSE IF f.status \in {400, 422} \/ f.said \cap {"payload", "invalid"} # {}
                                                         THEN "payload_rejected"
    ELSE IF f.type \cap {"parse", "response", "lookup"} # {}
                                                         THEN "response_parse_error"
    ELSE IF "empty" \in f.type \cup f.said               THEN "empty_response"
    ELSE IF f.type \cap {"network", "connect"} # {}      THEN "network_error"
    ELSE "other"

Transient == {408, 409, 425, 429, 500, 502, 503, 504}

(* What a call returns, as far as its callers look.                        *)
Success == [success |-> TRUE, category |-> "none", status |-> 200]
Empty   == [success |-> FALSE, category |-> "empty_response", status |-> 200]
EmptySdk == [Empty EXCEPT !.status = 0]       \* the SDK result has no code
Failing(f) == [success |-> FALSE, category |-> Classify(f), status |-> f.status]

(* chat_completion_http posts once more after a transient status code and  *)
(* after a time-out or network error; nothing else is tried again.         *)
PostsAgain(f) == f.transport \/ f.status \in Transient
=============================================================================
