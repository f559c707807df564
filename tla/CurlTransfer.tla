----------------------------- MODULE CurlTransfer -----------------------------
(****************************************************************************)
(* GetTransferState (src/http/httpfs_curl_client.cpp): what the callbacks of  *)
(* a GET make of the header blocks and the body data libcurl reports, which   *)
(* may belong to a proxy, to an interim response or to a redirect before they *)
(* belong to the response.                                                    *)
(*                                                                            *)
(* What libcurl reports is a script: the events <<"headers", status>> (the    *)
(* end of a header block) and <<"data", status>>, and the result of the       *)
(* transfer if no callback ends it before.                                    *)
(****************************************************************************)
EXTENDS Naturals, FiniteSets, Sequences, SequencesExt

PROXY == 1      \* the status of a "connection established" block; it leaves the code alone

\* Data is that of the header block before it; another block follows only the block of a
\* proxy, an interim response or a redirect; a transfer does not succeed on a proxy's answer.
IsScript(script) ==
    LET events == script.events
    IN  /\ events \in Seq({"headers", "data"} \X Nat)
        /\ \A i \in DOMAIN events : events[i][1] = "data" =>
              i > 1 /\ events[i][2] = events[i - 1][2] /\ events[i][2] # PROXY
        /\ \A i, j \in DOMAIN events : i < j /\ events[j][1] = "headers" =>
              events[i][2] \in 0..199 \cup 300..399
        /\ script.result = "OK" /\ events # <<>> => Last(events)[2] # PROXY

\* get: [stream_content, on_response, on_content], where a handler says "accept", "stop"
\* or "throw".
NewTransfer ==
    [response_code |-> 0, header_status |-> 0, response_started |-> FALSE,
     response_handler_called |-> FALSE, stopped |-> FALSE, error |-> FALSE,
     body |-> <<>>,         \* statuses of the data kept for the response
     handled |-> <<>>,      \* statuses the response handler was called with
     content |-> <<>>]      \* statuses of the data given to the content handler

Aborted(x) == x.stopped \/ x.error

\* A handler's answer.
Heeds(x, answer) == [x EXCEPT !.stopped = @ \/ answer = "stop", !.error = @ \/ answer = "throw"]

\* Mutant: a redirect counts as the response.
IsPreliminaryOnly(response_code) == response_code < 200

IsPreliminary(response_code) ==
    response_code < 200 \/ (response_code >= 300 /\ response_code < 400)

\* Neither kept nor streamed bodies of errors go to the handlers of the content.
KeepsBody(x, get) == ~get.stream_content \/ x.response_code >= 400

StartResponse(x, get, status) ==
    LET coded == [x EXCEPT !.response_code = status]
    IN  IF IsPreliminary(status) THEN coded
        ELSE IF KeepsBody(coded, get) THEN [coded EXCEPT !.response_started = TRUE]
        ELSE Heeds([coded EXCEPT !.response_started = TRUE, !.response_handler_called = TRUE,
                                 !.handled = Append(@, status)],
                   get.on_response)

\* The end of a header block.
HeaderCallback(x, get, status) ==
    LET seen == [x EXCEPT !.header_status = status]
    IN  IF status = PROXY \/ x.response_started THEN seen ELSE StartResponse(seen, get, status)

\* Data of a response that has not started, a redirect's, is dropped.
WriteCallback(x, get, status) ==
    LET started == IF x.response_started THEN x ELSE StartResponse(x, get, status)
    IN  IF ~started.response_started \/ Aborted(started) THEN started
        ELSE IF KeepsBody(started, get) THEN [started EXCEPT !.body = Append(@, status)]
        ELSE Heeds([started EXCEPT !.content = Append(@, status)], get.on_content)

Callback(x, get, event) ==
    IF Aborted(x) THEN x
    ELSE IF event[1] = "headers" THEN HeaderCallback(x, get, event[2])
    ELSE WriteCallback(x, get, event[2])

\* curl_easy_perform.
Execute(get, script) ==
    LET state[n \in 0..Len(script.events)] ==
            IF n = 0 THEN NewTransfer ELSE Callback(state[n - 1], get, script.events[n])
    IN  state[Len(script.events)]

\* What Get returns, or throws.  A transfer the handlers stopped is a success.
Finish(x, get, result) ==
    LET succeeds   == x.stopped \/ result = "OK"
        calls      == ~x.error /\ succeeds /\ ~x.response_handler_called
        thrown     == x.error \/ (calls /\ get.on_response = "throw")
    IN  [outcome |-> IF thrown THEN "exception" ELSE IF succeeds THEN "response" ELSE "request_error",
         status  |-> x.response_code,
         headers |-> x.header_status,
         body    |-> IF KeepsBody(x, get) THEN x.body ELSE <<>>,
         handled |-> IF calls THEN Append(x.handled, x.response_code) ELSE x.handled,
         content |-> x.content,
         stopped |-> x.stopped]

GetTransfer(get, script) == Finish(Execute(get, script), get, script.result)

-----------------------------------------------------------------------------
\* The response the script is about, and the data that belongs to it.
LastStatus(script) ==
    LET events == script.events
        blocks == {i \in DOMAIN events : events[i][1] = "headers" /\ events[i][2] # PROXY}
    IN  IF blocks = {} THEN 0 ELSE events[Max(blocks)][2]
FinalData(script) ==
    LET events == script.events
        final  == LastStatus(script)
    IN  [i \in 1..Cardinality({j \in DOMAIN events : events[j] = <<"data", final>>}) |-> final]

\* What a caller of Get may rely on.
TransferIsFaithful(get, script, result) ==
    LET final == LastStatus(script)
    IN  \* the response handler is called once at most, and with the last response
        /\ Len(result.handled) <= 1
        /\ \A i \in DOMAIN result.handled : result.handled[i] = final
        \* the content handler gets content of that response alone, in one piece
        /\ IsPrefix(result.content, FinalData(script))
        /\ result.content # <<>> => final \in 200..299 /\ get.stream_content
        \* a response that is returned has been handled, its status, headers and body are its own
        /\ result.outcome = "response" =>
              /\ result.handled = <<final>>
              /\ result.status = final
              /\ result.headers = final
              /\ ~result.stopped /\ ~IsPreliminary(final) =>
                    result.content \o result.body = FinalData(script)
=============================================================================
