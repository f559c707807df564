----------------------------- MODULE MCHTTPClients -----------------------------
(* The two places that keep idle clients for later requests: the request session *)
(* and the curl util's cache.  They share nothing, so every behaviour explores    *)
(* one of them.                                                                   *)
EXTENDS HTTPFSCurlUtil, HTTPRequestSession, TLC

CONSTANTS t1, t2, u1, u2

VARIABLE place      \* "session" or "cache"

Symmetry == Permutations(Threads)

\* Two users, one of them behind a proxy.
Parameters(token, verify, proxy) ==
    [bearer_token |-> token, ca_cert_file |-> "", verify_ssl |-> verify, http_proxy |-> proxy]
Plain == Parameters("", TRUE, "")
Alice == Parameters("alice", TRUE, "")
Proxied == Parameters("", FALSE, "proxy")

Call(method, body, as_get, url, params, owns) ==
    [request |-> [method |-> method, body |-> body, send_post_as_get_request |-> as_get],
     url |-> url, params |-> params, caller_owns_client |-> owns]

\* Every method, with parameters and owners of every kind among them.
MCCalls == {Call("GET", None, FALSE, "a", Alice, FALSE), Call("GET", None, FALSE, "a", Plain, TRUE),
            Call("HEAD", None, FALSE, "a", Plain, TRUE), Call("PUT", "part", FALSE, "a", Plain, TRUE),
            Call("DELETE", None, FALSE, "a", Proxied, FALSE),
            Call("OPTIONS", None, FALSE, "b", Plain, FALSE),
            Call("POST", "form", FALSE, "a", Alice, TRUE),
            Call("POST", "form", TRUE, "a", Proxied, TRUE)}

Handlers == {"accept", "stop", "throw"}
MCGets == [stream_content : BOOLEAN, on_response : Handlers, on_content : Handlers]

\* A response after what may precede it, with no, one or two pieces of data.
Block(status, pieces) == <<<<"headers", status>>>> \o [i \in 1..pieces |-> <<"data", status>>]
Preludes == {<<>>, Block(PROXY, 0), Block(100, 0), Block(302, 1), Block(PROXY, 0) \o Block(302, 1)}
MCScripts == {[events |-> prelude \o Block(status, pieces), result |-> r] :
                 prelude \in Preludes, status \in {206, 304, 404}, pieces \in {0, 2},
                 r \in {"OK", "ERROR"}}
             \cup {[events |-> prelude, result |-> "ERROR"] : prelude \in Preludes}

Config(type, util, mode) == [type |-> type, http_util |-> util, reuse_mode |-> mode]
Unused == Config("S3", u1, "NONE")

\* Two utils whose clients stay in the session, a snapshot of another type, a util
\* that shares its clients, and no reuse.
MCConfigs == {Config("HTTP", u1, "SESSION_LOCAL"), Config("S3", u1, "SESSION_LOCAL"),
              Config("S3", u2, "SESSION_LOCAL"), Config("S3", u1, "SHARED"), Unused}

MCInit ==
    /\ Init
    /\ \/ /\ place = "session"
          /\ \E config \in Configs : SessionInit(config)
          /\ connection_caching_enabled /\ \A t \in Threads : cache_pool_idx[t] = Min(Pools)
       \/ place = "cache" /\ SessionInit(Unused)

MCNext ==
    /\ \/ place = "session" /\ SessionNext /\ UNCHANGED vars
       \/ place = "cache" /\ Next /\ UNCHANGED sessionVars
    /\ UNCHANGED place

MCSpec == MCInit /\ [][MCNext]_<<place, vars, sessionVars>>
=============================================================================
