----------------------------- MODULE CurlClient -----------------------------
(***************************************************************************)
(* CURL_Client: one libcurl handle that sends request after request, into  *)
(* response objects their callers may use again.                           *)
(*                                                                         *)
(* libcurl keeps the options of a handle from one transfer to the next,    *)
(* and keeps pointers, not copies, to the header list, the body to post    *)
(* and the error buffer: all three are gone when send returns.  libcurl    *)
(* itself is modelled by what the code uses of it.                         *)
(*                                                                         *)
(* A definition whose name ends in Bug is a faulty variant of the one      *)
(* after it; it shows that a property can fail.  Nothing else uses it.     *)
(***************************************************************************)
EXTENDS Integers, Sequences

CONSTANTS
    Requests,       \* the requests: method, target (with the two timeouts),
                    \* follow_redirects, verify_ssl_peer, verify_ssl_host,
                    \* user_agent and the number of headers
    Responses,      \* addresses of CURL_Response objects
    MaxSends        \* bound: how often send is called

VARIABLES
    handle,         \* curl_ and the options set on it
    sends,          \* number of calls so far; the header list, body and error
                    \* buffer of call n are known as n
    req,            \* the request being sent
    to,             \* the response it fills
    resp,           \* per response: [status, from], from the calls that wrote it
    pc              \* "perform" between the last option and the transfer

vars == <<handle, sends, req, to, resp, pc>>

\* libcurl's defaults, which verify certificates; 0 stands for a null pointer.
Cleared == [open |-> TRUE, method |-> "GET", target |-> "", agent |-> "", redirect |-> FALSE,
            verify_peer |-> TRUE, verify_host |-> TRUE,
            headers |-> 0, list |-> 0, post |-> 0, errbuf |-> 0, sink |-> 0]

\* curl_easy_init may fail.
Init ==
    /\ \E ok \in BOOLEAN : handle = [Cleared EXCEPT !.open = ok]
    /\ sends = 0
    /\ req \in Requests
    /\ to \in Responses
    /\ resp = [r \in Responses |-> [status |-> 0, from |-> {}]]
    /\ pc = "idle"

\* curl_easy_reset forgets every option.
curl_easy_reset_Bug(h) == h

curl_easy_reset(h) == Cleared

\* resp.clear()
clear_Bug(r) == resp

clear(r) == [resp EXCEPT ![r] = [status |-> 0, from |-> {}]]

(***************************************************************************)
(* An option that is off or empty is not set: it stays as it is.  Since    *)
(* both verify options are on by default, a request can't switch them off. *)
(***************************************************************************)
setup_common_options(h, q, r) ==
    [h EXCEPT !.target      = q.target,
              !.redirect    = q.follow_redirects \/ @,
              !.verify_peer = q.verify_ssl_peer \/ @,
              !.verify_host = q.verify_ssl_host \/ @,
              !.agent       = IF q.user_agent # "" THEN q.user_agent ELSE @,
              !.sink        = r]

(***************************************************************************)
(* A curl_slist_append that fails answers NULL and keeps the list.  ptr    *)
(* lets go of the list anyway: it leaks, and only the headers after the    *)
(* last failure, rest in number, are sent.                                 *)
(***************************************************************************)
setup_headers(h, n, rest) ==
    [h EXCEPT !.headers = rest, !.list = IF rest = 0 THEN 0 ELSE n]

\* send up to the transfer; without a handle it answers false.
send(q, r) ==
    /\ pc = "idle"
    /\ handle.open
    /\ sends < MaxSends
    /\ sends' = sends + 1
    /\ req' = q
    /\ to' = r
    /\ resp' = clear(r)
    /\ \E rest \in 0 .. q.headers :
          LET h1 == [curl_easy_reset(handle) EXCEPT !.method = q.method]
              h2 == setup_headers(setup_common_options(h1, q, r), sends', rest)
          IN  handle' = [h2 EXCEPT !.post = IF q.method = "POST" THEN sends' ELSE @,
                                   !.errbuf = sends']
    /\ pc' = "perform"

(***************************************************************************)
(* perform_request: headers and body go to the response as they arrive,    *)
(* whatever becomes of the transfer; only a transfer that succeeds has a   *)
(* status.                                                                 *)
(***************************************************************************)
perform_request ==
    /\ pc = "perform"
    /\ \/ resp' = [resp EXCEPT ![handle.sink].from = @ \cup {sends}, ![to].status = sends]
       \/ resp' = [resp EXCEPT ![handle.sink].from = @ \cup {sends}]
       \/ UNCHANGED resp
    /\ pc' = "idle"
    /\ UNCHANGED <<handle, sends, req, to>>

\* The destructor.
Cleanup ==
    /\ pc = "idle"
    /\ handle.open
    /\ handle' = [handle EXCEPT !.open = FALSE]
    /\ UNCHANGED <<sends, req, to, resp, pc>>

Next ==
    \/ \E q \in Requests, r \in Responses : send(q, r)
    \/ perform_request
    \/ Cleanup

-----------------------------------------------------------------------------
(***************************************************************************)
(* What libcurl performs is this request, whatever the handle sent before: *)
(* no option of an earlier request is still set, the header list, the body *)
(* and the error buffer it points to are this call's, and it writes to     *)
(* this call's response.  Headers may be missing, but never another's.     *)
(* The two verify members are the exception: certificates are verified     *)
(* whatever the request says, as setup_common_options only ever switches   *)
(* these options on; verify_ssl_peer = false has no effect.                *)
(***************************************************************************)
PerformsThisRequest ==
    pc = "perform" =>
        /\ handle.method = req.method
        /\ handle.target = req.target
        /\ handle.agent = req.user_agent
        /\ handle.redirect = req.follow_redirects
        /\ handle.verify_peer /\ handle.verify_host
        /\ handle.headers <= req.headers
        /\ handle.list = IF handle.headers = 0 THEN 0 ELSE sends
        /\ handle.post = IF req.method = "POST" THEN sends ELSE 0
        /\ handle.errbuf = sends
        /\ handle.sink = to

(***************************************************************************)
(* A response that is used again never mixes two transfers, and has the    *)
(* status of the transfer that filled it or none: after a failed send the  *)
(* status of an earlier one is gone, even if half a body arrived.          *)
(***************************************************************************)
ResponseIsOfOneSend ==
    \A r \in Responses :
        /\ \A m, n \in resp[r].from : m = n
        /\ resp[r].status # 0 => resp[r].from = {resp[r].status}
=============================================================================
