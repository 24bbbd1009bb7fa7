--------------------------- MODULE HothTransport ---------------------------
(***************************************************************************)
(* What transports/libhoth_device.h promises of libhoth_send_request() and *)
(* libhoth_receive_response(), whatever the transport: a receive that      *)
(* succeeds delivers the response to the request sent last, and each       *)
(* request is answered at most once.  A receive that fails may keep the    *)
(* request or drop it: transports differ.                                  *)
(***************************************************************************)
CONSTANTS
    Requests,       \* the requests a client may send
    None            \* no request, no response

VARIABLES
    pending,        \* the request a receive would answer, or None
    delivered       \* the request the last successful receive answered

vars == <<pending, delivered>>

Init ==
    /\ pending = None
    /\ delivered = None

\* libhoth_send_request(): a second request replaces the first.
Send(r) ==
    /\ pending' = r
    /\ UNCHANGED delivered

\* libhoth_receive_response() returns HOTH_SUCCESS.
ReceiveOk ==
    /\ pending # None
    /\ delivered' = pending
    /\ pending' = None

\* It returns an error, or the device is closed and opened again.
Drop ==
    /\ pending' = None
    /\ UNCHANGED delivered

Next ==
    \/ \E r \in Requests : Send(r)
    \/ ReceiveOk
    \/ Drop

Spec == Init /\ [][Next]_vars
=============================================================================
