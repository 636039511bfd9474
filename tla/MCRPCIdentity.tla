---------------------------- MODULE MCRPCIdentity ----------------------------
(* Three callers: a leader, a follower, and one that begins when the        *)
(* discovery the others wait for is over; two networks that can disagree.   *)
EXTENDS RPCIdentity
=============================================================================
