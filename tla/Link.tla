-------------------------------- MODULE Link --------------------------------
(***************************************************************************)
(* What a connection promises its users about sockets, with no locks and   *)
(* no goroutines: at any time at most one socket is shown to readers and   *)
(* writers, the shown socket is taken away before another one appears, and *)
(* a socket that was shown, refused or withdrawn never comes back.         *)
(***************************************************************************)
CONSTANTS Sockets, NoSocket

VARIABLES shown,    \* the socket readers and writers find, or NoSocket
          fresh     \* the sockets that may still be shown one day

linkVars == <<shown, fresh>>

LinkInit == shown = NoSocket /\ fresh = Sockets

Show(s) ==
    /\ shown = NoSocket
    /\ s \in fresh
    /\ shown' = s
    /\ fresh' = fresh \ {s}

Hide ==
    /\ shown # NoSocket
    /\ shown' = NoSocket
    /\ UNCHANGED fresh

Discard(s) ==
    /\ s \in fresh
    /\ fresh' = fresh \ {s}
    /\ UNCHANGED shown

LinkNext == Hide \/ \E s \in Sockets : Show(s) \/ Discard(s)

LinkSpec == LinkInit /\ [][LinkNext]_linkVars
=============================================================================
