---------------------------- MODULE MCEventLoops ----------------------------
(* Instances of EventLoops for TLC: two loops with a client each, or the    *)
(* first with two.                                                          *)
EXTENDS EventLoops, TLC

CONSTANTS l1, l2, c1, c2, c3

MCLoopOf   == (c1 :> l1) @@ (c2 :> l2)
MCLoopOf3  == MCLoopOf @@ (c3 :> l1)
MCChannels == <<"channel0", "channel1">>
MCMutexes  == {"mutexForOnlineUsers_", "mutexForChatInformation", "mutexForSessionsId",
               "mutexForImageRecognizerMap"}
AllKinds   == {"login", "logout", "register", "send", "create", "history", "sessions",
               "upload", "speech", "tls"}
=============================================================================
