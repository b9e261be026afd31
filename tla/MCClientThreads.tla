-------------------------- MODULE MCClientThreads --------------------------
(* One user who asks for friendship and two chats, the second one newer.    *)
EXTENDS ClientThreads

MCChatIds == {1, 2}
=============================================================================
