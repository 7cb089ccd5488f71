-------------------------- MODULE MCChannelHistory --------------------------
(* A small instance of ChannelHistory for TLC: a Telegram chat and one     *)
(* elsewhere.                                                               *)
EXTENDS ChannelHistory

CONSTANTS direct, web, alice, bob

MCConversationOf == [c \in Chats |-> IF c = web THEN bob ELSE alice]
=============================================================================
