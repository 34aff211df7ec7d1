----------------------------- MODULE MCChatFeed -----------------------------
EXTENDS ChatFeed
CONSTANTS a, b
MCChannels == {a, b}
MCStart == <<a, a, b>>
=============================================================================
