---------------------------- MODULE MCGroupSend ----------------------------
EXTENDS GroupSend
MCFiles == {"sender-key", "sender-key-memory"}
=============================================================================
