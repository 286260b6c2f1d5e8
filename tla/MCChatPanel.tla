----------------------------- MODULE MCChatPanel -----------------------------
(***************************************************************************)
(* Instances of ChatPanel and ToolLoop for TLC.                            *)
(***************************************************************************)
EXTENDS ChatPanel
=============================================================================
