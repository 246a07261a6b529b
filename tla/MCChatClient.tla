---------------------------- MODULE MCChatClient ----------------------------
(* Two tabs that share a browser: one sends prompts and may be reloaded,   *)
(* the other shows the traces of both.                                     *)
EXTENDS ChatClient, TLC

CONSTANTS t1, t2

TwoTabs == {t1, t2}
MCTurns == (t1 :> 2) @@ (t2 :> 0)
MCLoads == (t1 :> 2) @@ (t2 :> 1)
=============================================================================
