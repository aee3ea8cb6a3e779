--------------------------- MODULE MCConversations ---------------------------
(* Ana has two tabs; Bia's one shares the tables with them. *)
EXTENDS Conversations, TLC

CONSTANTS Ana, Bia, AnaTab, AnaTab2, BiaTab

MCOwnerOf == AnaTab :> Ana @@ AnaTab2 :> Ana @@ BiaTab :> Bia

=============================================================================
