---------------------------- MODULE MCTickPipeline ----------------------------
(* The feed of the model-checked instance: its stamps and their dates. *)
EXTENDS TickPipeline

MCDistinct == <<1, 2, 3, 4>>
MCTwoDates == <<1, 1, 1, 2>>
=============================================================================
