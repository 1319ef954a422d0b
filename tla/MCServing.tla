------------------------------ MODULE MCServing ------------------------------
(* Documents are numbers; the Mark brings 4 in, which ranks second. *)
EXTENDS Serving

Before == <<1, 2, 3>>
After == <<1, 4, 2, 3>>

=============================================================================
