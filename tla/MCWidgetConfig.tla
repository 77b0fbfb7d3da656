---------------------------- MODULE MCWidgetConfig ----------------------------
(* WidgetConfig for TLC: a few field lists, one of them with a repeated name. *)
EXTENDS WidgetConfig

Field(n, r) == [name |-> n, required |-> r]

Forms == {<<Field("a", TRUE)>>,
          <<Field("a", FALSE), Field("b", TRUE)>>,
          <<Field("a", TRUE), Field("a", FALSE)>>}
===============================================================================
