----------------------------- MODULE MCAguLoop -------------------------------
(* Every bound from unused to 3 and both kinds of stride, three dimensions. *)
EXTENDS AguLoop

ConfigsWith(bounds0) ==
  {[base |-> 1, strides |-> <<s, 2, 3>>, bounds |-> <<a, b, d>>, spatial |-> <<1>>] :
     s \in {0, 1}, a \in bounds0, b, d \in 0 .. 3}

OneLane == <<1>>

(* With an innermost bound of 0 the stride has to be non-zero. *)
GoodConfigs == ConfigsWith(1 .. 3) \cup {c \in ConfigsWith({0}) : c.strides[1] # 0}
==============================================================================
