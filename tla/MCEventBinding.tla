---------------------------- MODULE MCEventBinding ----------------------------
(* A box and two rows, with forms that mix compact and dynamic bindings,       *)
(* filters, `once`, capture, stopping and every kind of payload.               *)
EXTENDS EventBinding

b(key, policy, requested, plan) == [key |-> key, policy |-> policy, requested |-> requested, plan |-> plan]

OfBox ==
    { << b("keydown", {"capture", "once", "trusted"}, "auto", "detail"), b("pointer_down", {}, "auto", "none") >>,
      << b("click", {}, "auto", "none"), b("keydown", {"once", "self"}, "native", "record_key_shift") >> }

OfRow ==
    { << b("keydown", {"stop_propagation"}, "auto", "record_key_shift"), b("input", {}, "auto", "target_value") >>,
      << b("picked", {"prevent_default"}, "auto", "target_checked"), b("click", {}, "auto", "none") >> }

MCForms == [e \in Elems |-> IF e = Box THEN OfBox ELSE OfRow]
===============================================================================
