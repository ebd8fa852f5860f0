---------------------- MODULE MCInstallmentCollection ----------------------
(* Instances of InstallmentCollection: every call is about one installment, *)
(* since calls about different installments share no state.                *)
EXTENDS InstallmentCollection
CONSTANT i1
MCInstallments == {i1}
MCTarget == [c \in Calls |-> i1]
============================================================================
