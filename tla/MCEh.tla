-------------------------------- MODULE MCEh --------------------------------
(***************************************************************************)
(* One or two coroutines.  B derives from A; P has A as a private base; M  *)
(* derives from A and, at offset 4, from X.                                *)
(***************************************************************************)
EXTENDS CvmEh

Base(t, o, p) == [base |-> t, offset |-> o, public |-> p]
SingleTypes == {"A", "B", "P"}
SingleBases == [t \in SingleTypes |->
  CASE t = "A" -> <<>> [] t = "B" -> <<Base("A", 0, TRUE)>>
    [] t = "P" -> <<Base("A", 0, FALSE)>>]
SingleTries == {<<"A">>, <<"B", CatchAll>>}

MultiTypes == {"A", "X", "M"}
MultiBases == [t \in MultiTypes |->
  IF t = "M" THEN <<Base("A", 0, TRUE), Base("X", 4, TRUE)>> ELSE <<>>]
MultiTries == {<<"X">>}
=============================================================================
