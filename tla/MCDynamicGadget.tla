--------------------------- MODULE MCDynamicGadget ---------------------------
EXTENDS DynamicGadget

\* The functions of the board file, in its order, and a second mass storage: with
\* all three, there are more interfaces than ids.  The products of the table are
\* more than the board's one, so that the ids tell the functions apart.
MCFunctions == <<"mass_storage", "acm", "second_storage">>
MCInterfaces == [f \in Range(MCFunctions) |-> IF f = "acm" THEN 2 ELSE 1]
MCAcm == {"acm"}
MCDefault == [vendor |-> 9, product |-> 0]
MCProducts == <<[vendor |-> 0, product |-> 1, functions |-> {"mass_storage"}],
                [vendor |-> 7, product |-> 2, functions |-> {"mass_storage", "acm"}]>>
==============================================================================
