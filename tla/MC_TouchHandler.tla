-------------------------- MODULE MC_TouchHandler --------------------------
(* Small instances of TouchHandler for TLC.                                *)
EXTENDS TouchHandler

\* 10 is a jitter (more than MOVE_LIMIT, less than TAP_LIMIT); 800 and 480
\* are the far edges of the default 800x480 screen (clamped when mapped).
MC_XVals == {0, 10, 800}
MC_YVals == {0, 10, 480}

MC_OneButton == <<"BTN_TOUCH">>
MC_TwoButtons == <<"BTN_TOUCH", "BTN_LEFT">>

MC_BothOrders == {"KeyFirst", "AbsFirst"}
MC_AbsFirst == {"AbsFirst"}
MC_KeyFirst == {"KeyFirst"}

MC_Default == {DefaultMapping}

\* The default mapping and a rotated screen onto an iPhone SE.
MC_Mappings == {[sw |-> 800, sh |-> 480, tw |-> 390, th |-> 844],
                [sw |-> 480, sh |-> 800, tw |-> 375, th |-> 667]}

=============================================================================
